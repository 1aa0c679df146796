\* Two intents, both with a negative spread; a reply of the bank is lost and a
\* lease runs out under a live worker.
SPECIFICATION Spec
CONSTANTS
  i1 = i1
  i2 = i2
  w1 = w1
  w2 = w2
  None = None
  Intents = {i1, i2}
  Workers = {w1, w2}
  Keys = {1, 2, 3, 4, 5, 6, 7}
  BankDetails = {i1, i2}
  NonNegSpread = {}
  MaxAttempts = 2
  MaxCrashes = 0
  MaxUnacked = 0
  MaxLost = 1
  MaxStale = 1
SYMMETRY SymmetryBoth
CHECK_DEADLOCK FALSE
INVARIANTS
  Inductive
