\* One lease runs out under a live worker.
SPECIFICATION Spec
CONSTANTS
  i1 = i1
  w1 = w1
  w2 = w2
  None = None
  Intents = {i1}
  Workers = {w1, w2}
  Keys = {1, 2, 3, 4}
  BankDetails = {i1}
  NonNegSpread = {i1}
  MaxAttempts = 2
  MaxCrashes = 0
  MaxUnacked = 0
  MaxLost = 0
  MaxStale = 1
CHECK_DEADLOCK FALSE
PROPERTIES
  IntentFollowsStateMachine
