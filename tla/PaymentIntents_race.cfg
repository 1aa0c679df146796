\* Two requests with one key and two bodies.
SPECIFICATION Spec
CONSTANTS
  r1 = r1
  r2 = r2
  r3 = r3
  None = None
  NoKey = NoKey
  MerchantOf <- Keyring
  Requests = {r1, r2}
  Posts <- PostTwo
INVARIANTS
  DifferentBodyRefused
CHECK_DEADLOCK FALSE
