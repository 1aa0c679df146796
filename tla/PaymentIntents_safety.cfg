\* Three requests of every kind in PostMix, and reads of their intents.
SPECIFICATION Spec
CONSTANTS
  r1 = r1
  r2 = r2
  r3 = r3
  None = None
  NoKey = NoKey
  MerchantOf <- Keyring
  Requests = {r1, r2, r3}
  Posts <- PostMix
SYMMETRY Symmetry
INVARIANTS
  TypeOK
  ReplaysAreOriginals
  CacheIsStored
  SeenKeyIsHonoured
PROPERTIES
  KeepsPromise
CHECK_DEADLOCK FALSE
