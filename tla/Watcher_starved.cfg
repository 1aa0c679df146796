\* The cluster drops the deposit whose row is the oldest, and a batch holds one row.
SPECIFICATION FairSpec
CONSTANTS
  i1 = i1
  s1 = s1
  s2 = s2
  s3 = s3
  None = None
  Intents = {i1}
  Sigs = {s1, s2}
  Ref <- RefOther
  Transfers = {s1, s2}
  PollLimit = 1
  PromoteBatchSize = 1
  MaxErrors = 0
  MaxCrashes = 0
  MaxDrops = 1
PROPERTIES
  DepositLeadsToSaga
