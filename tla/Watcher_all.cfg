\* A deposit for an intent, one without a reference and a transaction that only
\* mentions the reference; an error, a restart and a dropped transaction.
SPECIFICATION FairSpec
CONSTANTS
  i1 = i1
  s1 = s1
  s2 = s2
  s3 = s3
  None = None
  Intents = {i1}
  Sigs = {s1, s2, s3}
  Ref <- RefAll
  Transfers = {s1, s2}
  PollLimit = 1
  PromoteBatchSize = 1
  MaxErrors = 1
  MaxCrashes = 1
  MaxDrops = 1
INVARIANTS
  TypeOK
  FinalizedHasSaga
  SagaHasFinalDeposit
  LinksAreTrue
  WInv
PROPERTIES
  RowsOnlyRise
  SagaUnlessStarved
