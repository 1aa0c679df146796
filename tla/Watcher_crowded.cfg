\* No fault but a missed message; a newer transaction mentions the reference, and
\* a poll lists one.
SPECIFICATION FairSpec
CONSTANTS
  i1 = i1
  s1 = s1
  s2 = s2
  s3 = s3
  None = None
  Intents = {i1}
  Sigs = {s1, s3}
  Ref <- RefSame
  Transfers = {s1}
  PollLimit = 1
  PromoteBatchSize = 1
  MaxErrors = 0
  MaxCrashes = 0
  MaxDrops = 0
PROPERTIES
  PollerCatches
