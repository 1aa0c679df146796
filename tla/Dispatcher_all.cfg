\* Three events, one to an unconfigured merchant; batches of two; two faults.
SPECIFICATION FairSpec
CONSTANTS
  d1 = d1
  d2 = d2
  N = 3
  Dispatchers = {d1, d2}
  Configured = {1, 2}
  Flaky = {1}
  BatchSize = 2
  MaxAttempts = 2
  MaxFaults = 2
INVARIANTS
  TypeOK
  DeliveredWasAccepted
  ParkedAfterFailures
  DuplicatesNeedFaults
  DInv
PROPERTIES
  FinishedStays
  PublishedEnds
CHECK_DEADLOCK FALSE
