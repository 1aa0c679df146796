\* One intent, two workers: a crash or SQL error, an unacknowledged commit and
\* an expired lease; safety, the promise, and that an enqueued saga ends.
SPECIFICATION FairSpec
CONSTANTS
  i1 = i1
  w1 = w1
  w2 = w2
  None = None
  Intents = {i1}
  Workers = {w1, w2}
  Keys = {1, 2, 3, 4, 5, 6}
  BankDetails = {i1}
  NonNegSpread = {i1}
  MaxAttempts = 2
  MaxCrashes = 1
  MaxUnacked = 1
  MaxLost = 0
  MaxStale = 1
CHECK_DEADLOCK FALSE
INVARIANTS
  TypeOK
  StepsFollowEffects
  DisbursedOnlyIfCredited
  BooksMatchBank
  AnnouncedOnlyIfBooked
  SerializedSubmission
  EntriesPostedOnce
  NoLockCycle
  PaidOnceIfAnswered
  OneWorkerPerSaga
PROPERTIES
  KeepsPromise
  StateMachineIfUndisturbed
  SagaEnds
