SPECIFICATION FairSpec
CONSTANTS
  Jobs = {job}
  MaxAttempts = 3
  Dispatcher = "cloudrun"
INVARIANTS TypeOK RowCoherent SuccessSticks DoneMeansApplied RepeatedOnlyAfterDeath
PROPERTIES LifecycleSpec SuccessUndoneByRetry DispatchedJobSettles WaitingEnds
CHECK_DEADLOCK FALSE
