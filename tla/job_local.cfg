SPECIFICATION Spec
CONSTANTS
  Jobs = {job1, job2, job3}
  MaxAttempts = 1
  Dispatcher = "local"
SYMMETRY JobSymmetry
INVARIANTS FailureIsFinal
CHECK_DEADLOCK FALSE
