SPECIFICATION Spec
CONSTANTS
  main = main
  fork = fork
  f1 = f1
  f2 = f2
  Variants = {main}
  Uploaded = {main}
  Files = {f1, f2}
  Jobs = {job1}
  Targets <- AllTargets
  Edits = {}
  Builds = {}
  MaxAttempts = 1
  Nested = TRUE
INVARIANT CodeIsAtPath
CHECK_DEADLOCK FALSE
