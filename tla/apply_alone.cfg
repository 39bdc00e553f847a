SPECIFICATION Spec
CONSTANTS
  main = main
  fork = fork
  f1 = f1
  f2 = f2
  Variants = {main, fork}
  Uploaded = {main}
  Files = {f1, f2}
  Jobs = {job1}
  Targets <- AllTargets
  Edits = {}
  Builds = {}
  MaxAttempts = 3
  Nested = FALSE
INVARIANT SuccessIsVisible
PROPERTY ApplyKeepsLifecycle
CHECK_DEADLOCK FALSE
