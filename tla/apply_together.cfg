SPECIFICATION Spec
CONSTANTS
  main = main
  fork = fork
  f1 = f1
  f2 = f2
  Variants = {main}
  Uploaded = {main}
  Files = {f1, f2}
  Jobs = {job1, job2}
  Targets <- FirstFileOnly
  Edits = {edit}
  Builds = {build}
  MaxAttempts = 1
  Nested = FALSE
SYMMETRY ApplySymmetry
INVARIANTS OnlyTargetsRewritten VersionWithinUpdates
CHECK_DEADLOCK FALSE
