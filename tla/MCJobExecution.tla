--------------------------- MODULE MCJobExecution ---------------------------
(* Small instances of JobExecution.  Jobs are interchangeable: safety runs  *)
(* use the symmetry, the liveness run does not.                             *)
EXTENDS JobExecution, TLC

JobSymmetry == Permutations(Jobs)
=============================================================================
