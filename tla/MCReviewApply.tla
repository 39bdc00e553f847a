--------------------------- MODULE MCReviewApply ---------------------------
(* Small instances of ReviewApply: model values for its sets, and which     *)
(* files the cards of a job point at.                                       *)
EXTENDS ReviewApply, TLC

CONSTANTS main, fork, f1, f2

AllTargets == [j \in Jobs |-> Files]
FirstFileOnly == [j \in Jobs |-> {f1}]

ApplySymmetry == Permutations(Jobs) \cup Permutations(Edits)
FileSymmetry == Permutations(Files)
=============================================================================
