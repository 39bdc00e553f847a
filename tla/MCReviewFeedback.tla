-------------------------- MODULE MCReviewFeedback --------------------------
(* Small instances of ReviewFeedback.  Cards, choices and slots are        *)
(* interchangeable.                                                         *)
EXTENDS ReviewFeedback, TLC

FeedbackSymmetry ==
  Permutations(Cards) \cup Permutations(Choices) \cup Permutations(Calls)
=============================================================================
