SPECIFICATION Spec
CONSTANTS
  Cards = {card}
  Choices = {guide, code}
  Calls = {c1, c2}
  MaxGenerations = 2
  MaxCalls = 3
SYMMETRY FeedbackSymmetry
INVARIANTS DecisionsAreLogged ResolvedSaysHow RepliesFollowQuestions OldCardsWereSaved DecisionsAreAudited
CHECK_DEADLOCK FALSE
