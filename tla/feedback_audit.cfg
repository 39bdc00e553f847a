SPECIFICATION Spec
CONSTANTS
  Cards = {card}
  Choices = {guide, code}
  Calls = {c1, c2}
  MaxGenerations = 2
  MaxCalls = 2
SYMMETRY FeedbackSymmetry
INVARIANT AuditMatchesRow
CHECK_DEADLOCK FALSE
