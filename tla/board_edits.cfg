SPECIFICATION Spec
CONSTANTS
  Loaded = {a, b}
  NewCards = {}
  Notes = {memo}
  FileOf <- OneFile
  Empty = empty
  Texts = {empty, typed}
  Places = {p1, p2}
  Start = p1
  Origin = p2
  Strokes = {}
  MaxHistory = 1
  MaxInFlight = 2
  MaxGestures = 2
  MaxReloads = 0
PROPERTIES EditsAreSaved
CHECK_DEADLOCK FALSE
