SPECIFICATION WorkspaceSpec
CONSTANTS
  Loaded = {a}
  NewCards = {c}
  Notes = {memo}
  FileOf <- OneFile
  Empty = empty
  Texts = {empty, typed}
  Places = {p1, p2}
  Start = p1
  Origin = p2
  Strokes = {stroke}
  MaxHistory = 1
  MaxInFlight = 2
  MaxGestures = 2
  MaxReloads = 1
  Findings = {f}
  Paths = {guide, code}
  MaxCalls = 2
  MaxDeeds = 3
  MaxReviews = 2
  f1 = f1
  f2 = f2
  f3 = f3
  f4 = f4
  gone = gone
  BoardNodes <- FourFunctions
  GraphCalls <- SomeCalls
  MaxGraphCalls = 4
  Gaps <- NarrowAndWide
  Rings <- SmallRings
  Opened <- TwoFiles
  SourceOf <- SourceFiles
  TitleOf <- OwnTitles
  FoldersOf <- TreeFolders
  Statements = {"return"}
  NewIds = {"n1"}
  NewTitles = {"f1", "new"}
  MaxLines = 2
  MaxDone = 4
INVARIANTS TextsStayWithTheirCard ShownIsStored OneReviewShown AppliedCardsStayAway FilesOpenOnce TypedTextLands CycleCallsAreMarked GridIsReadable RingsHoldAll
PROPERTIES HistorySpec SavesLeave LayoutEnds LoopsEnd
CHECK_DEADLOCK FALSE
