SPECIFICATION DashboardSpec
CONSTANTS
  ann = ann
  bob = bob
  shared = shared
  own = own
  People = {ann, bob}
  MaxSignIns = 1
  Projects = {shared, own, new}
  ProjectsBefore <- TwoProjects
  VariantIds = {v1, v2}
  MaxRecent = 1
  MaxCompared = 2
  MaxOrders = 2
  guide_x = guide_x
  Guides = {guide_x}
  Queries <- AllGuides
  MaxActs = 4
  main_go = main_go
  vendored = vendored
  Files = {main_go, vendored}
  Folders <- WholeFolders
  Rows <- TreeRows
  AutoExcluded = {vendored}
  MaxImports = 2
  MaxTries = 2
INVARIANTS MainExists ForksStayInProject ShownForUser ShownListIsChosen LikesShownAreStored GraphOfWholeUpload ImportedIsPicked
PROPERTIES TypedSurvives
CHECK_DEADLOCK FALSE
