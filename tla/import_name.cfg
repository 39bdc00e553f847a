SPECIFICATION ImportSpec
CONSTANTS
  Files = {main_go, util_go}
  Folders <- OneFolder
  Rows <- FilesOnly
  AutoExcluded = {}
  MaxImports = 1
  MaxTries = 1
INVARIANT NameSurvives
CHECK_DEADLOCK FALSE
