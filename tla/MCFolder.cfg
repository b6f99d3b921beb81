SPECIFICATION FairSpec
CONSTANTS
  good = good
  bad = bad
  u1 = u1
  u2 = u2
  u3 = u3
  Nothing = Nothing
  Watcher = Watcher
  Contents = {good, bad}
  Refused = {bad}
  Names = {1, 2}
  Jobs = {1, 2}
  Uploads = {}
  FaultBudget <- AllButScanner
  MaxDrops = 2
  MaxEdits = 1
  Policy = "delete"
CHECK_DEADLOCK FALSE
PROPERTIES SourceEnteredFirst FolderDrains
