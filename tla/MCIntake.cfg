SPECIFICATION Spec
CONSTANTS
  good = good
  bad = bad
  u1 = u1
  u2 = u2
  u3 = u3
  Nothing = Nothing
  Watcher = Watcher
  Contents = {good}
  Refused = {}
  Names = {1, 2}
  Jobs = {1, 2, 3}
  Uploads = {u1, u2, u3}
  FaultBudget <- StoreAndScanner
  MaxDrops = 0
  MaxEdits = 0
  Policy = "archive"
SYMMETRY Symmetry
CHECK_DEADLOCK FALSE
INVARIANTS TypeOK WaitingHasFile NoFileUnnamed
PROPERTY RegistryKept
