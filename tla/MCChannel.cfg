SPECIFICATION Spec
CONSTANTS
  good = good
  bad = bad
  u1 = u1
  u2 = u2
  u3 = u3
  Nothing = Nothing
  Watcher = Watcher
  Contents = {good}
  Refused = {}
  Names = {1}
  Jobs = {1}
  Uploads = {}
  FaultBudget <- NoFault
  MaxDrops = 1
  MaxEdits = 1
  Policy = "retain"
CHECK_DEADLOCK FALSE
PROPERTIES OffStaysOff
