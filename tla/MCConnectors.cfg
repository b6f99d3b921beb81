SPECIFICATION Spec
CONSTANTS
  Jobs = {j1, j2, j3}
  Workers = {w1, w2}
  Suffixes = {pdf, png}
  Sizes = {2, 3, 4}
  Chunk = 2
  Base = 1
  MaxWait = 3
  Waits <- MCWaits
  MaxAttempts = 3
  MaxFaults = 2
  Common = common
  Nothing = nothing
SYMMETRY Symmetry
CHECK_DEADLOCK FALSE
INVARIANTS TypeOK  OnePlaceEach  NoFailureByItself
