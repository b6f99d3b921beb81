SPECIFICATION Spec
CONSTANTS
  Ids = {t1, t2, t3}
  Names = {standard, other}
  Standard = standard
  Settings = {plain, secret}
  Secretive = {secret}
  Api = api
  Workers = {w1}
  Requests = {q1, q2}
  NoTarget = NoTarget
SYMMETRY Symmetry
CHECK_DEADLOCK FALSE
INVARIANTS TypeOK OneDefault DefaultExists StartsAgain
PROPERTY DeliveriesLeaveTargets
