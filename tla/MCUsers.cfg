SPECIFICATION Spec
CONSTANTS
  Names = {u1, u2}
  Passwords = {p1, p2}
  Tokens = {t1, t2}
  Requests = {q1, q2, q3}
  NoUser = NoUser
  NoSession = NoSession
  MaxOpen = 2
  MaxFailures = 1
  MaxCuts = 1
SYMMETRY Symmetry
CHECK_DEADLOCK FALSE
INVARIANTS TypeOK AdminRemains SessionsAreCurrent GuessesBounded
