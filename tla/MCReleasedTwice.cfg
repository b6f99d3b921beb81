SPECIFICATION Spec
CONSTANTS
  w1 = w1
  w2 = w2
  q1 = q1
  q2 = q2
  q3 = q3
  q4 = q4
  Nobody = Nobody
  Jobs <- OneJob
  Workers = {w1}
  Requests = {q1, q2, q3, q4}
  TextType <- Unknown
  RequireRouting = FALSE
  Policy = "retain"
  MaxAttempts = 2
  Budget <- NoFaults
  Kinds <- ReviewKinds
  MaxOpen = 4
SYMMETRY Symmetry
CHECK_DEADLOCK FALSE
PROPERTIES ReleasedOnce
