SPECIFICATION Spec
CONSTANTS
  w1 = w1
  w2 = w2
  q1 = q1
  q2 = q2
  q3 = q3
  q4 = q4
  Nobody = Nobody
  Jobs <- OneJob
  Workers = {w1, w2}
  Requests = {q1, q2, q3, q4}
  TextType <- Unknown
  RequireRouting = TRUE
  Policy = "archive"
  MaxAttempts = 2
  Budget <- OneOfEach
  Kinds <- AllKinds
  MaxOpen = 1
SYMMETRY Symmetry
CHECK_DEADLOCK FALSE
INVARIANTS DeliveredIsValid PathIsTrue
PROPERTIES ReviewsAreKept DeliveredIsFinal
