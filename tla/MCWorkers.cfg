SPECIFICATION Spec
CONSTANTS
  w1 = w1
  w2 = w2
  q1 = q1
  q2 = q2
  q3 = q3
  q4 = q4
  Nobody = Nobody
  Jobs <- TwoJobs
  Workers = {w1, w2}
  Requests = {q1}
  TextType <- Mixed
  RequireRouting = FALSE
  Policy = "archive"
  MaxAttempts = 2
  Budget <- OneOfEach
  Kinds <- QueueKinds
  MaxOpen = 1
SYMMETRY Symmetry
CHECK_DEADLOCK FALSE
INVARIANTS TypeOK OneWorkerPerJob SentOncePerFault AttemptsBounded
