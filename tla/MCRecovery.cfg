SPECIFICATION FairSpec
CONSTANTS
  w1 = w1
  w2 = w2
  q1 = q1
  q2 = q2
  q3 = q3
  q4 = q4
  Nobody = Nobody
  Jobs <- TwoJobs
  Workers = {w1}
  Requests = {q1, q2}
  TextType <- Mixed
  RequireRouting = FALSE
  Policy = "retain"
  MaxAttempts = 2
  Budget <- OneWorkerCrash
  Kinds <- AllKinds
  MaxOpen = 2
CHECK_DEADLOCK FALSE
PROPERTIES EveryJobComesToRest ReleaseEnds
