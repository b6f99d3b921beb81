----------------------------- MODULE MCPipeline -----------------------------
(* Constants of the model-checking runs of Pipeline.                       *)
EXTENDS Pipeline, TLC

CONSTANTS w1, w2, q1, q2, q3, q4

OneJob == {1}
TwoJobs == {1, 2}

Typed == [j \in Jobs |-> "typed"]
Unknown == [j \in Jobs |-> "unknown"]
Mixed == [j \in Jobs |-> IF j = 1 THEN "typed" ELSE "unknown"]

NoFaults       == [k \in FaultKinds |-> 0]
OneWorkerCrash == [NoFaults EXCEPT !["crash"] = 1]
OneApiCrash    == [NoFaults EXCEPT !["apiCrash"] = 1]
OneOfEach      == [k \in FaultKinds |-> 1]

AllKinds == {"review", "release", "retry", "delete"}
QueueKinds == {"retry", "delete"}
ReviewKinds == {"review", "release"}

Symmetry == Permutations(Workers) \cup Permutations(Requests)
=============================================================================
