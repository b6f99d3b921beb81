------------------------------ MODULE MCTargets ------------------------------
(* Constants of the model-checking run of Targets.                         *)
EXTENDS Targets, TLC

Symmetry == Permutations(Ids) \cup Permutations(Requests)
=============================================================================
