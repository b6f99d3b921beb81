------------------------------ MODULE MCIntake ------------------------------
(* Constants of the model-checking runs of Intake.                         *)
EXTENDS Intake, TLC

CONSTANTS good, bad, u1, u2, u3

NoFault == [k \in FaultNames |-> 0]
StoreError == [NoFault EXCEPT !["store"] = 1]
AllButScanner == [[k \in FaultNames |-> 1] EXCEPT !["scanner"] = 0]
StoreAndScanner == [StoreError EXCEPT !["scanner"] = 1]

Symmetry == Permutations(Uploads)
=============================================================================
