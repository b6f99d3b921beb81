------------------------------ MODULE MCAudit ------------------------------
(* Constants of the model-checking runs of AuditChain.                     *)
EXTENDS AuditChain

CONSTANTS t1, t2

AllEvents == 1..3
OldEvents == {1}
=============================================================================
