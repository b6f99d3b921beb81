----------------------------- MODULE MCConnectors -----------------------------
(* Constants of the model-checking run of Connectors.                      *)
EXTENDS Connectors, TLC

(* A date that has passed, a wait longer than the backoff, one that is too *)
(* long.                                                                   *)
MCWaits == {-1, 2, 4}

Symmetry == Permutations(Jobs) \cup Permutations(Workers) \cup Permutations(Suffixes)
=============================================================================
