------------------------------- MODULE MCUsers -------------------------------
(* Constants of the model-checking run of Users.                           *)
EXTENDS Users, TLC

Symmetry ==
  Permutations(Names) \cup Permutations(Passwords) \cup Permutations(Tokens)
    \cup Permutations(Requests)
=============================================================================
