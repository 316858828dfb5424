------------------------- MODULE MCOperatorAccounts -------------------------
(* Instances of OperatorAccounts for TLC.                                  *)
EXTENDS OperatorAccounts, TLC

Symmetry == Permutations(Users) \cup Permutations(Passwords) \cup Permutations(Handlers)
=============================================================================
