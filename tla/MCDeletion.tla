----------------------------- MODULE MCDeletion ------------------------------
(* TLC instances of Deletion. *)
EXTENDS Deletion, TLC

TokenSymmetry == Permutations(Tokens)
==============================================================================
