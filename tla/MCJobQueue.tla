----------------------------- MODULE MCJobQueue ------------------------------
(* TLC instances of JobQueue. *)
EXTENDS JobQueue, TLC

TokenSymmetry == Permutations(Tokens)
==============================================================================
