------------------------------- MODULE MCKeyLog -------------------------------
(* Model-checking instance of KeyLog: interchangeable keys.               *)
EXTENDS KeyLog, TLC

KidSymmetry == Permutations(Kids)
===============================================================================
