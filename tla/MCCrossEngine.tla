---------------------------- MODULE MCCrossEngine ----------------------------
(* Instance of CrossEngine for TLC: column values are interchangeable.     *)
EXTENDS CrossEngine, TLC

ValueSymmetry == Permutations(Values)
=============================================================================
