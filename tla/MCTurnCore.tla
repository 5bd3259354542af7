------------------------------ MODULE MCTurnCore ------------------------------
(* Instances of TurnCore for TLC.                                           *)
EXTENDS TurnCore, TLC

CONSTANTS t1, t2, s1, s2

Symmetric == Permutations(Turn) \cup Permutations(Session)
==============================================================================
