--------------------------- MODULE MCOrderExecution ---------------------------
(* Instances of OrderExecution for TLC.                                     *)
EXTENDS OrderExecution, TLC

CONSTANTS o1, o2, p1, p2

Symmetric == Permutations(Order) \cup Permutations(Pass)
===============================================================================
