--------------------------- MODULE MCBracketOrders ---------------------------
(* Instances of BracketOrders for TLC: a long bracket, whose take profit    *)
(* triggers above and whose stop loss triggers below the entry.             *)
EXTENDS BracketOrders

CONSTANTS takeProfit, stopLoss, p1, p2

Prices == 1 .. 2
Stops  == [l \in Leg |-> IF l \in Above THEN 2 ELSE 1]
=============================================================================
