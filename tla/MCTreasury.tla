----------------------------- MODULE MCTreasury -----------------------------
(* Two tasks of one process and one of another; two purchases that the      *)
(* treasury cannot both afford above its floor, a transfer, and a move.     *)
EXTENDS Treasury

CONSTANTS t1, t2, t3, p1, p2

MCProcOf == [t \in Tasks |-> IF t = t3 THEN p2 ELSE p1]
MCPlan == [j \in Jobs |->
             CASE j = "buy1"  -> [kind |-> "buy", amount |-> 2]
               [] j = "buy2"  -> [kind |-> "buy", amount |-> 3]
               [] j = "fund"  -> [kind |-> "fund", amount |-> 1]
               [] OTHER       -> [kind |-> "move", amount |-> 0]]
=============================================================================
