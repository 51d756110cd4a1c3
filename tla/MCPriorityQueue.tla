--------------------------- MODULE MCPriorityQueue ---------------------------
(* Instances of PriorityQueue for TLC: four tasks, two with one ID.  *)
EXTENDS PriorityQueue, TLC

CONSTANTS t1, t2, t3, t4

MCIdOf == (t1 :> "a") @@ (t2 :> "b") @@ (t3 :> "c") @@ (t4 :> "a")

MCAsked == {-1, 1, 3}
===============================================================================
