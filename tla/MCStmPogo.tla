------------------------------ MODULE MCStmPogo ------------------------------
(* stm32-pogo on small instances, bounded by the edges of the conn line.   *)
EXTENDS StmPogo
=============================================================================
