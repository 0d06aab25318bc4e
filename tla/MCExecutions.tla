---------------------------- MODULE MCExecutions ----------------------------
(* Executions on a small instance: two watches of one execution.           *)
EXTENDS Executions, TLC

CONSTANTS e1, w1, w2

OneTarget == (w1 :> e1) @@ (w2 :> e1)
=============================================================================
