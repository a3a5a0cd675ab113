-------------------------- MODULE MCReconciliation -------------------------
(* Two agents; the first has one row, the second all others.                 *)
EXTENDS Reconciliation

CONSTANTS r1, r2, r3, g1, g2

MCAgentOf == [r \in Row |-> IF r = r1 THEN g1 ELSE g2]
=============================================================================
