------------------------- MODULE MCHealthRecompute -------------------------
(* Small instances: sites s1 and s2, job loops w1 and w2. *)
EXTENDS HealthRecompute, TLC

CONSTANTS s1, s2, w1, w2
=============================================================================
