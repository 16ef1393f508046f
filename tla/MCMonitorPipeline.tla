------------------------- MODULE MCMonitorPipeline -------------------------
(* Small instances: checks c1 and c2, one tick, job loops l1 and l2, up to
   three slots for jobs. *)
EXTENDS MonitorPipeline

CONSTANTS c1, c2, t1, l1, l2, j1, j2, j3
=============================================================================
