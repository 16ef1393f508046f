--------------------------- MODULE MCFileStorage ---------------------------
(* One host, up to two plans, two or three uploads, the cleanups of the API
   and of the worker. *)
EXTENDS FileStorage, TLC

CONSTANTS h1, p1, p2, k1, k2, k3, r1, r2, r3, api, worker
=============================================================================
