-------------------------- MODULE MCBackupCatalog --------------------------
(* BackupCatalog on a small instance.                                      *)
EXTENDS BackupCatalog, TLC

CONSTANTS s1, q1, api, worker
=============================================================================
