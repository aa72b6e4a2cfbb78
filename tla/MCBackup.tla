------------------------------- MODULE MCBackup -------------------------------
(* Bounds for checking Backup with TLC: the sets in the .cfg.                 *)
EXTENDS Backup
=============================================================================
