------------------------- MODULE MCMigrationAttempt -------------------------
(* MigrationAttempt on a small instance: MCMigrationAttempt.cfg.           *)
EXTENDS MigrationAttempt
=============================================================================
