-------------------------- MODULE MCConfigReplica ---------------------------
(* Small instance of ConfigReplica: two rows, pages of one row and batches  *)
(* of two, a table written to before, two starts of the process.            *)
EXTENDS ConfigReplica
=============================================================================
