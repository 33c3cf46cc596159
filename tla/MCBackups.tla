----------------------------- MODULE MCBackups -----------------------------
(* One worker and the command, with and without a target for copies. *)
EXTENDS Backups

CONSTANT w1

Tasks == {w1} \X {"daily", "requested"}
=============================================================================
