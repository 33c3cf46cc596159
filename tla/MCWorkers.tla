----------------------------- MODULE MCWorkers -----------------------------
(* One worker process, two deployments, operations that overlap. *)
EXTENDS Workers, TLC
=============================================================================
