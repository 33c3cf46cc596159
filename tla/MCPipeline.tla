----------------------------- MODULE MCPipeline -----------------------------
(* A new project, its workers and the requests that reach it. *)
EXTENDS Pipeline, TLC

Symmetric == Permutations(Request) \cup Permutations(Worker)
=============================================================================
