---------------------------- MODULE MCPromotion ----------------------------
(* Two requests and a worker that starts beside them, over a project of three
   ready deployments. *)
EXTENDS Promotion, TLC

Symmetric == Permutations(Request)
=============================================================================
