----------------------------- MODULE Lifecycle -----------------------------
(***************************************************************************)
(* What a reader of a project's history may rely on, and nothing about how *)
(* it comes about: each deployment is claimed at most once, is never again *)
(* in flight once it left it, and is ready only with an image that was     *)
(* built.  Among the three ends the record may still be corrected, which   *)
(* the code does: a promotion that raises fails a ready deployment, and a  *)
(* worker thought dead may finish after all.                               *)
(***************************************************************************)
EXTENDS FiniteSets

CONSTANT Deployment

VARIABLES
    state,  \* deployments.status, "none" before the row exists
    built   \* the deployment has an image

vars == <<state, built>>

Over == {"ready", "failed", "cancelled"}

Edges == {<<"none", "queued">>,
          <<"queued", "building">>, <<"queued", "cancelled">>,
          <<"building", "deploying">>,
          <<"building", "failed">>, <<"building", "cancelled">>}
         \cup ({"deploying"} \X Over) \cup (Over \X Over)

Init == /\ state = [d \in Deployment |-> "none"]
        /\ built = [d \in Deployment |-> FALSE]

Stays(d) == state'[d] = state[d] /\ built'[d] = built[d]

Moves(d) ==
    /\ <<state[d], state'[d]>> \in Edges
    /\ built'[d] = (built[d] \/ state'[d] = "deploying")
    /\ state'[d] = "ready" => built[d]

\* One statement may move several deployments.
Next == /\ \A d \in Deployment : Stays(d) \/ Moves(d)
        /\ DOMAIN state' = Deployment
        /\ DOMAIN built' = Deployment

Spec == Init /\ [][Next]_vars
=============================================================================
