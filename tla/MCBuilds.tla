------------------------------ MODULE MCBuilds ------------------------------
(* Two builds of one environment, two requests at a time.                  *)
EXTENDS Builds, TLC
CONSTANTS q1, q2

DoesDef == (q1 :> {"start", "cancel"}) @@ (q2 :> {"start", "get"})
=============================================================================
