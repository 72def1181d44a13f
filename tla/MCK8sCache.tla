---------------------------- MODULE MCK8sCache -----------------------------
(* Two objects of one cluster.                                             *)
EXTENDS K8sCache, TLC
CONSTANTS a, b, q1, q2
=============================================================================
