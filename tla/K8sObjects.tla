----------------------------- MODULE K8sObjects -----------------------------
(* The data of the cache of Kubernetes objects: what is in a cluster, and  *)
(* what a row of k8s_objects holds.                                        *)
EXTENDS Naturals

(* The version of an object grows with every change, also when its name is *)
(* used again.                                                             *)
Objs == [live : BOOLEAN, ver : Nat]

(* "draft": the manifest an API process has yet to send to the cluster.    *)
Entry == [kind : {"none", "draft", "real"}, ver : Nat]
NoEntry == [kind |-> "none", ver |-> 0]
Draft == [kind |-> "draft", ver |-> 0]
Real(v) == [kind |-> "real", ver |-> v]

(* What the cache should say of object o of cluster K.                     *)
Truth(K, o) == IF K[o].live THEN Real(K[o].ver) ELSE NoEntry
=============================================================================
