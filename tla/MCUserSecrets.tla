---------------------------- MODULE MCUserSecrets ---------------------------
(* Three secrets of one user, rotated one by one.                          *)
EXTENDS UserSecrets, TLC
CONSTANTS q1, q2
=============================================================================
