----------------------- MODULE MCCapacityReservation -----------------------
(* Two reservations whose windows overlap.  m1 and m2, of the morning,     *)
(* share a deployment name, m3 of the evening has one of its own; the      *)
(* morning is scaled down, the session fits the evening.                   *)
EXTENDS CapacityReservation, TLC
CONSTANTS morning, evening, m1, m2, m3, nm, n3, s1, tpl, cls, big

ResOfDef == (m1 :> morning) @@ (m2 :> morning) @@ (m3 :> evening)
NameOfDef == (m1 :> nm) @@ (m2 :> nm) @@ (m3 :> n3)
ActivateAtDef == (m1 :> 0) @@ (m2 :> 1) @@ (m3 :> 1)
StartAtDef == (m1 :> 0) @@ (m2 :> 1) @@ (m3 :> 1)
EndAtDef == (m1 :> 2) @@ (m2 :> 2) @@ (m3 :> 2)
CountDef == [r \in {morning, evening} |-> 1]
BehaviourDef == (morning :> "reduce") @@ (evening :> "none")
TemplateDef == (evening :> {tpl}) @@ (morning :> {})
SessionTemplateDef == s1 :> {tpl}
ClassOfDef == (morning :> big) @@ (evening :> cls) @@ (s1 :> cls)
=============================================================================
