--------------------------- MODULE OccurrenceLife ---------------------------
(***************************************************************************)
(* What a capacity reservation promises for each of its occurrences, and   *)
(* no more: placeholders stand before it is called active, they stand as   *)
(* long as it is, it is completed after its window and not earlier, and    *)
(* what is over is never active again.  Setting them up takes time: it     *)
(* begins only for what is planned and due, which may be cancelled before  *)
(* it ends.  Nothing is said of names of deployments, tasks, rounds,       *)
(* sessions, failed calls and crashes: CapacityReservation, which has all  *)
(* of these, implements this.                                              *)
(***************************************************************************)
EXTENDS Integers

CONSTANTS Occurrences, ActivateAt, EndAt

VARIABLES
    clock,
    occ,       \* occ[o]: the status of occurrence o
    starting,  \* the occurrences whose placeholders are being set up
    room       \* the occurrences whose placeholders stand

vars == <<clock, occ, starting, room>>

Init ==
    /\ clock = 0
    /\ occ = [o \in Occurrences |-> "none"]
    /\ starting = {}
    /\ room = {}

Tick ==
    /\ clock' = clock + 1
    /\ UNCHANGED <<occ, starting, room>>

-----------------------------------------------------------------------------
(* Administrators plan and cancel occurrences, those of a reservation      *)
(* together.  Placeholders of a cancelled occurrence stay for a while.     *)

Plan ==
    \E O \in SUBSET Occurrences :
       /\ \A o \in O : occ[o] = "none"
       /\ occ' = [o \in Occurrences |-> IF o \in O THEN "pending" ELSE occ[o]]
       /\ UNCHANGED <<clock, starting, room>>

Cancel ==
    \E O \in SUBSET Occurrences :
       /\ \A o \in O : occ[o] \in {"pending", "active", "completed"}
       /\ occ' = [o \in Occurrences |-> IF o \in O THEN "gone" ELSE occ[o]]
       /\ UNCHANGED <<clock, starting, room>>

-----------------------------------------------------------------------------

(* Setting up begins for what is planned and due, and for nothing else; it *)
(* may be given up.                                                        *)
Start(o) ==
    /\ occ[o] = "pending"
    /\ ActivateAt[o] <= clock
    /\ starting' = starting \cup {o}
    /\ UNCHANGED <<clock, occ, room>>

GiveUp(o) ==
    /\ o \in starting
    /\ starting' = starting \ {o}
    /\ UNCHANGED <<clock, occ, room>>

(* Placeholders come to stand only when that had begun, for an occurrence  *)
(* that is still planned or was cancelled meanwhile.                       *)
SetUp(o) ==
    /\ o \in starting \ room
    /\ occ[o] \in {"pending", "gone"}
    /\ starting' = starting \ {o}
    /\ room' = room \cup {o}
    /\ UNCHANGED <<clock, occ>>

Activate(o) ==
    /\ occ[o] = "pending"
    /\ o \in room
    /\ occ' = [occ EXCEPT ![o] = "active"]
    /\ UNCHANGED <<clock, starting, room>>

(* The window is over.                                                     *)
Complete(o) ==
    /\ occ[o] = "active"
    /\ EndAt[o] < clock
    /\ occ' = [occ EXCEPT ![o] = "completed"]
    /\ UNCHANGED <<clock, starting, room>>

(* Placeholders are taken away from what is over, and from nothing else.   *)
TakeDown(o) ==
    /\ o \in room
    /\ occ[o] \in {"completed", "gone"}
    /\ room' = room \ {o}
    /\ UNCHANGED <<clock, occ, starting>>

-----------------------------------------------------------------------------

Next ==
    \/ Tick
    \/ Plan
    \/ Cancel
    \/ \E o \in Occurrences : \/ Start(o)
                              \/ GiveUp(o)
                              \/ SetUp(o)
                              \/ Activate(o)
                              \/ Complete(o)
                              \/ TakeDown(o)

Spec == Init /\ [][Next]_vars

-----------------------------------------------------------------------------

(* What follows for users.  An active occurrence has its placeholders;     *)
(* nothing is active, and nothing stands, before it is due; and it is      *)
(* completed only when its window is over.                                 *)
ServedInTime ==
    \A o \in Occurrences :
       /\ occ[o] = "active" => o \in room
       /\ occ[o] \in {"active", "completed"} \/ o \in room \cup starting
             => ActivateAt[o] <= clock
       /\ occ[o] = "completed" => EndAt[o] < clock
=============================================================================
