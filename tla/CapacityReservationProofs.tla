--------------------- MODULE CapacityReservationProofs ---------------------
(***************************************************************************)
(* Proofs about CapacityReservation for any reservations, windows, names,  *)
(* and bounds.                                                             *)
(***************************************************************************)
EXTENDS CapacityReservation, FiniteSetTheorems, TLAPS

ActType == {a \in [pc : {"idle", "look", "create", "update"},
                   due : SUBSET Occurrences, cur : Occurrences \cup {NoOcc}] :
              a.pc \in {"create", "update"} => a.cur \in Occurrences}
MonType == [pc : {"idle", "expire", "look", "delete", "scale", "patch"},
            now : Nat, expired : SUBSET Occurrences,
            still : SUBSET Occurrences, cur : Occurrences \cup {NoOcc},
            target : [Occurrences -> Int]]
ClnType == [pc : {"idle", "check", "delete"},
            listed : [Names -> Occurrences \cup {NoOcc}],
            orphans : SUBSET Names]
DepType == [occ : Occurrences \cup {NoOcc}, replicas : Int, dying : BOOLEAN]

-----------------------------------------------------------------------------
(* What the helpers return.                                                *)

LEMMA IdleTypes == ActIdle \in ActType /\ MonIdle \in MonType /\ ClnIdle \in ClnType
BY DEF ActIdle, MonIdle, ClnIdle, ActType, MonType, ClnType

LEMMA DepTypes ==
  /\ NoDep \in DepType
  /\ \A o \in Occurrences : Placeholder(o) \in DepType
BY WindowsAssumption DEF NoDep, Placeholder, DepType

LEMMA ActNextEffect ==
  ASSUME NEW D \in SUBSET Occurrences, ActNext(D)
  PROVE  act' \in ActType /\ act'.due = D /\ act'.pc \in {"idle", "look"}
BY DEF ActNext, ActIdle, ActType

LEMMA MonNextEffect ==
  ASSUME mon \in MonType, NEW X \in SUBSET Occurrences,
         NEW S \in SUBSET Occurrences, MonNext(X, S)
  PROVE  mon' \in MonType /\ mon'.expired = X /\ mon'.pc \notin {"look", "delete"}
<1>1. CASE X # {}
  <2>1. mon' = [mon EXCEPT !.pc = "expire", !.expired = X, !.cur = NoOcc]
    BY <1>1 DEF MonNext
  <2>2. QED
    BY <2>1 DEF MonType
<1>2. CASE X = {} /\ S # {}
  <2>1. mon' = [mon EXCEPT !.pc = "scale", !.expired = {}, !.cur = NoOcc]
    BY <1>2 DEF MonNext
  <2>2. QED
    BY <1>2, <2>1 DEF MonType
<1>3. CASE X = {} /\ S = {}
  <2>1. mon' = MonIdle
    BY <1>3 DEF MonNext
  <2>2. QED
    BY <1>3, <2>1, IdleTypes DEF MonIdle
<1>4. QED
  BY <1>1, <1>2, <1>3

LEMMA RoundedType ==
  ASSUME NEW a \in Int, NEW b \in Nat \ {0} PROVE Rounded(a, b) \in Int
<1>1. a \div b \in Int
  OBVIOUS
<1>2. QED
  BY <1>1 DEF Rounded

LEMMA TargetType ==
  ASSUME NEW o \in Occurrences, NEW n \in Nat, NEW now \in Nat
  PROVE  TargetReplicas(o, n, now) \in Int
<1> DEFINE r == ResOf[o]
<1>1. r \in Reservations /\ Count[r] \in Nat
  BY WindowsAssumption
<1>2. Monus(Count[r], n) \in Int
  BY <1>1 DEF Monus
<1>3. EndAt[o] - now \in Int /\ EndAt[o] - StartAt[o] \in Nat \ {0}
  BY WindowsAssumption
<1>4. Monus(Count[r], n) * (EndAt[o] - now) \in Int
  <2> HIDE DEF r
  <2>1. \A x, y \in Int : x * y \in Int
    OBVIOUS
  <2>2. QED
    BY <1>2, <1>3, <2>1
<1>5. Rounded(Monus(Count[r], n) * (EndAt[o] - now), EndAt[o] - StartAt[o]) \in Int
  BY <1>3, <1>4, RoundedType
<1>6. QED
  BY <1>1, <1>2, <1>5 DEF TargetReplicas

(* Sessions are counted in natural numbers.                                *)
LEMMA SessionCountsType ==
  ASSUME NEW S \in SUBSET Sessions, NEW P \in SUBSET Occurrences,
         NEW n \in SessionCounts(S, P)
  PROVE  n \in [Occurrences -> Nat]
<1> DEFINE matched == {s \in S : Cardinality(ByTemplate(s, P)) = 1}
           byClass == {s \in S \ matched : ByClass(s, P) # {}}
           At(o) == {s \in matched : o \in ByTemplate(s, P)}
           Of(pick, o) == {s \in byClass : pick[s] = o}
<1>1. \A T \in SUBSET Sessions : Cardinality(T) \in Nat
  BY FS_Subset, FS_CardinalityType, WindowsAssumption
<1>2. PICK pick \in {f \in [byClass -> P] : \A s \in byClass : f[s] \in ByClass(s, P)} :
         n = [o \in Occurrences |-> Cardinality(At(o)) + Cardinality(Of(pick, o))]
  BY DEF SessionCounts
<1>3. ASSUME NEW o \in Occurrences
      PROVE  Cardinality(At(o)) + Cardinality(Of(pick, o)) \in Nat
  <2>1. At(o) \in SUBSET Sessions /\ Of(pick, o) \in SUBSET Sessions
    OBVIOUS
  <2>2. Cardinality(At(o)) \in Nat /\ Cardinality(Of(pick, o)) \in Nat
    BY <1>1, <2>1
  <2>3. QED
    BY <2>2
<1>4. QED
  BY <1>2, <1>3

-----------------------------------------------------------------------------
(* Types.                                                                  *)

LEMMA TypeInit == Init => TypeOK
BY IdleTypes, DepTypes DEF Init, TypeOK, ActType, MonType, ClnType, DepType

LEMMA TypeStep == TypeOK /\ [Next]_vars => TypeOK'
<1> SUFFICES ASSUME TypeOK, [Next]_vars PROVE TypeOK'
  OBVIOUS
<1>t. /\ act \in ActType /\ mon \in MonType /\ cln \in ClnType
      /\ dep \in [Names -> DepType]
      /\ clock \in Nat /\ faults \in Nat
  BY DEF TypeOK, ActType, MonType, ClnType, DepType
<1>c. act.pc \in {"create", "update"} => act.cur \in Occurrences
  BY DEF TypeOK
<1>o. \A o \in Occurrences : ResOf[o] \in Reservations /\ NameOf[o] \in Names
  BY WindowsAssumption
<1>q. ASSUME clock' \in Nat, faults' \in Nat,
             res' \in [Reservations -> {"none", "live", "gone"}],
             occ' \in [Occurrences -> {"none", "pending", "active", "completed",
                                       "gone"}],
             act' \in ActType, mon' \in MonType, cln' \in ClnType,
             dep' \in [Names -> DepType]
      PROVE  TypeOK'
  BY <1>q DEF TypeOK, ActType, MonType, ClnType, DepType
<1>d. ASSUME NEW n, Deleted(n) PROVE dep' \in [Names -> DepType]
  <2>1. CASE n \in Names
    BY <1>t, <1>d, <2>1 DEF Deleted, DepType
  <2>2. CASE n \notin Names
    BY <1>t, <1>d, <2>2 DEF Deleted
  <2>3. QED
    BY <2>1, <2>2
<1>1. CASE Api
  BY <1>1 DEF Api, CreateReservation, CreateOccurrences, DeleteReservation, TypeOK
<1>2. CASE Tick
  BY <1>2 DEF Tick, TypeOK
<1>3. ASSUME NEW n \in Names, Vanish(n) PROVE TypeOK'
  <2>1. dep' \in [Names -> DepType]
    BY <1>t, <1>3, DepTypes DEF Vanish
  <2>2. QED
    BY <1>q, <1>t, <1>3, <2>1 DEF Vanish, TypeOK
<1>4. CASE Activation
  <2>1. CASE ActivateRead
    <3>1. act' \in ActType
      BY <2>1 DEF ActivateRead, ActType
    <3>2. QED
      BY <1>q, <1>t, <2>1, <3>1 DEF ActivateRead, TypeOK
  <2>2. ASSUME NEW o \in Occurrences, ActivateLook(o) PROVE TypeOK'
    <3>1. act.due \ {o} \in SUBSET Occurrences
      BY <1>t DEF ActType
    <3>2. [act EXCEPT !.pc = "create", !.cur = o] \in ActType
      BY <1>t DEF ActType
    <3>3. act' \in ActType
      BY <2>2, <3>1, <3>2, ActNextEffect DEF ActivateLook
    <3>4. QED
      BY <1>q, <1>t, <2>2, <3>3 DEF ActivateLook, TypeOK
  <2>5. CASE ActivateCreate
    <3>1. dep' \in [Names -> DepType]
      <4>1. dep' = dep \/ dep' = [dep EXCEPT ![NameOf[act.cur]] = Placeholder(act.cur)]
        BY <2>5 DEF ActivateCreate
      <4>2. CASE dep' # dep
        BY <1>c, <1>t, <2>5, <4>1, <4>2, DepTypes DEF ActivateCreate
      <4>3. QED
        BY <1>t, <4>2
    <3>2. [act EXCEPT !.pc = "update"] \in ActType
      BY <1>c, <1>t, <2>5 DEF ActType, ActivateCreate
    <3>3. act' \in ActType
      BY <2>5, <3>2, IdleTypes DEF ActivateCreate
    <3>4. QED
      BY <1>q, <1>t, <2>5, <3>1, <3>3 DEF ActivateCreate, TypeOK
  <2>3. CASE ActivateUpdate
    <3>1. act.due \ {act.cur} \in SUBSET Occurrences
      BY <1>t DEF ActType
    <3>2. act' \in ActType
      BY <2>3, <3>1, ActNextEffect, IdleTypes DEF ActivateUpdate
    <3>3. occ' \in [Occurrences -> {"none", "pending", "active", "completed", "gone"}]
      BY <2>3 DEF ActivateUpdate, TypeOK
    <3>4. QED
      BY <1>q, <1>t, <2>3, <3>2, <3>3 DEF ActivateUpdate, TypeOK
  <2>4. QED
    BY <1>4, <2>1, <2>2, <2>3, <2>5 DEF Activation
<1>5. CASE Monitoring
  <2>1. CASE MonitorRead
    <3> DEFINE active == {o \in Occurrences : occ[o] = "active"}
               X == {o \in active : EndAt[o] < clock}
    <3>1. X \in SUBSET Occurrences /\ active \ X \in SUBSET Occurrences
      OBVIOUS
    <3>2. mon' = [MonIdle EXCEPT !.pc = IF X # {} THEN "expire" ELSE "scale",
                    !.now = clock, !.expired = X, !.still = active \ X]
      BY <2>1 DEF MonitorRead
    <3>3. mon' \in MonType
      <4> HIDE DEF X, active
      <4>1. QED
        BY <1>t, <3>1, <3>2, IdleTypes DEF MonType
    <3>4. QED
      BY <1>q, <1>t, <2>1, <3>3 DEF MonitorRead, TypeOK
  <2>2. ASSUME NEW o \in Occurrences, MonitorComplete(o) PROVE TypeOK'
    <3>1. [mon EXCEPT !.pc = "look", !.cur = o] \in MonType
      BY <1>t DEF MonType
    <3>2. mon' \in MonType
      BY <2>2, <3>1, IdleTypes DEF MonitorComplete
    <3>3. occ' \in [Occurrences -> {"none", "pending", "active", "completed", "gone"}]
      BY <2>2 DEF MonitorComplete, TypeOK
    <3>4. QED
      BY <1>q, <1>t, <2>2, <3>2, <3>3 DEF MonitorComplete, TypeOK
  <2>7. CASE MonitorLook
    <3>1. mon.expired \ {mon.cur} \in SUBSET Occurrences /\ mon.still \in SUBSET Occurrences
      BY <1>t DEF MonType
    <3>2. [mon EXCEPT !.pc = "delete"] \in MonType
      BY <1>t DEF MonType
    <3>3. mon' \in MonType
      BY <1>t, <2>7, <3>1, <3>2, MonNextEffect DEF MonitorLook
    <3>4. QED
      BY <1>q, <1>t, <2>7, <3>3 DEF MonitorLook, TypeOK
  <2>3. CASE MonitorDelete
    <3>1. mon.expired \ {mon.cur} \in SUBSET Occurrences /\ mon.still \in SUBSET Occurrences
      BY <1>t DEF MonType
    <3>2. mon' \in MonType
      BY <1>t, <2>3, <3>1, MonNextEffect DEF MonitorDelete
    <3>3. dep' \in [Names -> DepType]
      BY <1>d, <1>t, <2>3 DEF MonitorDelete
    <3>4. QED
      BY <1>q, <1>t, <2>3, <3>2, <3>3 DEF MonitorDelete, TypeOK
  <2>4. CASE MonitorScale
    <3> DEFINE P == {o \in mon.still : /\ res[ResOf[o]] = "live"
                                       /\ Behaviour[ResOf[o]] # "none"}
    <3>1. P \in SUBSET Occurrences
      BY <1>t DEF MonType
    <3>2. PICK S \in SUBSET Sessions : \E n \in SessionCounts(S, P) :
             mon' = IF P = {} THEN MonIdle
                    ELSE [mon EXCEPT !.pc = "patch", !.still = P,
                            !.target = [o \in Occurrences |->
                               IF o \in P THEN TargetReplicas(o, n[o], mon.now)
                               ELSE 0]]
      BY <2>4 DEF MonitorScale
    <3>3. PICK n \in SessionCounts(S, P) :
             mon' = IF P = {} THEN MonIdle
                    ELSE [mon EXCEPT !.pc = "patch", !.still = P,
                            !.target = [o \in Occurrences |->
                               IF o \in P THEN TargetReplicas(o, n[o], mon.now)
                               ELSE 0]]
      BY <3>2
    <3> HIDE DEF P
    <3>4. n \in [Occurrences -> Nat]
      BY <3>1, SessionCountsType
    <3>5. [o \in Occurrences |-> IF o \in P THEN TargetReplicas(o, n[o], mon.now)
                                 ELSE 0] \in [Occurrences -> Int]
      BY <1>t, <3>4, TargetType DEF MonType
    <3>6. mon' \in MonType
      BY <1>t, <3>1, <3>3, <3>5, IdleTypes DEF MonType
    <3>7. QED
      BY <1>q, <1>t, <2>4, <3>6 DEF MonitorScale, TypeOK
  <2>5. ASSUME NEW o \in Occurrences, MonitorPatch(o) PROVE TypeOK'
    <3>1. [mon.target EXCEPT ![o] = 0] \in [Occurrences -> Int]
      BY <1>t DEF MonType
    <3>2. mon' \in MonType
      <4>1. \/ mon' = MonIdle
            \/ mon' = [mon EXCEPT !.still = mon.still \ {o},
                                  !.target = [mon.target EXCEPT ![o] = 0]]
        BY <2>5 DEF MonitorPatch
      <4>2. [mon EXCEPT !.still = mon.still \ {o},
                        !.target = [mon.target EXCEPT ![o] = 0]] \in MonType
        BY <1>t, <3>1 DEF MonType
      <4>3. QED
        BY <4>1, <4>2, IdleTypes
    <3>3. mon.target[o] \in Int
      BY <1>t DEF MonType
    <3>4. dep' \in [Names -> DepType]
      BY <1>o, <1>t, <2>5, <3>3 DEF MonitorPatch, DepType
    <3>5. QED
      BY <1>q, <1>t, <2>5, <3>2, <3>4 DEF MonitorPatch, TypeOK
  <2>6. QED
    BY <1>5, <2>1, <2>2, <2>3, <2>4, <2>5, <2>7 DEF Monitoring
<1>6. CASE Cleanup
  <2>1. CASE CleanupList
    <3>1. [n \in Names |-> dep[n].occ] \in [Names -> Occurrences \cup {NoOcc}]
      BY <1>t DEF DepType
    <3>2. cln' \in ClnType
      BY <1>t, <2>1, <3>1 DEF CleanupList, ClnType
    <3>3. QED
      BY <1>q, <1>t, <2>1, <3>2 DEF CleanupList, TypeOK
  <2>2. CASE CleanupCheck
    <3> DEFINE O == {n \in Names : cln.listed[n] # NoOcc /\ ~HasRow(cln.listed[n])}
    <3>1. O \in SUBSET Names
      OBVIOUS
    <3>2. cln' = IF O = {} THEN ClnIdle ELSE [ClnIdle EXCEPT !.pc = "delete", !.orphans = O]
      BY <2>2 DEF CleanupCheck
    <3> HIDE DEF O
    <3>3. cln' \in ClnType
      BY <1>t, <3>1, <3>2, IdleTypes DEF ClnType
    <3>4. QED
      BY <1>q, <1>t, <2>2, <3>3 DEF CleanupCheck, TypeOK
  <2>3. ASSUME NEW n \in Names, CleanupDelete(n) PROVE TypeOK'
    <3>1. dep' \in [Names -> DepType]
      BY <1>d, <2>3 DEF CleanupDelete
    <3>2. cln' \in ClnType
      BY <1>t, <2>3, IdleTypes DEF CleanupDelete, ClnType
    <3>3. QED
      BY <1>q, <1>t, <2>3, <3>1, <3>2 DEF CleanupDelete, TypeOK
  <2>4. QED
    BY <1>6, <2>1, <2>2, <2>3 DEF Cleanup
<1>7. CASE Fault
  <2>1. faults' \in Nat
    BY <1>7, <1>t DEF Fault, ActivateFails, MonitorFails, CleanupFails, Crash
  <2>2. CASE ActivateFails
    <3>1. dep' \in [Names -> DepType]
      <4>1. dep' = dep \/ /\ act.pc = "create"
                          /\ dep' = [dep EXCEPT ![NameOf[act.cur]] = Placeholder(act.cur)]
        BY <2>2 DEF ActivateFails
      <4>2. QED
        BY <1>c, <1>t, <4>1, DepTypes
    <3>2. QED
      BY <1>q, <1>t, <2>1, <2>2, <3>1, IdleTypes DEF ActivateFails, TypeOK
  <2>3. CASE MonitorFails
    <3>1. mon.expired \ {mon.cur} \in SUBSET Occurrences /\ mon.still \in SUBSET Occurrences
      BY <1>t DEF MonType
    <3>2. mon' \in MonType
      BY <1>t, <2>3, <3>1, MonNextEffect, IdleTypes DEF MonitorFails
    <3>3. QED
      BY <1>q, <1>t, <2>1, <2>3, <3>2 DEF MonitorFails, TypeOK
  <2>4. CASE CleanupFails \/ Crash
    BY <1>q, <1>t, <2>1, <2>4, IdleTypes DEF CleanupFails, Crash, TypeOK
  <2>5. QED
    BY <1>7, <2>2, <2>3, <2>4 DEF Fault
<1>8. CASE UNCHANGED vars
  BY <1>8 DEF vars, TypeOK
<1>9. QED
  BY <1>1, <1>2, <1>3, <1>4, <1>5, <1>6, <1>7, <1>8 DEF Next

(* Every variable of the three tasks and the cluster keeps its type.       *)
THEOREM CapacityTypeCorrect == Spec => []TypeOK
BY TypeInit, TypeStep, PTL DEF Spec

-----------------------------------------------------------------------------
(* The invariant.  It says what a task may still assume about what it read *)
(* before: who has been deleted stays deleted, an occurrence in hand has   *)
(* not moved on, and a name that is to be cleaned up, if one reservation   *)
(* only has it, is of a reservation that is gone, with all the occurrences *)
(* that share the name.                                                    *)

Gone(o) == res[ResOf[o]] = "gone"

RowsGo ==
    \A o \in Occurrences : /\ occ[o] = "gone" => Gone(o)
                           /\ Gone(o) => occ[o] \in {"none", "gone"}
                           /\ res[ResOf[o]] = "none" => occ[o] = "none"

(* A deployment has the name of an occurrence that once had a row.         *)
NamesMatch ==
    \A n \in Names : Exists(n) => /\ NameOf[dep[n].occ] = n
                                  /\ occ[dep[n].occ] # "none"

DuePending ==
    /\ \A o \in act.due : occ[o] \in {"pending", "gone"}
    /\ act.pc \in {"create", "update"} => act.cur \in act.due
    /\ act.pc = "update" /\ act.cur \in Owned /\ occ[act.cur] = "pending"
          => Stands(act.cur)

ExpiredActive ==
    /\ mon.pc = "expire" => \A o \in mon.expired : occ[o] \in {"active", "gone"}
    /\ mon.pc \in {"look", "delete"} =>
          /\ mon.cur \in Occurrences
          /\ occ[mon.cur] \in {"completed", "gone"}
          /\ mon.cur \in Owned /\ occ[mon.cur] = "completed" => Stands(mon.cur)
          /\ \A o \in mon.expired \ {mon.cur} : occ[o] \in {"active", "gone"}

ListedMatch ==
    cln.pc = "check" =>
       \A n \in Names : cln.listed[n] # NoOcc => /\ NameOf[cln.listed[n]] = n
                                                 /\ occ[cln.listed[n]] # "none"

OrphansGone ==
    cln.pc = "delete" =>
       \A o \in Owned : NameOf[o] \in cln.orphans => Gone(o)

TaskInv ==
    /\ TypeOK
    /\ RowsGo
    /\ NamesMatch
    /\ DuePending
    /\ ExpiredActive
    /\ ListedMatch
    /\ OrphansGone
    /\ ActiveHasDeployment
    /\ LeakNeedsFault

LEMMA TaskInvInit == Init => TaskInv
<1> SUFFICES ASSUME Init PROVE TaskInv
  OBVIOUS
<1>1. TypeOK
  BY TypeInit
<1>2. RowsGo /\ NamesMatch /\ ActiveHasDeployment /\ LeakNeedsFault
  <2>1. \A n \in Names : ~Exists(n)
    BY DEF Init, NoDep, Exists
  <2>2. \A o \in Occurrences : res[ResOf[o]] = "none" /\ occ[o] = "none"
    BY WindowsAssumption DEF Init
  <2>3. Owned \subseteq Occurrences
    BY DEF Owned
  <2>4. QED
    BY <2>1, <2>2, <2>3 DEF RowsGo, Gone, NamesMatch, ActiveHasDeployment, LeakNeedsFault
<1>3. DuePending /\ ExpiredActive /\ ListedMatch /\ OrphansGone
  BY DEF Init, ActIdle, MonIdle, ClnIdle, DuePending, ExpiredActive, ListedMatch,
         OrphansGone
<1>4. QED
  BY <1>1, <1>2, <1>3 DEF TaskInv

(* The types in the form in which the steps need them.                     *)
LEMMA Shapes ==
  ASSUME TypeOK
  PROVE  /\ act \in ActType /\ mon \in MonType /\ cln \in ClnType
         /\ dep \in [Names -> DepType]
         /\ \A n \in Names : dep[n].occ \in Occurrences \cup {NoOcc}
         /\ \A o \in Occurrences : ResOf[o] \in Reservations /\ NameOf[o] \in Names
         /\ act.due \subseteq Occurrences
         /\ mon.expired \subseteq Occurrences /\ mon.still \subseteq Occurrences
         /\ NoOcc \notin Occurrences
         /\ Owned \subseteq Occurrences
BY WindowsAssumption DEF TypeOK, ActType, MonType, ClnType, DepType, Owned

(* Who shares the name of an occurrence that no other reservation shares   *)
(* it with is of the same reservation, and has a name of that kind too.    *)
LEMMA OwnedNames ==
  ASSUME NEW o \in Owned, NEW p \in Occurrences, NameOf[p] = NameOf[o]
  PROVE  ResOf[p] = ResOf[o] /\ p \in Owned
BY DEF Owned, Own

-----------------------------------------------------------------------------
(* Steps of the API.                                                       *)

LEMMA ApiKeeps == TaskInv /\ Api => TaskInv'
<1> SUFFICES ASSUME TaskInv, NEW r \in Reservations,
                    CreateReservation(r) \/ CreateOccurrences(r) \/ DeleteReservation(r)
             PROVE  TaskInv'
  BY DEF Api
<1>1. TypeOK'
  BY TypeStep DEF TaskInv, Next, Api
<1>2. UNCHANGED <<dep, act, mon, cln, faults>>
  BY DEF CreateReservation, CreateOccurrences, DeleteReservation
<1>3. \A o \in Occurrences : ResOf[o] \in Reservations /\ NameOf[o] \in Names
  BY WindowsAssumption
<1>s. TypeOK /\ act.due \subseteq Occurrences /\ mon.expired \subseteq Occurrences
      /\ Owned \subseteq Occurrences
      /\ NoOcc \notin Occurrences
      /\ \A n \in Names : dep[n].occ \in Occurrences \cup {NoOcc}
  BY Shapes DEF TaskInv
(* Rows are created or deleted, reservations are not created again.        *)
<1>4. \A o \in Occurrences :
        /\ \/ occ'[o] = occ[o]
           \/ occ[o] = "none" /\ occ'[o] = "pending"
           \/ HasRow(o) /\ occ'[o] = "gone"
        /\ Gone(o) => Gone(o)'
        /\ occ'[o] = "gone" => occ[o] = "gone" \/ Gone(o)'
        /\ Gone(o)' => occ'[o] \in {"none", "gone"}
        /\ res'[ResOf[o]] = "none" => occ'[o] = "none"
  <2> SUFFICES ASSUME NEW o \in Occurrences
               PROVE  /\ \/ occ'[o] = occ[o]
                         \/ occ[o] = "none" /\ occ'[o] = "pending"
                         \/ HasRow(o) /\ occ'[o] = "gone"
                      /\ Gone(o) => Gone(o)'
                      /\ occ'[o] = "gone" => occ[o] = "gone" \/ Gone(o)'
                      /\ Gone(o)' => occ'[o] \in {"none", "gone"}
                      /\ res'[ResOf[o]] = "none" => occ'[o] = "none"
    OBVIOUS
  <2>0. /\ ResOf[o] \in Reservations
        /\ occ[o] \in {"none", "pending", "active", "completed", "gone"}
        /\ Gone(o) => occ[o] \in {"none", "gone"}
        /\ res[ResOf[o]] = "none" => occ[o] = "none"
        /\ res \in [Reservations -> {"none", "live", "gone"}]
    BY <1>3, <1>s DEF TypeOK, TaskInv, RowsGo
  <2>1. CASE CreateReservation(r)
    <3>1. res[r] = "none" /\ res' = [res EXCEPT ![r] = "live"] /\ occ' = occ
      BY <2>1 DEF CreateReservation
    <3>2. Gone(o)' <=> Gone(o)
      BY <2>0, <3>1 DEF Gone
    <3>3. QED
      BY <2>0, <3>1, <3>2 DEF Gone
  <2>2. CASE CreateOccurrences(r)
    <3>1. /\ res[r] = "live" /\ res' = res
          /\ occ'[o] = IF ResOf[o] = r THEN "pending" ELSE occ[o]
          /\ ResOf[o] = r => occ[o] = "none"
      BY <2>2 DEF CreateOccurrences
    <3>2. (Gone(o)' <=> Gone(o)) /\ (Gone(o) => ResOf[o] # r)
      BY <3>1 DEF Gone
    <3>3. QED
      BY <2>0, <3>1, <3>2 DEF Gone
  <2>3. CASE DeleteReservation(r)
    <3>1. /\ res[r] = "live" /\ res' = [res EXCEPT ![r] = "gone"]
          /\ occ'[o] = IF ResOf[o] = r /\ HasRow(o) THEN "gone" ELSE occ[o]
      BY <2>3 DEF DeleteReservation
    <3>2. (Gone(o) => Gone(o)') /\ (ResOf[o] = r => Gone(o)')
          /\ (ResOf[o] # r => (Gone(o)' <=> Gone(o)))
      BY <2>0, <3>1 DEF Gone
    <3>3. QED
      BY <2>0, <3>1, <3>2 DEF Gone, HasRow
  <2>4. QED
    BY <2>1, <2>2, <2>3
<1>5. RowsGo'
  BY <1>4 DEF TaskInv, RowsGo
<1>6. NamesMatch'
  BY <1>2, <1>4, <1>s DEF TaskInv, NamesMatch, Exists, HasRow
<1>7. DuePending'
  BY <1>2, <1>4, <1>s DEF TaskInv, DuePending, Stands, HasRow
<1>8. ExpiredActive'
  BY <1>2, <1>4, <1>s DEF TaskInv, ExpiredActive, Stands, HasRow
<1>9. ListedMatch'
  <2>1. \A n \in Names : cln.listed[n] \in Occurrences \cup {NoOcc}
    BY <1>s DEF TypeOK
  <2>2. QED
    BY <1>2, <1>4, <2>1 DEF TaskInv, ListedMatch, HasRow
<1>10. OrphansGone'
  BY <1>2, <1>4, <1>s DEF TaskInv, OrphansGone
<1>11. ActiveHasDeployment'
  BY <1>2, <1>4, <1>s DEF TaskInv, ActiveHasDeployment, Stands, HasRow
<1>12. LeakNeedsFault'
  BY <1>2, <1>4, <1>s DEF TaskInv, LeakNeedsFault, NamesMatch, Exists, HasRow
<1>13. QED
  BY <1>1, <1>5, <1>6, <1>7, <1>8, <1>9, <1>10, <1>11, <1>12 DEF TaskInv

-----------------------------------------------------------------------------
(* Steps that leave the rows alone.                                        *)

LEMMA RowsKept ==
  ASSUME TaskInv, UNCHANGED <<res, occ>>
  PROVE  RowsGo' /\ \A o \in Occurrences : Gone(o)' <=> Gone(o)
BY DEF TaskInv, RowsGo, Gone

LEMMA VanishKeeps == ASSUME TaskInv, NEW n \in Names, Vanish(n) PROVE TaskInv'
<1>1. TypeOK'
  BY TypeStep DEF TaskInv, Next
<1>2. UNCHANGED <<res, occ, act, mon, cln, faults>> /\ dep[n].dying
      /\ dep' = [dep EXCEPT ![n] = NoDep]
  BY DEF Vanish
<1>3. RowsGo' /\ \A o \in Occurrences : Gone(o)' <=> Gone(o)
  BY <1>2, RowsKept
<1>s. dep \in [Names -> DepType] /\ TypeOK /\ Owned \subseteq Occurrences
      /\ \A o \in Occurrences : NameOf[o] \in Names
      /\ act.due \subseteq Occurrences
  BY Shapes DEF TaskInv
<1>4. dep'[n].occ = NoOcc /\ \A m \in Names \ {n} : dep'[m] = dep[m]
  BY <1>2, <1>s DEF NoDep
(* What a task or a row counts on is not about to vanish.                  *)
<1>5. \A o \in Occurrences :
        Stands(o) => dep'[NameOf[o]].occ = o /\ ~dep'[NameOf[o]].dying
  BY <1>2, <1>4, <1>s DEF Stands
<1>6. NamesMatch'
  BY <1>2, <1>4 DEF TaskInv, NamesMatch, Exists
<1>7. DuePending'
  BY <1>2, <1>5, <1>s DEF TaskInv, DuePending, Stands
<1>8. ExpiredActive'
  BY <1>2, <1>5 DEF TaskInv, ExpiredActive, Stands
<1>9. ListedMatch' /\ OrphansGone'
  BY <1>2, <1>3, <1>s DEF TaskInv, ListedMatch, OrphansGone
<1>10. ActiveHasDeployment'
  BY <1>2, <1>5 DEF TaskInv, ActiveHasDeployment, Stands
<1>11. LeakNeedsFault'
  BY <1>2, <1>4 DEF TaskInv, LeakNeedsFault, Exists
<1>12. QED
  BY <1>1, <1>3, <1>6, <1>7, <1>8, <1>9, <1>10, <1>11 DEF TaskInv

(* Deleting the deployment of a name that nobody counts on.                *)
LEMMA DeletedKeeps ==
  ASSUME TaskInv, NEW n \in Names, Deleted(n), UNCHANGED <<res, occ, act, faults>>,
         \A o \in Owned :
            NameOf[o] = n => /\ occ[o] # "active"
                             /\ ~(act.pc = "update" /\ act.cur = o /\ occ[o] = "pending")
  PROVE  /\ RowsGo' /\ NamesMatch' /\ DuePending' /\ ActiveHasDeployment'
         /\ \A o \in Occurrences : NameOf[o] # n /\ Stands(o) => Stands(o)'
         /\ \A m \in Names \ {n} : dep'[m] = dep[m]
         /\ dep'[n].occ # NoOcc => dep'[n].dying
<1>s. dep \in [Names -> DepType] /\ TypeOK /\ Owned \subseteq Occurrences
      /\ (\A o \in Occurrences : NameOf[o] \in Names)
      /\ act.due \subseteq Occurrences
  BY Shapes DEF TaskInv
<1>1. \A m \in Names \ {n} : dep'[m] = dep[m]
  BY <1>s DEF Deleted
<1>2. dep'[n].occ = dep[n].occ /\ (Exists(n) => dep'[n].dying)
  BY <1>s DEF Deleted, DepType
<1>3. \A o \in Occurrences : NameOf[o] # n /\ Stands(o) => Stands(o)'
  BY <1>1, <1>s DEF Stands
<1>4. RowsGo'
  BY RowsKept
<1>5. NamesMatch'
  BY <1>1, <1>2 DEF TaskInv, NamesMatch, Exists
<1>6. DuePending'
  BY <1>3, <1>s DEF TaskInv, DuePending
<1>7. ActiveHasDeployment'
  BY <1>3, <1>s DEF TaskInv, ActiveHasDeployment, Stands
<1>8. QED
  BY <1>1, <1>2, <1>3, <1>4, <1>5, <1>6, <1>7 DEF Exists

-----------------------------------------------------------------------------
(* Steps of the cleanup.                                                   *)

LEMMA CleanupKeeps == TaskInv /\ Cleanup => TaskInv'
<1> SUFFICES ASSUME TaskInv, Cleanup PROVE TaskInv'
  OBVIOUS
<1>t. TypeOK'
  BY TypeStep DEF TaskInv, Next
<1>s. /\ dep \in [Names -> DepType] /\ cln \in ClnType
      /\ Owned \subseteq Occurrences
      /\ (\A o \in Occurrences : NameOf[o] \in Names)
      /\ \A n \in Names : dep[n].occ \in Occurrences \cup {NoOcc}
      /\ mon.expired \subseteq Occurrences
      /\ occ \in [Occurrences -> {"none", "pending", "active", "completed", "gone"}]
  BY Shapes DEF TaskInv, TypeOK
(* Only the cleanup itself is concerned.                                   *)
<1>k. ASSUME UNCHANGED <<res, occ, dep, act, mon, faults>>, ListedMatch', OrphansGone'
      PROVE  TaskInv'
  BY <1>k, <1>t, RowsKept
     DEF TaskInv, NamesMatch, Exists, DuePending, Stands, ExpiredActive,
         ActiveHasDeployment, LeakNeedsFault
<1>1. CASE CleanupList
  <2>1. cln'.pc = "check" /\ cln'.listed = [n \in Names |-> dep[n].occ]
    BY <1>1, <1>s DEF CleanupList, ClnType
  <2>2. ListedMatch'
    BY <1>1, <2>1 DEF CleanupList, TaskInv, ListedMatch, NamesMatch, Exists
  <2>3. OrphansGone'
    BY <2>1 DEF OrphansGone
  <2>4. QED
    BY <1>1, <1>k, <2>2, <2>3 DEF CleanupList
<1>2. CASE CleanupCheck
  <2> DEFINE O == {n \in Names : cln.listed[n] # NoOcc /\ ~HasRow(cln.listed[n])}
  <2>1. /\ cln.pc = "check"
        /\ cln' = IF O = {} THEN ClnIdle ELSE [ClnIdle EXCEPT !.pc = "delete", !.orphans = O]
    BY <1>2 DEF CleanupCheck
  <2>2. cln'.pc \in {"idle", "delete"} /\ (cln'.pc = "delete" => cln'.orphans = O)
    <3> HIDE DEF O
    <3>1. QED
      BY <1>s, <2>1 DEF ClnType, ClnIdle
  <2>3. ASSUME NEW o \in Owned, NameOf[o] \in O PROVE Gone(o)
    <3> DEFINE p == cln.listed[NameOf[o]]
    <3>1. p \in Occurrences /\ ~HasRow(p) /\ p # NoOcc
      BY <1>s, <2>3 DEF ClnType
    <3>2. NameOf[p] = NameOf[o] /\ occ[p] # "none"
      BY <1>s, <2>1, <2>3, <3>1 DEF TaskInv, ListedMatch
    <3>3. occ[p] = "gone"
      BY <1>s, <3>1, <3>2 DEF HasRow
    <3>4. ResOf[p] = ResOf[o]
      BY <3>1, <3>2, OwnedNames
    <3>5. QED
      BY <3>1, <3>3, <3>4 DEF TaskInv, RowsGo, Gone
  <2>4. ListedMatch'
    BY <2>2 DEF ListedMatch
  <2>5. OrphansGone'
    BY <1>2, <2>2, <2>3 DEF CleanupCheck, OrphansGone, Gone
  <2>6. QED
    BY <1>2, <1>k, <2>4, <2>5 DEF CleanupCheck
<1>3. ASSUME NEW n \in Names, CleanupDelete(n) PROVE TaskInv'
  <2>1. /\ cln.pc = "delete" /\ n \in cln.orphans /\ Deleted(n)
        /\ UNCHANGED <<res, occ, act, mon, faults>>
    BY <1>3 DEF CleanupDelete
  <2>2. \A o \in Owned : NameOf[o] = n => occ[o] \in {"none", "gone"}
    BY <1>s, <2>1 DEF TaskInv, OrphansGone, RowsGo
  <2>3. /\ RowsGo' /\ NamesMatch' /\ DuePending' /\ ActiveHasDeployment'
        /\ \A o \in Occurrences : NameOf[o] # n /\ Stands(o) => Stands(o)'
        /\ \A m \in Names \ {n} : dep'[m] = dep[m]
        /\ dep'[n].occ # NoOcc => dep'[n].dying
    BY <2>1, <2>2, DeletedKeeps
  <2>4. ExpiredActive'
    BY <2>1, <2>2, <2>3 DEF TaskInv, ExpiredActive
  <2>5. cln' = ClnIdle \/ cln' = [cln EXCEPT !.orphans = cln.orphans \ {n}]
    BY <1>3 DEF CleanupDelete
  <2>6. cln'.pc # "check" /\ (cln'.pc = "delete" => cln'.orphans \subseteq cln.orphans)
    BY <1>s, <2>1, <2>5 DEF ClnType, ClnIdle
  <2>7. ListedMatch'
    BY <2>6 DEF ListedMatch
  <2>8. OrphansGone'
    BY <2>1, <2>6 DEF TaskInv, OrphansGone, Gone
  <2>9. LeakNeedsFault'
    BY <2>1, <2>3 DEF TaskInv, LeakNeedsFault, Exists
  <2>10. QED
    BY <1>t, <2>3, <2>4, <2>7, <2>8, <2>9 DEF TaskInv
<1>4. QED
  BY <1>1, <1>2, <1>3 DEF Cleanup

-----------------------------------------------------------------------------
(* Steps of the activation.                                                *)

LEMMA ActivationKeeps == TaskInv /\ Activation => TaskInv'
<1> SUFFICES ASSUME TaskInv, Activation PROVE TaskInv'
  OBVIOUS
<1>t. TypeOK'
  BY TypeStep DEF TaskInv, Next
<1>s. /\ dep \in [Names -> DepType] /\ act \in ActType
      /\ Owned \subseteq Occurrences
      /\ (\A o \in Occurrences : NameOf[o] \in Names)
      /\ act.due \subseteq Occurrences
      /\ (\A n \in Names : dep[n].occ \in Occurrences \cup {NoOcc})
      /\ mon.expired \subseteq Occurrences
      /\ NoOcc \notin Occurrences
      /\ occ \in [Occurrences -> {"none", "pending", "active", "completed", "gone"}]
      /\ cln \in ClnType
  BY Shapes DEF TaskInv, TypeOK
(* Neither rows nor deployments are written.                               *)
<1>k. ASSUME UNCHANGED <<res, occ, dep, mon, cln, faults>>, DuePending', act.pc # "update"
      PROVE  TaskInv'
  BY <1>k, <1>t, RowsKept
     DEF TaskInv, NamesMatch, Exists, Stands, ExpiredActive, ListedMatch,
         OrphansGone, Gone, ActiveHasDeployment, LeakNeedsFault
<1>1. CASE ActivateRead
  <2>1. act'.pc = "look" /\ \A o \in act'.due : occ[o] = "pending"
    BY <1>1 DEF ActivateRead, Due
  <2>2. DuePending'
    BY <1>1, <2>1 DEF ActivateRead, DuePending
  <2>3. QED
    BY <1>1, <1>k, <2>2 DEF ActivateRead
<1>5. ASSUME NEW o \in Occurrences, ActivateLook(o) PROVE TaskInv'
  <2>1. /\ act.pc = "look" /\ o \in act.due
        /\ UNCHANGED <<res, occ, dep, mon, cln, faults>>
    BY <1>5 DEF ActivateLook
  <2>2. CASE act' = [act EXCEPT !.pc = "create", !.cur = o]
    <3>1. act'.pc = "create" /\ act'.cur = o /\ act'.due = act.due
      BY <1>s, <2>2 DEF ActType
    <3>2. DuePending'
      BY <2>1, <3>1 DEF TaskInv, DuePending
    <3>3. QED
      BY <1>k, <2>1, <3>2
  <2>3. CASE ActNext(act.due \ {o})
    <3>1. act'.pc \in {"idle", "look"} /\ act'.due \subseteq act.due
      BY <1>s, <2>3, ActNextEffect
    <3>2. DuePending'
      BY <2>1, <3>1 DEF TaskInv, DuePending
    <3>3. QED
      BY <1>k, <2>1, <3>2
  <2>4. QED
    BY <1>5, <2>2, <2>3 DEF ActivateLook
<1>2. CASE ActivateCreate
  <2>0. act.pc = "create" /\ act.cur \in act.due /\ act.cur \in Occurrences
    BY <1>2, <1>s DEF ActivateCreate, TaskInv, DuePending
  <2>a. PICK o \in Occurrences : act.cur = o
    BY <2>0
  <2>1. /\ act.pc = "create" /\ o \in act.due /\ o \in Occurrences
        /\ UNCHANGED <<res, occ, mon, cln, faults>>
    BY <1>2, <2>0, <2>a DEF ActivateCreate
  <2>2. occ[o] \in {"pending", "gone"}
    BY <2>1, <2>a DEF TaskInv, DuePending
  <2>3. CASE dep' = dep /\ act' = ActIdle
    <3>1. DuePending'
      BY <2>3 DEF DuePending, ActIdle
    <3>2. QED
      BY <1>k, <2>1, <2>3, <3>1
  <2>4. CASE /\ ~Exists(NameOf[o])
             /\ dep' = [dep EXCEPT ![NameOf[o]] = Placeholder(o)]
             /\ act' = [act EXCEPT !.pc = "update"]
    <3>1. act'.pc = "update" /\ act'.cur = o /\ act'.due = act.due
      BY <1>s, <2>4, <2>a DEF ActType
    <3>2. /\ Stands(o)' /\ dep'[NameOf[o]].occ = o
          /\ \A m \in Names \ {NameOf[o]} : dep'[m] = dep[m]
      BY <1>s, <2>1, <2>4 DEF Stands, Placeholder
    (* Nobody counted on a deployment of that name, as there was none.     *)
    <3>3. \A p \in Occurrences : Stands(p) => Stands(p)'
      BY <1>s, <2>4, <3>2 DEF Stands, Exists
    <3>4. NamesMatch'
      BY <1>s, <2>1, <2>2, <3>2 DEF TaskInv, NamesMatch, Exists
    <3>5. DuePending'
      BY <1>s, <2>1, <3>1, <3>2 DEF TaskInv, DuePending, Stands
    <3>6. ExpiredActive'
      BY <2>1, <3>3 DEF TaskInv, ExpiredActive
    <3>7. ListedMatch' /\ OrphansGone'
      BY <2>1 DEF TaskInv, ListedMatch, OrphansGone, Gone
    <3>8. ActiveHasDeployment'
      BY <1>s, <2>1, <3>3 DEF TaskInv, ActiveHasDeployment, Stands
    <3>9. LeakNeedsFault'
      BY <1>s, <2>1, <2>2, <3>1, <3>2 DEF TaskInv, LeakNeedsFault, Exists
    <3>10. QED
      BY <1>t, <2>1, <3>4, <3>5, <3>6, <3>7, <3>8, <3>9, RowsKept DEF TaskInv
  <2>5. QED
    <3>1. \/ dep' = dep /\ act' = ActIdle
          \/ /\ ~Exists(NameOf[act.cur])
             /\ dep' = [dep EXCEPT ![NameOf[act.cur]] = Placeholder(act.cur)]
             /\ act' = [act EXCEPT !.pc = "update"]
      BY <1>2 DEF ActivateCreate
    <3>2. QED
      BY <2>3, <2>4, <2>a, <3>1
<1>3. CASE ActivateUpdate
  <2> DEFINE o == act.cur
  <2>1. /\ act.pc = "update" /\ UNCHANGED <<res, dep, mon, cln, faults>>
    BY <1>3 DEF ActivateUpdate
  <2>2. /\ o \in act.due /\ o \in Occurrences /\ occ[o] \in {"pending", "gone"}
        /\ o \in Owned /\ occ[o] = "pending" => Stands(o)
    BY <1>s, <2>1 DEF TaskInv, DuePending
  <2>3. CASE ~HasRow(o)
    <3>1. act' = ActIdle /\ occ' = occ
      BY <1>3, <2>3 DEF ActivateUpdate
    <3>2. occ[o] = "gone"
      BY <2>2, <2>3 DEF HasRow
    <3>3. DuePending'
      BY <3>1 DEF DuePending, ActIdle
    <3>4. LeakNeedsFault'
      BY <2>1, <3>1, <3>2 DEF TaskInv, LeakNeedsFault, Exists
    <3>5. QED
      BY <1>t, <2>1, <3>1, <3>3, <3>4, RowsKept
         DEF TaskInv, NamesMatch, Exists, Stands, ExpiredActive, ListedMatch,
             OrphansGone, Gone, ActiveHasDeployment
  <2>4. CASE HasRow(o)
    <3>1. /\ occ[o] = "pending" /\ (o \in Owned => Stands(o))
          /\ occ' = [occ EXCEPT ![o] = "active"] /\ ActNext(act.due \ {o})
      BY <1>3, <2>2, <2>4 DEF ActivateUpdate, HasRow
    <3>2. act'.due = act.due \ {o} /\ act'.pc \in {"idle", "look"}
      BY <1>s, <3>1, ActNextEffect
    <3>3. occ'[o] = "active" /\ \A p \in Occurrences \ {o} : occ'[p] = occ[p]
      BY <1>s, <2>2, <3>1
    <3>4. RowsGo'
      BY <2>1, <2>2, <3>1, <3>3 DEF TaskInv, RowsGo, Gone
    <3>5. NamesMatch'
      BY <1>s, <2>1, <3>3 DEF TaskInv, NamesMatch, Exists
    <3>6. DuePending'
      BY <1>s, <3>2, <3>3 DEF TaskInv, DuePending
    <3>7. ExpiredActive'
      BY <1>s, <2>1, <3>1, <3>3 DEF TaskInv, ExpiredActive, Stands
    <3>8. ListedMatch'
      <4>1. \A n \in Names : cln.listed[n] \in Occurrences \cup {NoOcc}
        BY <1>s DEF ClnType
      <4>2. QED
        BY <2>1, <3>3, <4>1 DEF TaskInv, ListedMatch
    <3>9. OrphansGone'
      BY <2>1 DEF TaskInv, OrphansGone, Gone
    <3>10. ActiveHasDeployment'
      BY <2>1, <3>1, <3>3 DEF TaskInv, ActiveHasDeployment, Stands
    <3>11. LeakNeedsFault'
      BY <1>s, <2>1, <3>3 DEF TaskInv, LeakNeedsFault, Exists
    <3>12. QED
      BY <1>t, <3>4, <3>5, <3>6, <3>7, <3>8, <3>9, <3>10, <3>11 DEF TaskInv
  <2>5. QED
    BY <2>3, <2>4
<1>4. QED
  BY <1>1, <1>2, <1>3, <1>5 DEF Activation

-----------------------------------------------------------------------------
(* Steps of the monitor.                                                   *)

LEMMA MonitoringKeeps == TaskInv /\ Monitoring => TaskInv'
<1> SUFFICES ASSUME TaskInv, Monitoring PROVE TaskInv'
  OBVIOUS
<1>t. TypeOK'
  BY TypeStep DEF TaskInv, Next
<1>s. /\ dep \in [Names -> DepType] /\ mon \in MonType
      /\ Owned \subseteq Occurrences
      /\ (\A o \in Occurrences : NameOf[o] \in Names)
      /\ (\A n \in Names : dep[n].occ \in Occurrences \cup {NoOcc})
      /\ act.due \subseteq Occurrences
      /\ mon.expired \subseteq Occurrences /\ mon.still \subseteq Occurrences
      /\ NoOcc \notin Occurrences
      /\ occ \in [Occurrences -> {"none", "pending", "active", "completed", "gone"}]
      /\ cln \in ClnType
  BY Shapes DEF TaskInv, TypeOK
(* Neither rows nor deployments are written.                               *)
<1>k. ASSUME UNCHANGED <<res, occ, dep, act, cln, faults>>, ExpiredActive',
             \/ mon.pc \notin {"look", "delete"}
             \/ occ[mon.cur] = "gone"
             \/ mon'.pc = "delete" /\ mon'.cur = mon.cur
      PROVE  TaskInv'
  BY <1>k, <1>t, RowsKept
     DEF TaskInv, NamesMatch, Exists, Stands, DuePending, ListedMatch,
         OrphansGone, Gone, ActiveHasDeployment, LeakNeedsFault
<1>1. CASE MonitorRead
  <2> DEFINE active == {o \in Occurrences : occ[o] = "active"}
             X == {o \in active : EndAt[o] < clock}
  <2>1. mon' = [MonIdle EXCEPT !.pc = IF X # {} THEN "expire" ELSE "scale",
                  !.now = clock, !.expired = X, !.still = active \ X]
    BY <1>1 DEF MonitorRead
  <2>2. mon'.pc \notin {"look", "delete"} /\ mon'.expired = X
    <3> HIDE DEF active, X
    <3>1. QED
      BY <2>1 DEF MonIdle
  <2>3. ExpiredActive'
    BY <1>1, <2>2 DEF MonitorRead, ExpiredActive
  <2>4. QED
    BY <1>1, <1>k, <2>3 DEF MonitorRead
<1>2. ASSUME NEW o \in Occurrences, MonitorComplete(o) PROVE TaskInv'
  <2>1. /\ mon.pc = "expire" /\ o \in mon.expired /\ UNCHANGED <<res, dep, act, cln, faults>>
        /\ \A p \in mon.expired : occ[p] \in {"active", "gone"}
    BY <1>2 DEF MonitorComplete, TaskInv, ExpiredActive
  <2>2. CASE ~HasRow(o)
    <3>1. mon' = MonIdle /\ occ' = occ
      BY <1>2, <2>2 DEF MonitorComplete
    <3>2. ExpiredActive'
      BY <3>1 DEF ExpiredActive, MonIdle
    <3>3. QED
      BY <1>k, <2>1, <3>1, <3>2
  <2>3. CASE HasRow(o)
    <3>1. /\ occ[o] = "active" /\ (o \in Owned => Stands(o))
          /\ occ' = [occ EXCEPT ![o] = "completed"]
          /\ mon' = [mon EXCEPT !.pc = "look", !.cur = o]
      BY <1>2, <2>1, <2>3 DEF MonitorComplete, HasRow, TaskInv, ActiveHasDeployment, Stands
    <3>2. mon'.pc = "look" /\ mon'.cur = o /\ mon'.expired = mon.expired
      BY <1>s, <3>1 DEF MonType
    <3>3. occ'[o] = "completed" /\ \A p \in Occurrences \ {o} : occ'[p] = occ[p]
      BY <1>s, <3>1
    <3>4. RowsGo'
      BY <2>1, <3>1, <3>3 DEF TaskInv, RowsGo, Gone
    <3>5. NamesMatch'
      BY <1>s, <2>1, <3>3 DEF TaskInv, NamesMatch, Exists
    <3>6. DuePending'
      BY <1>s, <2>1, <3>1, <3>3 DEF TaskInv, DuePending, Stands
    <3>7. ExpiredActive'
      BY <1>s, <2>1, <3>1, <3>2, <3>3 DEF TaskInv, ExpiredActive, Stands
    <3>8. ListedMatch'
      <4>1. \A n \in Names : cln.listed[n] \in Occurrences \cup {NoOcc}
        BY <1>s DEF ClnType
      <4>2. QED
        BY <2>1, <3>3, <4>1 DEF TaskInv, ListedMatch
    <3>9. OrphansGone'
      BY <2>1 DEF TaskInv, OrphansGone, Gone
    <3>10. ActiveHasDeployment'
      BY <1>s, <2>1, <3>1, <3>3 DEF TaskInv, ActiveHasDeployment, Stands
    <3>11. LeakNeedsFault'
      BY <1>s, <2>1, <3>2, <3>3 DEF TaskInv, LeakNeedsFault, Exists
    <3>12. QED
      BY <1>t, <3>4, <3>5, <3>6, <3>7, <3>8, <3>9, <3>10, <3>11 DEF TaskInv
  <2>4. QED
    BY <2>2, <2>3
<1>7. CASE MonitorLook
  <2> DEFINE o == mon.cur
  <2>1. mon.pc = "look" /\ UNCHANGED <<res, occ, dep, act, cln, faults>>
    BY <1>7 DEF MonitorLook
  <2>2. /\ o \in Occurrences /\ occ[o] \in {"completed", "gone"}
        /\ o \in Owned /\ occ[o] = "completed" => Stands(o)
        /\ \A p \in mon.expired \ {o} : occ[p] \in {"active", "gone"}
    BY <2>1 DEF TaskInv, ExpiredActive
  <2>3. CASE res[ResOf[o]] = "live"
    <3>1. mon' = [mon EXCEPT !.pc = "delete"]
      BY <1>7, <2>3 DEF MonitorLook
    <3>2. mon'.pc = "delete" /\ mon'.cur = mon.cur /\ mon'.expired = mon.expired
      BY <1>s, <3>1 DEF MonType
    <3>3. ExpiredActive'
      BY <2>1, <2>2, <3>2 DEF ExpiredActive, Stands
    <3>4. QED
      BY <1>k, <2>1, <3>2, <3>3
  <2>4. CASE res[ResOf[o]] # "live"
    <3>1. MonNext(mon.expired \ {o}, mon.still)
      BY <1>7, <2>4 DEF MonitorLook
    <3>2. mon'.expired = mon.expired \ {o} /\ mon'.pc \notin {"look", "delete"}
      BY <1>s, <3>1, MonNextEffect
    <3>3. ExpiredActive'
      BY <2>1, <2>2, <3>2 DEF ExpiredActive
    <3>4. Gone(o)
      <4>1. ResOf[o] \in Reservations
        BY <2>2, WindowsAssumption
      <4>2. res[ResOf[o]] \in {"none", "live", "gone"}
        BY <4>1 DEF TaskInv, TypeOK
      <4>3. QED
        BY <2>2, <2>4, <4>2 DEF TaskInv, RowsGo, Gone
    <3>5. occ[o] = "gone"
      BY <2>2, <3>4 DEF TaskInv, RowsGo
    <3>6. QED
      BY <1>k, <2>1, <3>3, <3>5
  <2>5. QED
    BY <2>3, <2>4
<1>3. CASE MonitorDelete
  <2> DEFINE o == mon.cur
  <2>1. /\ mon.pc = "delete" /\ UNCHANGED <<res, occ, act, cln, faults>>
        /\ MonNext(mon.expired \ {o}, mon.still) /\ Deleted(NameOf[o])
    BY <1>3 DEF MonitorDelete
  <2>2. /\ o \in Occurrences /\ occ[o] \in {"completed", "gone"}
        /\ o \in Owned /\ occ[o] = "completed" => Stands(o)
        /\ \A p \in mon.expired \ {o} : occ[p] \in {"active", "gone"}
    BY <2>1 DEF TaskInv, ExpiredActive
  <2>3. mon'.expired = mon.expired \ {o} /\ mon'.pc \notin {"look", "delete"}
    BY <1>s, <2>1, MonNextEffect
  <2>4. ExpiredActive'
    BY <2>1, <2>2, <2>3 DEF ExpiredActive
  (* Nobody counts on the deployment of the name: it is that of o, or all  *)
  (* the occurrences that share the name are gone with their reservation.  *)
  <2>5. ASSUME NEW p \in Owned, NameOf[p] = NameOf[o]
        PROVE  /\ occ[p] # "active"
               /\ ~(act.pc = "update" /\ act.cur = p /\ occ[p] = "pending")
    <3>1. o \in Owned /\ ResOf[o] = ResOf[p] /\ p \in Occurrences
      BY <1>s, <2>2, <2>5, OwnedNames
    <3>2. CASE occ[o] = "gone"
      <4>1. Gone(p)
        BY <2>2, <3>1, <3>2 DEF TaskInv, RowsGo, Gone
      <4>2. QED
        BY <3>1, <4>1 DEF TaskInv, RowsGo
    <3>3. CASE occ[o] = "completed"
      <4>1. dep[NameOf[p]].occ = o
        BY <2>2, <2>5, <3>1, <3>3 DEF Stands
      <4>2. p = o \/ ~Stands(p)
        BY <4>1 DEF Stands
      <4>3. occ[p] # "active"
        BY <2>5, <3>3, <4>2 DEF TaskInv, ActiveHasDeployment
      <4>4. ~(act.pc = "update" /\ act.cur = p /\ occ[p] = "pending")
        BY <2>5, <3>3, <4>2 DEF TaskInv, DuePending
      <4>5. QED
        BY <4>3, <4>4
    <3>4. QED
      BY <2>2, <3>2, <3>3
  <2>6. NameOf[o] \in Names
    BY <1>s, <2>2
  <2>7. /\ RowsGo' /\ NamesMatch' /\ DuePending' /\ ActiveHasDeployment'
        /\ \A m \in Names \ {NameOf[o]} : dep'[m] = dep[m]
        /\ dep'[NameOf[o]].occ # NoOcc => dep'[NameOf[o]].dying
    BY <2>1, <2>5, <2>6, DeletedKeeps
  <2>8. ListedMatch' /\ OrphansGone'
    BY <2>1 DEF TaskInv, ListedMatch, OrphansGone, Gone
  <2>9. LeakNeedsFault'
    <3>1. ASSUME NEW n \in Names, dep'[n].occ # NoOcc, ~dep'[n].dying
          PROVE  n # NameOf[o] /\ dep'[n] = dep[n] /\ dep[n].occ # o
      <4>1. n # NameOf[o] /\ dep'[n] = dep[n]
        BY <2>7, <3>1
      <4>2. QED
        BY <3>1, <4>1 DEF TaskInv, NamesMatch, Exists
    <3>2. QED
      BY <2>1, <3>1 DEF TaskInv, LeakNeedsFault, Exists
  <2>10. QED
    BY <1>t, <2>4, <2>7, <2>8, <2>9 DEF TaskInv
<1>4. CASE MonitorScale
  <2>1. mon.pc = "scale" /\ UNCHANGED <<res, occ, dep, act, cln, faults>>
    BY <1>4 DEF MonitorScale
  <2>2. mon'.pc \in {"idle", "patch"}
    BY <1>4, <1>s DEF MonitorScale, MonIdle, MonType
  <2>3. ExpiredActive'
    BY <2>2 DEF ExpiredActive
  <2>4. QED
    BY <1>k, <2>1, <2>3
<1>5. ASSUME NEW o \in Occurrences, MonitorPatch(o) PROVE TaskInv'
  <2>1. mon.pc = "patch" /\ UNCHANGED <<res, occ, act, cln, faults>>
    BY <1>5 DEF MonitorPatch
  <2>2. mon'.pc \in {"idle", "patch"}
    <3>1. \/ mon' = MonIdle
          \/ mon' = [mon EXCEPT !.still = mon.still \ {o},
                                !.target = [mon.target EXCEPT ![o] = 0]]
      BY <1>5 DEF MonitorPatch
    <3>2. [mon.target EXCEPT ![o] = 0] \in [Occurrences -> Int]
      BY <1>s DEF MonType
    <3>3. MonIdle.pc = "idle"
      BY DEF MonIdle
    <3> DEFINE f == [mon.target EXCEPT ![o] = 0]
               S == mon.still \ {o}
    <3> HIDE DEF f, S
    <3>4. [mon EXCEPT !.still = S, !.target = f].pc = mon.pc
      BY <1>s DEF MonType
    <3>5. QED
      BY <2>1, <3>1, <3>3, <3>4 DEF f, S
  <2>3. ExpiredActive'
    BY <2>2 DEF ExpiredActive
  <2>4. \A n \in Names : dep'[n].occ = dep[n].occ /\ dep'[n].dying = dep[n].dying
    BY <1>5, <1>s DEF MonitorPatch, DepType
  <2>5. \A p \in Occurrences : Stands(p)' <=> Stands(p)
    BY <1>s, <2>4 DEF Stands
  <2>6. NamesMatch'
    BY <2>1, <2>4 DEF TaskInv, NamesMatch, Exists
  <2>7. DuePending'
    BY <1>s, <2>1, <2>5 DEF TaskInv, DuePending
  <2>8. ListedMatch' /\ OrphansGone'
    BY <2>1 DEF TaskInv, ListedMatch, OrphansGone, Gone
  <2>9. ActiveHasDeployment'
    BY <1>s, <2>1, <2>5 DEF TaskInv, ActiveHasDeployment, Stands
  <2>10. LeakNeedsFault'
    BY <2>1, <2>4 DEF TaskInv, LeakNeedsFault, Exists
  <2>11. QED
    BY <1>t, <2>1, <2>3, <2>6, <2>7, <2>8, <2>9, <2>10, RowsKept DEF TaskInv
<1>6. QED
  BY <1>1, <1>2, <1>3, <1>4, <1>5, <1>7 DEF Monitoring

-----------------------------------------------------------------------------
(* Faults: a task ends and forgets what it had in hand.                    *)

LEMMA FaultKeeps == TaskInv /\ Fault => TaskInv'
<1> SUFFICES ASSUME TaskInv, Fault PROVE TaskInv'
  OBVIOUS
<1>t. TypeOK'
  BY TypeStep DEF TaskInv, Next
<1>s. /\ dep \in [Names -> DepType] /\ mon \in MonType /\ act \in ActType
      /\ Owned \subseteq Occurrences
      /\ (\A o \in Occurrences : NameOf[o] \in Names)
      /\ act.due \subseteq Occurrences
      /\ mon.expired \subseteq Occurrences /\ mon.still \subseteq Occurrences
      /\ NoOcc \notin Occurrences
  BY Shapes DEF TaskInv
<1>1. UNCHANGED <<res, occ>> /\ faults' # 0
  <2>1. faults' = faults + 1 /\ UNCHANGED <<res, occ>>
    BY DEF Fault, ActivateFails, MonitorFails, CleanupFails, Crash
  <2>2. QED
    BY <2>1 DEF TaskInv, TypeOK
<1>2. LeakNeedsFault'
  BY <1>1 DEF LeakNeedsFault
<1>3. RowsGo' /\ \A o \in Occurrences : Gone(o)' <=> Gone(o)
  BY <1>1, RowsKept
(* What is idle counts on nothing.                                         *)
<1>a. act' = ActIdle => DuePending'
  BY DEF ActIdle, DuePending
<1>m. mon' = MonIdle => ExpiredActive'
  BY DEF MonIdle, ExpiredActive
<1>c. cln' = ClnIdle => ListedMatch' /\ OrphansGone'
  BY DEF ClnIdle, ListedMatch, OrphansGone
<1>k. UNCHANGED cln => ListedMatch' /\ OrphansGone'
  BY <1>1 DEF TaskInv, ListedMatch, OrphansGone, Gone
<1>4. CASE dep' = dep
  <2>1. NamesMatch' /\ ActiveHasDeployment'
    BY <1>1, <1>4 DEF TaskInv, NamesMatch, Exists, ActiveHasDeployment, Stands
  <2>2. DuePending'
    <3>1. UNCHANGED act => DuePending'
      BY <1>1, <1>4 DEF TaskInv, DuePending, Stands
    <3>2. QED
      BY <1>a, <3>1 DEF Fault, ActivateFails, MonitorFails, CleanupFails, Crash
  <2>3. ExpiredActive'
    <3>1. UNCHANGED mon => ExpiredActive'
      BY <1>1, <1>4 DEF TaskInv, ExpiredActive, Stands
    <3>2. ASSUME mon.pc = "delete", MonNext(mon.expired \ {mon.cur}, mon.still)
          PROVE  ExpiredActive'
      <4>1. mon'.expired = mon.expired \ {mon.cur} /\ mon'.pc \notin {"look", "delete"}
        BY <1>s, <3>2, MonNextEffect
      <4>2. QED
        BY <1>1, <3>2, <4>1 DEF TaskInv, ExpiredActive
    <3>3. QED
      BY <1>m, <3>1, <3>2 DEF Fault, ActivateFails, MonitorFails, CleanupFails, Crash
  <2>4. ListedMatch' /\ OrphansGone'
    BY <1>c, <1>k DEF Fault, ActivateFails, MonitorFails, CleanupFails, Crash
  <2>5. QED
    BY <1>t, <1>2, <1>3, <2>1, <2>2, <2>3, <2>4 DEF TaskInv
(* The deployment is created although the call fails.                      *)
<1>5. CASE dep' # dep
  <2>1. ActivateFails
    BY <1>5 DEF Fault, MonitorFails, CleanupFails, Crash
  <2> DEFINE o == act.cur
  <2>2. /\ act.pc = "create" /\ ~Exists(NameOf[o])
        /\ dep' = [dep EXCEPT ![NameOf[o]] = Placeholder(o)]
    BY <1>5, <2>1 DEF ActivateFails
  <2>3. act' = ActIdle /\ UNCHANGED <<mon, cln>>
    BY <2>1 DEF ActivateFails
  <2>4. o \in Occurrences /\ occ[o] \in {"pending", "gone"}
    BY <1>s, <2>2 DEF TaskInv, DuePending
  <2>5. /\ dep'[NameOf[o]].occ = o
        /\ \A m \in Names \ {NameOf[o]} : dep'[m] = dep[m]
    BY <1>s, <2>2, <2>4 DEF Placeholder
  <2>6. \A p \in Occurrences :
          Stands(p) => dep'[NameOf[p]].occ = p /\ ~dep'[NameOf[p]].dying
    BY <1>s, <2>2, <2>4, <2>5 DEF Stands, Exists
  <2>7. NamesMatch'
    BY <1>1, <2>4, <2>5 DEF TaskInv, NamesMatch, Exists
  <2>8. ExpiredActive'
    BY <1>1, <2>3, <2>6 DEF TaskInv, ExpiredActive, Stands
  <2>9. ActiveHasDeployment'
    BY <1>1, <1>s, <2>6 DEF TaskInv, ActiveHasDeployment, Stands
  <2>10. QED
    BY <1>t, <1>2, <1>3, <1>a, <1>k, <2>3, <2>7, <2>8, <2>9 DEF TaskInv
<1>6. QED
  BY <1>4, <1>5

LEMMA TaskInvStep == TaskInv /\ [Next]_vars => TaskInv'
<1> SUFFICES ASSUME TaskInv, [Next]_vars PROVE TaskInv'
  OBVIOUS
<1>1. CASE Tick
  <2>1. TypeOK'
    BY <1>1, TypeStep DEF TaskInv, Next
  <2>2. QED
    BY <1>1, <2>1
       DEF Tick, TaskInv, RowsGo, Gone, NamesMatch, Exists, DuePending, Stands,
           ExpiredActive, ListedMatch, OrphansGone, ActiveHasDeployment, LeakNeedsFault
<1>2. CASE UNCHANGED vars
  <2>1. TypeOK'
    BY <1>2, TypeStep DEF TaskInv
  <2>2. QED
    BY <1>2, <2>1
       DEF vars, TaskInv, RowsGo, Gone, NamesMatch, Exists, DuePending, Stands,
           ExpiredActive, ListedMatch, OrphansGone, ActiveHasDeployment, LeakNeedsFault
<1>3. QED
  BY <1>1, <1>2, ApiKeeps, VanishKeeps, ActivationKeeps, MonitoringKeeps,
     CleanupKeeps, FaultKeeps DEF Next

LEMMA TaskInvCorrect == Spec => []TaskInv
BY TaskInvInit, TaskInvStep, PTL DEF Spec

(* No task deletes the deployment of an active occurrence whose name no    *)
(* other reservation has, however the names of its reservation collide,    *)
(* whatever is deleted and whichever task is ended halfway.                *)
THEOREM ActiveKeepsDeployment == Spec => []ActiveHasDeployment
<1>1. TaskInv => ActiveHasDeployment
  BY DEF TaskInv
<1>2. QED
  BY <1>1, TaskInvCorrect, PTL

(* Without a fault every deployment there is has an occurrence that wants  *)
(* it or a task that is about to deal with it.                             *)
THEOREM LeaksNeedFaults == Spec => []LeakNeedsFault
<1>1. TaskInv => LeakNeedsFault
  BY DEF TaskInv
<1>2. QED
  BY <1>1, TaskInvCorrect, PTL

-----------------------------------------------------------------------------
(* The replicas the monitor asks for.  What it scales had not ended when   *)
(* it read the clock, so the fraction of the window that is left is never  *)
(* negative, and at most one once the window is open.                      *)

LEMMA ProductMonotone ==
  ASSUME NEW c \in Nat, NEW x \in Nat, NEW y \in Nat, x <= y
  PROVE  c * x \in Nat /\ c * x <= c * y
OBVIOUS

LEMMA RoundedBounds ==
  ASSUME NEW a \in Nat, NEW b \in Nat \ {0}
  PROVE  /\ Rounded(a, b) >= 0
         /\ \A c \in Nat : a <= c * b => Rounded(a, b) <= c
<1> DEFINE q == a \div b
           r == a % b
<1>1. q \in Nat /\ r \in Nat /\ r < b /\ a = b * q + r
  OBVIOUS
<1>2. Rounded(a, b) \in {q, q + 1} /\ (r = 0 => Rounded(a, b) = q)
  BY <1>1 DEF Rounded
<1>3. ASSUME NEW c \in Nat, a <= c * b PROVE Rounded(a, b) <= c
  <2> HIDE DEF q, r
  <2>1. q <= c
    BY <1>1, <1>3
  <2>2. q = c => r = 0
    BY <1>1, <1>3
  <2>3. QED
    BY <1>1, <1>2, <2>1, <2>2
<1>4. QED
  BY <1>1, <1>2, <1>3

LEMMA TargetBounds ==
  ASSUME NEW o \in Occurrences, NEW n \in Nat, NEW now \in Nat, ~(EndAt[o] < now)
  PROVE  /\ TargetReplicas(o, n, now) >= 0
         /\ StartAt[o] <= now => TargetReplicas(o, n, now) <= Count[ResOf[o]]
<1> DEFINE r == ResOf[o]
           c == Monus(Count[r], n)
           left == EndAt[o] - now
           whole == EndAt[o] - StartAt[o]
<1>1. /\ Count[r] \in Nat /\ left \in Nat /\ whole \in Nat \ {0}
      /\ StartAt[o] <= now => left <= whole
  BY WindowsAssumption
<1>2. c \in Nat /\ c <= Count[r]
  BY <1>1 DEF Monus
<1>3. TargetReplicas(o, n, now) \in {Count[r], c, Rounded(c * left, whole)}
  BY DEF TargetReplicas
<1> HIDE DEF r, c, left, whole
<1>4. Rounded(c * left, whole) \in Int /\ Rounded(c * left, whole) >= 0
  <2>1. c * left \in Nat
    BY <1>1, <1>2, ProductMonotone
  <2>2. QED
    BY <1>1, <2>1, RoundedBounds, RoundedType
<1>5. left <= whole => Rounded(c * left, whole) <= c
  <2>1. left <= whole => c * left \in Nat /\ c * left <= c * whole
    BY <1>1, <1>2, ProductMonotone
  <2>2. QED
    BY <1>1, <1>2, <2>1, RoundedBounds
<1>6. QED
  BY <1>1, <1>2, <1>3, <1>4, <1>5 DEF r

(* Rounded is the nearest integer, and the even one of two that are as     *)
(* near: what Python's round does to the fraction a / b.                   *)
THEOREM RoundedIsNearest ==
  ASSUME NEW a \in Nat, NEW b \in Nat \ {0}
  PROVE  /\ 2 * (a - b * Rounded(a, b)) \in -b .. b
         /\ 2 * (a - b * Rounded(a, b)) \in {-b, b} => Rounded(a, b) % 2 = 0
<1> DEFINE q == a \div b
           r == a % b
<1>1. q \in Nat /\ r \in Nat /\ r < b /\ a = b * q + r
  OBVIOUS
<1>2. Rounded(a, b) = IF 2 * r < b \/ (2 * r = b /\ q % 2 = 0) THEN q ELSE q + 1
  BY DEF Rounded
<1>3. b * (q + 1) = b * q + b
  BY <1>1
<1>4. a - b * q = r /\ a - b * (q + 1) = r - b
  <2> HIDE DEF q, r
  <2>1. b * q \in Nat
    BY <1>1, ProductMonotone
  <2>2. QED
    BY <1>1, <1>3, <2>1
<1> HIDE DEF q, r
<1>5. CASE 2 * r < b \/ (2 * r = b /\ q % 2 = 0)
  <2>1. Rounded(a, b) = q
    BY <1>2, <1>5
  <2>2. a - b * Rounded(a, b) = r
    BY <1>4, <2>1
  <2>3. 2 * r \in -b .. b /\ (2 * r \in {-b, b} => q % 2 = 0)
    BY <1>1, <1>5
  <2>4. QED
    BY <2>1, <2>2, <2>3
<1>6. CASE ~(2 * r < b \/ (2 * r = b /\ q % 2 = 0))
  <2>1. Rounded(a, b) = q + 1
    BY <1>2, <1>6
  <2>2. a - b * Rounded(a, b) = r - b
    BY <1>4, <2>1
  <2>3. 2 * (r - b) \in -b .. b
    BY <1>1, <1>6
  <2>4. 2 * (r - b) \in {-b, b} => (q + 1) % 2 = 0
    BY <1>1, <1>6
  <2>5. QED
    BY <2>1, <2>2, <2>3, <2>4
<1>7. QED
  BY <1>5, <1>6

LEMMA RoundedMonotone ==
  ASSUME NEW a \in Nat, NEW c \in Nat, NEW b \in Nat \ {0}, a <= c
  PROVE  Rounded(a, b) <= Rounded(c, b)
<1> DEFINE q1 == a \div b
           r1 == a % b
           q2 == c \div b
           r2 == c % b
<1>1. /\ q1 \in Nat /\ r1 \in Nat /\ r1 < b /\ a = b * q1 + r1
      /\ q2 \in Nat /\ r2 \in Nat /\ r2 < b /\ c = b * q2 + r2
  OBVIOUS
<1>2. /\ Rounded(a, b) = IF 2 * r1 < b \/ (2 * r1 = b /\ q1 % 2 = 0) THEN q1 ELSE q1 + 1
      /\ Rounded(c, b) = IF 2 * r2 < b \/ (2 * r2 = b /\ q2 % 2 = 0) THEN q2 ELSE q2 + 1
  BY DEF Rounded
<1> HIDE DEF q1, r1, q2, r2
<1>3. CASE q1 < q2
  BY <1>1, <1>2, <1>3
<1>4. CASE q1 = q2
  <2>1. r1 <= r2
    <3>1. b * q1 \in Nat
      BY <1>1, ProductMonotone
    <3>2. QED
      BY <1>1, <1>4, <3>1
  <2>2. QED
    BY <1>1, <1>2, <1>4, <2>1
<1>5. CASE q1 > q2
  <2>1. q2 + 1 \in Nat /\ q2 + 1 <= q1
    BY <1>1, <1>5
  <2>2. b * (q2 + 1) <= b * q1 /\ b * q1 \in Nat
    BY <1>1, <2>1, ProductMonotone
  <2>3. b * (q2 + 1) = b * q2 + b /\ b * q2 \in Nat
    BY <1>1, ProductMonotone
  <2>4. QED
    BY <1>1, <2>2, <2>3
<1>6. QED
  BY <1>1, <1>3, <1>4, <1>5

(* Unless a window has ended, later and with more sessions the monitor     *)
(* asks for as many placeholders or fewer, never for more: a reservation   *)
(* that scales down does not scale up again for time that goes by.         *)
THEOREM TargetsDecrease ==
  ASSUME NEW o \in Occurrences, NEW n \in Nat, NEW m \in Nat, n <= m,
         NEW now \in Nat, NEW later \in Nat, now <= later, later <= EndAt[o]
  PROVE  TargetReplicas(o, m, later) <= TargetReplicas(o, n, now)
<1> DEFINE r == ResOf[o]
           c == Monus(Count[r], n)
           d == Monus(Count[r], m)
           x == EndAt[o] - now
           y == EndAt[o] - later
           whole == EndAt[o] - StartAt[o]
<1>1. /\ r \in Reservations /\ Count[r] \in Nat
      /\ x \in Nat /\ y \in Nat /\ y <= x /\ whole \in Nat \ {0}
  BY WindowsAssumption
<1>2. c \in Nat /\ d \in Nat /\ d <= c
  BY <1>1 DEF Monus
<1>3. /\ TargetReplicas(o, n, now) = IF Behaviour[r] = "none" THEN Count[r]
            ELSE IF Behaviour[r] = "maintain" THEN c ELSE Rounded(c * x, whole)
      /\ TargetReplicas(o, m, later) = IF Behaviour[r] = "none" THEN Count[r]
            ELSE IF Behaviour[r] = "maintain" THEN d ELSE Rounded(d * y, whole)
  BY DEF TargetReplicas
<1> HIDE DEF r, c, d, x, y, whole
<1>4. d * y \in Nat /\ c * x \in Nat /\ d * y <= c * x
  <2>1. d * y \in Nat /\ d * y <= d * x
    BY <1>1, <1>2, ProductMonotone
  <2>2. x * d \in Nat /\ x * d <= x * c
    BY <1>1, <1>2, ProductMonotone
  <2>3. x * d = d * x /\ x * c = c * x
    BY <1>1, <1>2
  <2>4. c * x \in Nat
    BY <1>1, <1>2, ProductMonotone
  <2>5. QED
    BY <2>1, <2>2, <2>3, <2>4
<1>5. Rounded(d * y, whole) <= Rounded(c * x, whole)
  BY <1>1, <1>4, RoundedMonotone
<1>6. QED
  BY <1>1, <1>2, <1>3, <1>5

(* While its window is open, an occurrence that scales down and the        *)
(* sessions counted for it together take no more than what is reserved,    *)
(* unless the sessions alone do.                                           *)
THEOREM RoomIsShared ==
  ASSUME NEW o \in Occurrences, NEW n \in Nat, NEW now \in Nat,
         StartAt[o] <= now, now <= EndAt[o], Behaviour[ResOf[o]] # "none"
  PROVE  \/ n + TargetReplicas(o, n, now) <= Count[ResOf[o]]
         \/ n > Count[ResOf[o]] /\ TargetReplicas(o, n, now) = 0
<1> DEFINE r == ResOf[o]
           c == Monus(Count[r], n)
           left == EndAt[o] - now
           whole == EndAt[o] - StartAt[o]
<1>1. /\ r \in Reservations /\ Count[r] \in Nat
      /\ left \in Nat /\ whole \in Nat \ {0} /\ left <= whole
  BY WindowsAssumption
<1>2. c \in Nat /\ (n <= Count[r] => n + c = Count[r]) /\ (n > Count[r] => c = 0)
  BY <1>1 DEF Monus
<1>3. TargetReplicas(o, n, now) \in {c, Rounded(c * left, whole)}
  BY DEF TargetReplicas
<1>r. r = ResOf[o]
  OBVIOUS
<1> HIDE DEF r, c, left, whole
<1>4. /\ Rounded(c * left, whole) \in Int
      /\ Rounded(c * left, whole) >= 0 /\ Rounded(c * left, whole) <= c
  <2>1. c * left \in Nat /\ c * left <= c * whole
    BY <1>1, <1>2, ProductMonotone
  <2>2. QED
    BY <1>1, <1>2, <2>1, RoundedBounds, RoundedType
<1>5. TargetReplicas(o, n, now) \in 0 .. c
  BY <1>2, <1>3, <1>4
<1>6. QED
  BY <1>1, <1>2, <1>5, <1>r

(* What is to scale had not ended.                                         *)
StillOpen ==
    mon.pc # "idle" => \A o \in mon.still : ~(EndAt[o] < mon.now)

TargetInv == TypeOK /\ StillOpen /\ TargetWithinCount

LEMMA TargetInit == Init => TargetInv
BY TypeInit DEF Init, MonIdle, TargetInv, StillOpen, TargetWithinCount

(* MonNext keeps what is to scale and the time of the round.               *)
LEMMA MonNextStill ==
  ASSUME mon \in MonType, NEW X \in SUBSET Occurrences,
         NEW S \in SUBSET Occurrences, MonNext(X, S), S = mon.still
  PROVE  /\ mon'.pc \in {"idle", "expire", "scale"}
         /\ mon'.pc # "idle" => mon'.still = mon.still /\ mon'.now = mon.now
<1>1. \/ mon' = [mon EXCEPT !.pc = "expire", !.expired = X, !.cur = NoOcc]
      \/ mon' = [mon EXCEPT !.pc = "scale", !.expired = {}, !.cur = NoOcc]
      \/ mon' = MonIdle
  BY DEF MonNext
<1>2. ASSUME mon' = [mon EXCEPT !.pc = "expire", !.expired = X, !.cur = NoOcc]
      PROVE  mon'.pc = "expire" /\ mon'.still = mon.still /\ mon'.now = mon.now
  BY <1>2 DEF MonType
<1>3. ASSUME mon' = [mon EXCEPT !.pc = "scale", !.expired = {}, !.cur = NoOcc]
      PROVE  mon'.pc = "scale" /\ mon'.still = mon.still /\ mon'.now = mon.now
  BY <1>3 DEF MonType
<1>4. ASSUME mon' = MonIdle PROVE mon'.pc = "idle"
  BY <1>4 DEF MonIdle
<1>5. QED
  BY <1>1, <1>2, <1>3, <1>4

LEMMA TargetStep == TargetInv /\ [Next]_vars => TargetInv'
<1> SUFFICES ASSUME TargetInv, [Next]_vars PROVE StillOpen' /\ TargetWithinCount'
  BY TypeStep DEF TargetInv
<1>s. mon \in MonType /\ mon.still \subseteq Occurrences /\ clock \in Nat
      /\ mon.expired \subseteq Occurrences
  BY Shapes DEF TargetInv, TypeOK
<1> USE DEF TargetInv
<1>1. CASE UNCHANGED mon
  BY <1>1 DEF StillOpen, TargetWithinCount
<1>2. CASE mon' = MonIdle
  BY <1>2 DEF MonIdle, StillOpen, TargetWithinCount
<1>13. CASE mon.pc = "look" /\ mon' = [mon EXCEPT !.pc = "delete"]
  <2>1. mon'.pc = "delete" /\ mon'.now = mon.now /\ mon'.still = mon.still
    BY <1>s, <1>13 DEF MonType
  <2>2. QED
    BY <1>13, <2>1 DEF StillOpen, TargetWithinCount
<1>3. CASE mon.pc # "idle" /\ MonNext(mon.expired \ {mon.cur}, mon.still)
  <2>1. /\ mon'.pc \in {"idle", "expire", "scale"}
        /\ mon'.pc # "idle" => mon'.still = mon.still /\ mon'.now = mon.now
    BY <1>s, <1>3, MonNextStill
  <2>2. QED
    BY <1>3, <2>1 DEF StillOpen, TargetWithinCount
<1>4. CASE MonitorRead
  <2> DEFINE active == {o \in Occurrences : occ[o] = "active"}
             X == {o \in active : EndAt[o] < clock}
  <2>1. mon' = [MonIdle EXCEPT !.pc = IF X # {} THEN "expire" ELSE "scale",
                               !.now = clock, !.expired = X,
                               !.still = active \ X]
    BY <1>4 DEF MonitorRead
  <2>2. mon'.pc # "patch" /\ mon'.now = clock /\ mon'.still = active \ X
    BY <2>1 DEF MonIdle
  <2>3. QED
    BY <2>2 DEF StillOpen, TargetWithinCount
<1>5. ASSUME NEW o \in Occurrences, MonitorComplete(o), mon' # MonIdle
      PROVE  StillOpen' /\ TargetWithinCount'
  <2>1. mon.pc = "expire" /\ mon' = [mon EXCEPT !.pc = "look", !.cur = o]
    BY <1>5 DEF MonitorComplete
  <2>2. mon'.pc = "look" /\ mon'.now = mon.now /\ mon'.still = mon.still
    BY <1>s, <2>1 DEF MonType
  <2>3. QED
    BY <2>1, <2>2 DEF StillOpen, TargetWithinCount
<1>6. CASE MonitorScale /\ mon' # MonIdle
  <2> DEFINE P == {o \in mon.still : /\ res[ResOf[o]] = "live"
                                     /\ Behaviour[ResOf[o]] # "none"}
  <2>1. PICK S \in SUBSET Sessions : \E n \in SessionCounts(S, P) :
           mon' = IF P = {} THEN MonIdle
                  ELSE [mon EXCEPT !.pc = "patch", !.still = P,
                          !.target = [o \in Occurrences |->
                             IF o \in P THEN TargetReplicas(o, n[o], mon.now)
                             ELSE 0]]
    BY <1>6, Zenon DEF MonitorScale
  <2>2. PICK n \in SessionCounts(S, P) :
           mon' = IF P = {} THEN MonIdle
                  ELSE [mon EXCEPT !.pc = "patch", !.still = P,
                          !.target = [o \in Occurrences |->
                             IF o \in P THEN TargetReplicas(o, n[o], mon.now)
                             ELSE 0]]
    BY <2>1, Zenon
  <2> HIDE DEF P
  <2>p. P \subseteq mon.still
    BY DEF P
  <2>3. n \in [Occurrences -> Nat]
    BY <1>s, <2>p, SessionCountsType
  <2>4. /\ mon'.pc = "patch" /\ mon'.still = P /\ mon'.now = mon.now
        /\ mon'.target = [o \in Occurrences |->
                        IF o \in P THEN TargetReplicas(o, n[o], mon.now) ELSE 0]
    <3>1. mon' = [mon EXCEPT !.pc = "patch", !.still = P,
                    !.target = [o \in Occurrences |->
                       IF o \in P THEN TargetReplicas(o, n[o], mon.now) ELSE 0]]
      BY <1>6, <2>2
    <3>2. QED
      BY <1>s, <3>1 DEF MonType
  <2>5. ASSUME NEW o \in P
        PROVE  /\ ~(EndAt[o] < mon.now)
               /\ mon'.target[o] >= 0
               /\ StartAt[o] <= mon.now => mon'.target[o] <= Count[ResOf[o]]
    <3>1. o \in Occurrences /\ o \in mon.still /\ mon.pc # "idle" /\ mon.now \in Nat
      BY <1>s, <1>6, <2>p DEF MonitorScale, MonType
    <3>2. ~(EndAt[o] < mon.now) /\ n[o] \in Nat
      BY <2>3, <3>1 DEF StillOpen
    <3>3. mon'.target[o] = TargetReplicas(o, n[o], mon.now)
      BY <2>4, <3>1
    <3>4. QED
      BY <3>1, <3>2, <3>3, TargetBounds
  <2>6. QED
    BY <2>4, <2>5 DEF StillOpen, TargetWithinCount
<1>7. ASSUME NEW o \in Occurrences, MonitorPatch(o), mon' # MonIdle
      PROVE  StillOpen' /\ TargetWithinCount'
  <2>1. /\ mon.pc = "patch"
        /\ mon' = [mon EXCEPT !.still = @ \ {o}, !.target[o] = 0]
    BY <1>7 DEF MonitorPatch
  <2>2. /\ mon'.pc = "patch" /\ mon'.now = mon.now
        /\ mon'.still = mon.still \ {o}
        /\ \A p \in Occurrences \ {o} : mon'.target[p] = mon.target[p]
    BY <1>s, <2>1 DEF MonType
  <2>3. QED
    BY <1>s, <2>1, <2>2 DEF StillOpen, TargetWithinCount
<1>8. CASE MonitorLook \/ MonitorDelete \/ MonitorFails
  BY <1>2, <1>3, <1>8, <1>13 DEF MonitorLook, MonitorDelete, MonitorFails
<1>9. CASE Monitoring
  BY <1>2, <1>4, <1>5, <1>6, <1>7, <1>8, <1>9 DEF Monitoring
<1>10. CASE Fault
  BY <1>1, <1>2, <1>8, <1>10 DEF Fault, ActivateFails, CleanupFails, Crash
<1>11. CASE Activation \/ Cleanup
  <2>1. Activation => UNCHANGED mon
    <3>1. ASSUME NEW o \in Occurrences, ActivateLook(o) PROVE UNCHANGED mon
      BY <3>1 DEF ActivateLook
    <3>2. QED
      BY <3>1 DEF Activation, ActivateRead, ActivateCreate, ActivateUpdate
  <2>2. Cleanup => UNCHANGED mon
    BY DEF Cleanup, CleanupList, CleanupCheck, CleanupDelete
  <2>3. QED
    BY <1>1, <1>11, <2>1, <2>2
<1>12. CASE Api \/ Tick \/ (\E n \in Names : Vanish(n)) \/ UNCHANGED vars
  BY <1>1, <1>12 DEF Api, CreateReservation, CreateOccurrences, DeleteReservation,
                     Tick, Vanish, vars
<1>14. QED
  BY <1>9, <1>10, <1>11, <1>12 DEF Next

(* The monitor never asks for a negative number of placeholders, and never *)
(* for more than the reservation has in an open window, for any windows,   *)
(* counts and number of sessions.                                          *)
THEOREM TargetsWithinCount == Spec => []TargetWithinCount
<1>1. TargetInv => TargetWithinCount
  BY DEF TargetInv
<1>2. QED
  BY <1>1, TargetInit, TargetStep, PTL DEF Spec

-----------------------------------------------------------------------------
(* The distribution of sessions over occurrences.                          *)

(* A session with an only occurrence by template is at no other.           *)
LEMMA OnlyOccurrence ==
  ASSUME NEW P \in SUBSET Occurrences, NEW s \in Sessions,
         Cardinality(ByTemplate(s, P)) = 1,
         NEW o \in ByTemplate(s, P), NEW p \in ByTemplate(s, P)
  PROVE  o = p
<1>1. IsFiniteSet(ByTemplate(s, P))
  BY FS_Subset, WindowsAssumption DEF ByTemplate
<1>2. PICK x : ByTemplate(s, P) = {x}
  BY <1>1, FS_Singleton
<1>3. QED
  BY <1>2

(* Whatever sessions run and whatever the random choices, the counts are   *)
(* the numbers of sessions in a distribution of them over the occurrences. *)
LEMMA CountsDistribute ==
  ASSUME NEW S \in SUBSET Sessions, NEW P \in SUBSET Occurrences,
         NEW n \in SessionCounts(S, P)
  PROVE  \E room \in [P -> SUBSET S] : Distributes(room, n, S, P)
<1> DEFINE matched == {s \in S : Cardinality(ByTemplate(s, P)) = 1}
           byClass == {s \in S \ matched : ByClass(s, P) # {}}
           At(o) == {s \in matched : o \in ByTemplate(s, P)}
           Of(pick, o) == {s \in byClass : pick[s] = o}
<1>1. PICK pick \in {f \in [byClass -> P] : \A s \in byClass : f[s] \in ByClass(s, P)} :
         n = [o \in Occurrences |-> Cardinality(At(o)) + Cardinality(Of(pick, o))]
  BY DEF SessionCounts
<1> DEFINE room == [o \in P |-> At(o) \cup Of(pick, o)]
<1>2. ASSUME NEW o \in P
      PROVE  n[o] = Cardinality(room[o])
  <2>1. At(o) \cap Of(pick, o) = {}
    OBVIOUS
  <2>2. At(o) \in SUBSET Sessions /\ Of(pick, o) \in SUBSET Sessions
    OBVIOUS
  <2>3. IsFiniteSet(At(o)) /\ IsFiniteSet(Of(pick, o))
    BY <2>2, FS_Subset, WindowsAssumption
  <2> HIDE DEF At, Of
  <2>4. Cardinality(At(o) \cup Of(pick, o)) =
           Cardinality(At(o)) + Cardinality(Of(pick, o)) - Cardinality({})
    BY <2>1, <2>3, FS_Union
  <2>5. Cardinality(At(o)) \in Nat /\ Cardinality(Of(pick, o)) \in Nat
    BY <2>3, FS_CardinalityType
  <2>6. n[o] = Cardinality(At(o)) + Cardinality(Of(pick, o))
    BY <1>1
  <2>7. QED
    BY <2>4, <2>5, <2>6, FS_EmptySet
<1>3. ASSUME NEW o \in P, NEW p \in P, o # p, NEW s \in room[o], s \in room[p]
      PROVE  FALSE
  <2>1. CASE s \in matched
    <3>1. o \in ByTemplate(s, P) /\ p \in ByTemplate(s, P)
      BY <1>3, <2>1
    <3>2. s \in Sessions /\ Cardinality(ByTemplate(s, P)) = 1
      BY <2>1
    <3>3. QED
      BY <1>3, <3>1, <3>2, OnlyOccurrence
  <2>2. CASE s \notin matched
    BY <1>3, <2>2
  <2>3. QED
    BY <2>1, <2>2
<1>4. ASSUME NEW o \in P, NEW s \in room[o]
      PROVE  o \in ByTemplate(s, P) \cup ByClass(s, P)
  BY <1>1, <1>4
<1>5. ASSUME NEW s \in S, ByClass(s, P) # {}
      PROVE  \E o \in P : s \in room[o]
  <2>1. CASE s \in matched
    <3>1. IsFiniteSet(ByTemplate(s, P))
      BY FS_Subset, WindowsAssumption DEF ByTemplate
    <3>2. PICK x : ByTemplate(s, P) = {x}
      BY <2>1, <3>1, FS_Singleton
    <3>3. x \in P
      BY <3>2 DEF ByTemplate
    <3>4. s \in At(x)
      BY <2>1, <3>2
    <3>5. QED
      BY <3>3, <3>4
  <2>2. CASE s \notin matched
    <3>1. s \in byClass
      BY <1>5, <2>2
    <3>2. pick[s] \in P /\ s \in Of(pick, pick[s])
      BY <1>1, <3>1
    <3>3. QED
      BY <3>2
  <2>3. QED
    BY <2>1, <2>2
<1>6. room \in [P -> SUBSET S]
  OBVIOUS
<1> HIDE DEF room
<1>7. QED
  BY <1>2, <1>3, <1>4, <1>5, <1>6 DEF Distributes

(* No session is counted at two occurrences, and none that has the class   *)
(* of one is forgotten: for any sessions, templates, classes and choices.  *)
THEOREM SessionsCountedOnce == Spec => []SessionCountedOnce
<1>1. \A P \in SUBSET Occurrences : \A S \in SUBSET Sessions :
         \A n \in SessionCounts(S, P) :
            \E room \in [P -> SUBSET S] : Distributes(room, n, S, P)
  BY CountsDistribute
<1>2. SessionCountedOnce
  BY <1>1 DEF SessionCountedOnce
<1>3. QED
  BY <1>2, PTL

-----------------------------------------------------------------------------
(* CapacityReservation implements OccurrenceLife.  The tasks act on what   *)
(* was due, or over, when they read the clock: it still is.                *)

(* What the mapping gives for the variables of OccurrenceLife.             *)
Rows == [o \in Owned |-> occ[o]]
Starting == {o \in Owned : act.pc = "create" /\ act.cur = o}
Room == {o \in Owned : Stands(o)}

DueInTime == \A o \in act.due : ActivateAt[o] <= clock

ExpiredInTime == \A o \in mon.expired : EndAt[o] < clock

LifeInv == TaskInv /\ DueInTime /\ ExpiredInTime

LEMMA TimesStep ==
  ASSUME LifeInv, [Next]_vars PROVE DueInTime' /\ ExpiredInTime'
<1>s. /\ TypeOK /\ act \in ActType /\ mon \in MonType
      /\ act.due \subseteq Occurrences
      /\ mon.expired \subseteq Occurrences /\ mon.still \subseteq Occurrences
  BY Shapes DEF LifeInv, TaskInv
<1>a. /\ ActivateAt \in [Occurrences -> Nat] /\ EndAt \in [Occurrences -> Nat]
      /\ clock \in Nat
  BY <1>s, WindowsAssumption DEF TypeOK
<1>1. clock' = clock \/ clock' = clock + 1
  BY DEF Next, Api, CreateReservation, CreateOccurrences, DeleteReservation, Tick,
         Vanish, Activation, ActivateRead, ActivateLook, ActivateCreate, ActivateUpdate,
         Monitoring, MonitorRead, MonitorComplete, MonitorLook, MonitorDelete,
         MonitorScale, MonitorPatch, Cleanup, CleanupList, CleanupCheck, CleanupDelete,
         Fault, ActivateFails, MonitorFails, CleanupFails, Crash, vars
(* Time does not go back, so nothing that is left becomes early.           *)
<1>d. act'.due \subseteq act.due => DueInTime'
  BY <1>1, <1>a, <1>s DEF LifeInv, DueInTime
<1>e. mon'.expired \subseteq mon.expired => ExpiredInTime'
  BY <1>1, <1>a, <1>s DEF LifeInv, ExpiredInTime
<1>i. act' = ActIdle => act'.due \subseteq act.due
  BY DEF ActIdle
<1>j. mon' = MonIdle => mon'.expired \subseteq mon.expired
  BY DEF MonIdle
<1>k. ASSUME UNCHANGED act \/ act' = ActIdle, UNCHANGED mon \/ mon' = MonIdle
      PROVE  DueInTime' /\ ExpiredInTime'
  BY <1>d, <1>e, <1>i, <1>j, <1>k
<1>2. CASE Api \/ Tick \/ Cleanup \/ (\E n \in Names : Vanish(n)) \/ UNCHANGED vars
  <2>1. UNCHANGED <<act, mon>>
    BY <1>2 DEF Api, CreateReservation, CreateOccurrences, DeleteReservation, Tick,
                Cleanup, CleanupList, CleanupCheck, CleanupDelete, Vanish, vars
  <2>2. QED
    BY <1>k, <2>1
<1>3. CASE Activation
  <2>1. UNCHANGED <<mon, clock>>
    BY <1>3 DEF Activation, ActivateRead, ActivateLook, ActivateCreate, ActivateUpdate
  <2>2. CASE ActivateRead
    <3>1. act'.due = {o \in Occurrences : Due(o)}
      BY <2>2 DEF ActivateRead
    <3>2. DueInTime'
      BY <2>1, <3>1 DEF DueInTime, Due
    <3>3. QED
      BY <1>e, <2>1, <3>2
  <2>3. CASE ~ActivateRead
    <3>1. \/ act' = ActIdle
          \/ \E D \in SUBSET act.due : ActNext(D)
          \/ \E o \in Occurrences : act' = [act EXCEPT !.pc = "create", !.cur = o]
          \/ act' = [act EXCEPT !.pc = "update"]
      <4>1. \A x : act.due \ {x} \in SUBSET act.due
        OBVIOUS
      <4>2. QED
        BY <1>3, <2>3, <4>1 DEF Activation, ActivateLook, ActivateCreate, ActivateUpdate
    <3>2. ASSUME NEW D \in SUBSET act.due, ActNext(D) PROVE act'.due \subseteq act.due
      BY <1>s, <3>2, ActNextEffect
    <3>3. ASSUME NEW o \in Occurrences, act' = [act EXCEPT !.pc = "create", !.cur = o]
          PROVE  act'.due \subseteq act.due
      BY <1>s, <3>3 DEF ActType
    <3>4. ASSUME act' = [act EXCEPT !.pc = "update"] PROVE act'.due \subseteq act.due
      BY <1>s, <3>4 DEF ActType
    <3>5. act'.due \subseteq act.due
      BY <1>i, <3>1, <3>2, <3>3, <3>4
    <3>6. QED
      BY <1>d, <1>e, <2>1, <3>5
  <2>4. QED
    BY <2>2, <2>3
<1>4. CASE Monitoring
  <2>1. UNCHANGED <<act, clock>>
    BY <1>4 DEF Monitoring, MonitorRead, MonitorComplete, MonitorLook, MonitorDelete,
                MonitorScale, MonitorPatch
  <2>2. CASE MonitorRead
    <3> DEFINE active == {o \in Occurrences : occ[o] = "active"}
               X == {o \in active : EndAt[o] < clock}
    <3>1. mon' = [MonIdle EXCEPT !.pc = IF X # {} THEN "expire" ELSE "scale",
                    !.now = clock, !.expired = X, !.still = active \ X]
      BY <2>2 DEF MonitorRead
    <3>2. mon'.expired = X
      <4> HIDE DEF X, active
      <4>1. QED
        BY <3>1 DEF MonIdle
    <3>3. ExpiredInTime'
      BY <2>1, <3>2 DEF ExpiredInTime
    <3>4. QED
      BY <1>d, <2>1, <3>3
  <2>3. CASE ~MonitorRead
    <3>1. mon'.expired \subseteq mon.expired
      <4>1. ASSUME NEW o \in Occurrences, MonitorComplete(o)
            PROVE  mon'.expired \subseteq mon.expired
        <5>1. mon' = MonIdle \/ mon' = [mon EXCEPT !.pc = "look", !.cur = o]
          BY <4>1 DEF MonitorComplete
        <5>2. QED
          BY <1>j, <1>s, <5>1 DEF MonType
      <4>2. ASSUME MonNext(mon.expired \ {mon.cur}, mon.still)
            PROVE  mon'.expired \subseteq mon.expired
        <5>1. mon.expired \ {mon.cur} \in SUBSET Occurrences
              /\ mon.still \in SUBSET Occurrences
          BY <1>s
        <5>2. mon'.expired = mon.expired \ {mon.cur}
          BY <1>s, <4>2, <5>1, MonNextEffect
        <5>3. QED
          BY <5>2
      <4>3. ASSUME mon' = [mon EXCEPT !.pc = "delete"]
            PROVE  mon'.expired \subseteq mon.expired
        BY <1>s, <4>3 DEF MonType
      <4>4. ASSUME MonitorScale PROVE mon'.expired \subseteq mon.expired
        <5>1. \/ mon' = MonIdle
              \/ \E P, T : mon' = [mon EXCEPT !.pc = "patch", !.still = P, !.target = T]
          BY <4>4 DEF MonitorScale
        <5>2. QED
          BY <1>j, <1>s, <5>1 DEF MonType
      <4>5. ASSUME NEW o \in Occurrences, MonitorPatch(o)
            PROVE  mon'.expired \subseteq mon.expired
        <5>1. \/ mon' = MonIdle
              \/ \E P, T : mon' = [mon EXCEPT !.still = P, !.target = T]
          BY <4>5 DEF MonitorPatch
        <5>2. QED
          BY <1>j, <1>s, <5>1 DEF MonType
      <4>6. QED
        BY <1>4, <2>3, <4>1, <4>2, <4>3, <4>4, <4>5
           DEF Monitoring, MonitorLook, MonitorDelete
    <3>2. QED
      BY <1>d, <1>e, <2>1, <3>1
  <2>4. QED
    BY <2>2, <2>3
<1>5. CASE Fault
  <2>1. CASE MonitorFails /\ MonNext(mon.expired \ {mon.cur}, mon.still)
    <3>1. mon.expired \ {mon.cur} \in SUBSET Occurrences
          /\ mon.still \in SUBSET Occurrences
      BY <1>s
    <3>2. mon'.expired = mon.expired \ {mon.cur}
      BY <1>s, <2>1, <3>1, MonNextEffect
    <3>3. mon'.expired \subseteq mon.expired /\ UNCHANGED act
      BY <2>1, <3>2 DEF MonitorFails
    <3>4. QED
      BY <1>d, <1>e, <3>3
  <2>2. CASE ~(MonitorFails /\ MonNext(mon.expired \ {mon.cur}, mon.still))
    BY <1>5, <1>k, <2>2 DEF Fault, ActivateFails, MonitorFails, CleanupFails, Crash
  <2>3. QED
    BY <2>1, <2>2
<1>6. QED
  BY <1>2, <1>3, <1>4, <1>5 DEF Next

LEMMA LifeInvCorrect ==
  /\ Init => LifeInv
  /\ LifeInv /\ [Next]_vars => LifeInv'
<1>1. Init => LifeInv
  BY TaskInvInit
     DEF LifeInv, Init, ActIdle, MonIdle, DueInTime, ExpiredInTime
<1>2. LifeInv /\ [Next]_vars => LifeInv'
  BY TaskInvStep, TimesStep DEF LifeInv
<1>3. QED
  BY <1>1, <1>2

-----------------------------------------------------------------------------
(* What a step does to the rows, the set-ups and the placeholders that     *)
(* stand.                                                                  *)

LEMMA RowsUnchanged == ASSUME UNCHANGED occ PROVE Rows' = Rows
BY DEF Rows

LEMMA StartingUnchanged ==
  ASSUME UNCHANGED act \/ (act.pc # "create" /\ act'.pc # "create")
  PROVE  Starting' = Starting
BY DEF Starting

LEMMA RoomUnchanged ==
  ASSUME \A n \in Names : dep'[n].occ = dep[n].occ /\ dep'[n].dying = dep[n].dying
  PROVE  Room' = Room
BY WindowsAssumption DEF Room, Stands, Owned

LEMMA RoomGrows ==
  ASSUME TypeOK, NEW o \in Occurrences, ~Exists(NameOf[o]),
         dep' = [dep EXCEPT ![NameOf[o]] = Placeholder(o)]
  PROVE  /\ o \notin Room
         /\ o \in Owned => Room' = Room \cup {o}
         /\ o \notin Owned => Room' = Room
<1>s. /\ dep \in [Names -> DepType] /\ NoOcc \notin Occurrences
      /\ Owned \subseteq Occurrences
      /\ \A p \in Occurrences : NameOf[p] \in Names
  BY Shapes
<1>1. /\ dep'[NameOf[o]].occ = o /\ ~dep'[NameOf[o]].dying
      /\ \A m \in Names \ {NameOf[o]} : dep'[m] = dep[m]
  BY <1>s DEF Placeholder
<1>2. \A p \in Occurrences : NameOf[p] = NameOf[o] => ~Stands(p)
  BY <1>s DEF Stands, Exists
<1>3. \A p \in Occurrences : Stands(p)' <=> Stands(p) \/ p = o
  BY <1>1, <1>2, <1>s DEF Stands
<1>4. QED
  BY <1>2, <1>3, <1>s DEF Room

LEMMA RoomShrinks ==
  ASSUME TaskInv, NEW n \in Names, Deleted(n)
  PROVE  \/ Room' = Room
         \/ \E o \in Room : NameOf[o] = n /\ Room' = Room \ {o}
<1>s. /\ dep \in [Names -> DepType] /\ NoOcc \notin Occurrences
      /\ Owned \subseteq Occurrences
      /\ \A p \in Occurrences : NameOf[p] \in Names
      /\ \A m \in Names : dep[m].occ \in Occurrences \cup {NoOcc}
  BY Shapes DEF TaskInv
<1>1. CASE ~Exists(n) \/ dep[n].dying
  <2>1. \A m \in Names : dep'[m].occ = dep[m].occ /\ dep'[m].dying = dep[m].dying
    BY <1>1, <1>s DEF Deleted, DepType
  <2>2. QED
    BY <2>1, RoomUnchanged
<1>2. CASE Exists(n) /\ ~dep[n].dying
  <2> DEFINE o == dep[n].occ
  <2>1. o \in Occurrences /\ NameOf[o] = n
    BY <1>2, <1>s DEF TaskInv, NamesMatch, Exists
  <2>2. o \in Owned => o \in Room
    BY <1>2, <2>1 DEF Room, Stands
  <2>3. /\ dep'[n].occ = o /\ dep'[n].dying
        /\ \A m \in Names \ {n} : dep'[m] = dep[m]
    BY <1>2, <1>s DEF Deleted, DepType
  <2>4. \A p \in Occurrences : Stands(p)' <=> Stands(p) /\ p # o
    BY <1>2, <1>s, <2>1, <2>3 DEF Stands
  <2>5. Room' = Room \ {o}
    BY <1>s, <2>4 DEF Room
  <2>6. o \notin Owned => Room' = Room
    BY <2>5 DEF Room
  <2>7. QED
    BY <2>1, <2>2, <2>5, <2>6
<1>3. QED
  BY <1>1, <1>2

-----------------------------------------------------------------------------
(* Every step is one of OccurrenceLife, or changes nothing of it.          *)

SameLife == UNCHANGED clock /\ Rows' = Rows /\ Starting' = Starting /\ Room' = Room

LEMMA TakenDown ==
  ASSUME TaskInv, NEW n \in Names, Deleted(n), UNCHANGED <<clock, occ, act>>,
         \A o \in Room : NameOf[o] = n => occ[o] \in {"completed", "gone"}
  PROVE  (\E o \in Owned : Life!TakeDown(o)) \/ SameLife
<1>1. Rows' = Rows /\ Starting' = Starting
  BY RowsUnchanged, StartingUnchanged
<1>2. CASE Room' = Room
  BY <1>1, <1>2 DEF SameLife
<1>3. CASE \E o \in Room : NameOf[o] = n /\ Room' = Room \ {o}
  BY <1>1, <1>3 DEF Life!TakeDown, Room, Rows, Starting
<1>4. QED
  BY <1>2, <1>3, RoomShrinks

LEMMA ApiMaps == ASSUME TaskInv, Api PROVE Life!Plan \/ Life!Cancel \/ SameLife
<1>1. PICK r \in Reservations :
        CreateReservation(r) \/ CreateOccurrences(r) \/ DeleteReservation(r)
  BY DEF Api
<1>2. UNCHANGED <<dep, act, clock>>
  BY <1>1 DEF CreateReservation, CreateOccurrences, DeleteReservation
<1>3. Room' = Room /\ Starting' = Starting
  BY <1>2, RoomUnchanged, StartingUnchanged
<1>s. Owned \subseteq Occurrences
  BY DEF Owned
<1>4. CASE CreateReservation(r)
  BY <1>3, <1>4, RowsUnchanged DEF CreateReservation, SameLife
<1>5. CASE CreateOccurrences(r)
  <2> DEFINE O == {o \in Owned : ResOf[o] = r}
  <2>1. O \in SUBSET Owned /\ \A o \in O : Rows[o] = "none"
    BY <1>5, <1>s DEF CreateOccurrences, Rows
  <2>2. \A o \in Owned : occ'[o] = IF o \in O THEN "pending" ELSE occ[o]
    BY <1>5, <1>s DEF CreateOccurrences
  <2> HIDE DEF O
  <2>3. Rows' = [o \in Owned |-> IF o \in O THEN "pending" ELSE Rows[o]]
    BY <2>2 DEF Rows
  <2>4. QED
    BY <1>2, <1>3, <2>1, <2>3 DEF Life!Plan, Room, Rows, Starting
<1>6. CASE DeleteReservation(r)
  <2> DEFINE O == {o \in Owned : ResOf[o] = r /\ HasRow(o)}
  <2>1. O \in SUBSET Owned /\ \A o \in O : Rows[o] \in {"pending", "active", "completed"}
    BY DEF HasRow, Rows
  <2>2. \A o \in Owned : occ'[o] = IF o \in O THEN "gone" ELSE occ[o]
    BY <1>6, <1>s DEF DeleteReservation
  <2> HIDE DEF O
  <2>3. Rows' = [o \in Owned |-> IF o \in O THEN "gone" ELSE Rows[o]]
    BY <2>2 DEF Rows
  <2>4. QED
    BY <1>2, <1>3, <2>1, <2>3 DEF Life!Cancel, Room, Rows, Starting
<1>7. QED
  BY <1>1, <1>4, <1>5, <1>6

(* The activation leaves what it had in hand without a deployment.         *)
LEMMA GivenUp ==
  ASSUME UNCHANGED <<clock, occ, dep>>, act'.pc # "create"
  PROVE  (\E o \in Owned : Life!GiveUp(o)) \/ SameLife
<1>1. Rows' = Rows /\ Room' = Room
  BY RowsUnchanged, RoomUnchanged
<1>2. CASE Starting = {}
  BY <1>1, <1>2 DEF SameLife, Starting
<1>3. CASE Starting # {}
  <2>1. act.cur \in Owned /\ Starting = {act.cur} /\ Starting' = {}
    BY <1>3 DEF Starting
  <2>2. Starting' = Starting \ {act.cur}
    BY <2>1
  <2>3. QED
    BY <1>1, <2>1, <2>2 DEF Life!GiveUp, Room, Rows, Starting
<1>4. QED
  BY <1>2, <1>3

(* The deployment is created for what was planned and due when the         *)
(* reservation was found.                                                  *)
LEMMA CreationMaps ==
  ASSUME LifeInv, act.pc = "create", ~Exists(NameOf[act.cur]),
         dep' = [dep EXCEPT ![NameOf[act.cur]] = Placeholder(act.cur)],
         UNCHANGED <<clock, occ>>, act'.pc # "create"
  PROVE  (\E o \in Owned : Life!SetUp(o)) \/ SameLife
<1> DEFINE o == act.cur
<1>1. TypeOK /\ o \in Occurrences /\ occ[o] \in {"pending", "gone"}
  BY Shapes DEF LifeInv, TaskInv, DuePending
<1>2. Rows' = Rows
  BY RowsUnchanged
<1>3. /\ o \notin Room
      /\ o \in Owned => Room' = Room \cup {o}
      /\ o \notin Owned => Room' = Room
  BY <1>1, RoomGrows
<1>4. Starting' = {} /\ (o \in Owned => Starting = {o}) /\ (o \notin Owned => Starting = {})
  BY DEF Starting
<1>5. CASE o \in Owned
  <2>1. o \in Starting \ Room /\ Rows[o] \in {"pending", "gone"} /\ Starting' = Starting \ {o}
    BY <1>1, <1>3, <1>4, <1>5 DEF Rows
  <2>2. QED
    BY <1>2, <1>3, <1>5, <2>1 DEF Life!SetUp, Room, Rows, Starting
<1>6. CASE o \notin Owned
  BY <1>2, <1>3, <1>4, <1>6 DEF SameLife
<1>7. QED
  BY <1>5, <1>6

LEMMA ActivationMaps ==
  ASSUME LifeInv, Activation
  PROVE  \/ \E o \in Owned : \/ Life!Start(o) \/ Life!GiveUp(o)
                             \/ Life!SetUp(o) \/ Life!Activate(o)
         \/ SameLife
<1>s. TypeOK /\ act.due \subseteq Occurrences /\ act \in ActType
  BY Shapes DEF LifeInv, TaskInv
<1>1. CASE ActivateRead
  <2>1. UNCHANGED <<clock, occ, dep>> /\ act'.pc # "create"
    BY <1>1 DEF ActivateRead
  <2>2. QED
    BY <2>1, GivenUp
<1>2. ASSUME NEW o \in Occurrences, ActivateLook(o)
      PROVE  (\E p \in Owned : Life!Start(p) \/ Life!GiveUp(p)) \/ SameLife
  <2>1. /\ act.pc = "look" /\ o \in act.due /\ UNCHANGED <<clock, occ, dep>>
    BY <1>2 DEF ActivateLook
  <2>2. CASE res[ResOf[o]] # "live"
    <3>1. ActNext(act.due \ {o})
      BY <1>2, <2>2 DEF ActivateLook
    <3>2. act'.pc # "create"
      BY <1>s, <3>1, ActNextEffect
    <3>3. QED
      BY <2>1, <3>2, GivenUp
  <2>3. CASE res[ResOf[o]] = "live"
    <3>1. act' = [act EXCEPT !.pc = "create", !.cur = o]
      BY <1>2, <2>3 DEF ActivateLook
    <3>2. act'.pc = "create" /\ act'.cur = o
      BY <1>s, <3>1 DEF ActType
    <3>3. occ[o] = "pending" /\ ActivateAt[o] <= clock
      BY <2>1, <2>3 DEF LifeInv, TaskInv, DuePending, RowsGo, Gone, DueInTime
    <3>4. Rows' = Rows /\ Room' = Room
      BY <2>1, RowsUnchanged, RoomUnchanged
    <3>5. /\ Starting = {}
          /\ o \in Owned => Starting' = {o}
          /\ o \notin Owned => Starting' = {}
      BY <2>1, <3>2 DEF Starting
    <3>6. CASE o \in Owned
      <4>1. Starting' = Starting \cup {o} /\ Rows[o] = "pending"
        BY <3>3, <3>5, <3>6 DEF Rows
      <4>2. QED
        BY <2>1, <3>3, <3>4, <3>6, <4>1 DEF Life!Start, Room, Rows, Starting
    <3>7. CASE o \notin Owned
      BY <2>1, <3>4, <3>5, <3>7 DEF SameLife
    <3>8. QED
      BY <3>6, <3>7
  <2>4. QED
    BY <2>2, <2>3
<1>3. CASE ActivateCreate
  <2>1. act.pc = "create" /\ UNCHANGED <<clock, occ>>
    BY <1>3 DEF ActivateCreate
  <2>2. act'.pc # "create"
    <3>1. [act EXCEPT !.pc = "update"].pc = "update"
      BY <1>s DEF ActType
    <3>2. ActIdle.pc = "idle"
      BY DEF ActIdle
    <3>3. act' = ActIdle \/ act' = [act EXCEPT !.pc = "update"]
      BY <1>3 DEF ActivateCreate
    <3>4. QED
      BY <3>1, <3>2, <3>3
  <2>3. CASE dep' = dep
    BY <2>1, <2>2, <2>3, GivenUp
  <2>4. CASE dep' # dep
    <3>1. /\ ~Exists(NameOf[act.cur])
          /\ dep' = [dep EXCEPT ![NameOf[act.cur]] = Placeholder(act.cur)]
      BY <1>3, <2>4 DEF ActivateCreate
    <3>2. QED
      BY <2>1, <2>2, <3>1, CreationMaps
  <2>5. QED
    BY <2>3, <2>4
<1>4. CASE ActivateUpdate /\ ~HasRow(act.cur)
  <2>1. UNCHANGED <<clock, occ, dep>> /\ act'.pc # "create"
    BY <1>4 DEF ActivateUpdate, ActIdle
  <2>2. QED
    BY <2>1, GivenUp
<1>5. CASE ActivateUpdate /\ HasRow(act.cur)
  <2> DEFINE o == act.cur
  <2>1. /\ o \in Occurrences /\ occ[o] = "pending" /\ act.pc = "update"
        /\ o \in Owned => Stands(o)
    BY <1>5, <1>s DEF ActivateUpdate, LifeInv, TaskInv, DuePending, HasRow
  <2>2. UNCHANGED <<clock, dep>> /\ occ' = [occ EXCEPT ![o] = "active"] /\ ActNext(act.due \ {o})
    BY <1>5 DEF ActivateUpdate
  <2>3. act'.pc # "create"
    BY <1>s, <2>2, ActNextEffect
  <2>4. Room' = Room /\ Starting' = Starting
    BY <2>1, <2>2, <2>3, RoomUnchanged, StartingUnchanged
  <2> HIDE DEF o
  <2>5. Rows' = [Rows EXCEPT ![o] = "active"]
    <3>1. \A p \in Owned : occ'[p] = IF p = o THEN "active" ELSE occ[p]
      BY <1>s, <2>1, <2>2 DEF TypeOK, Owned
    <3>2. QED
      BY <3>1 DEF Rows
  <2>6. CASE o \in Owned
    BY <2>1, <2>2, <2>4, <2>5, <2>6 DEF Life!Activate, Room, Rows, Starting
  <2>7. CASE o \notin Owned
    <3>1. Rows' = Rows
      BY <2>5, <2>7 DEF Rows
    <3>2. QED
      BY <2>2, <2>4, <3>1 DEF SameLife
  <2>8. QED
    BY <2>6, <2>7
<1>6. QED
  BY <1>1, <1>2, <1>3, <1>4, <1>5 DEF Activation

LEMMA MonitoringMaps ==
  ASSUME LifeInv, Monitoring
  PROVE  (\E o \in Owned : Life!Complete(o) \/ Life!TakeDown(o)) \/ SameLife
<1>s. /\ TypeOK /\ mon.expired \subseteq Occurrences
      /\ mon.still \subseteq Occurrences /\ dep \in [Names -> DepType]
      /\ Owned \subseteq Occurrences
      /\ NoOcc \notin Occurrences
      /\ \A o \in Occurrences : NameOf[o] \in Names
  BY Shapes DEF LifeInv, TaskInv
<1>a. UNCHANGED act /\ UNCHANGED clock
  BY DEF Monitoring, MonitorRead, MonitorComplete, MonitorLook, MonitorDelete,
         MonitorScale, MonitorPatch
<1>b. Starting' = Starting
  BY <1>a, StartingUnchanged
<1>1. CASE UNCHANGED <<occ, dep>>
  BY <1>1, <1>a, <1>b, RoomUnchanged, RowsUnchanged DEF SameLife
<1>2. ASSUME NEW o \in Occurrences, MonitorComplete(o), HasRow(o)
      PROVE  (\E p \in Owned : Life!Complete(p)) \/ SameLife
  <2>1. occ[o] = "active" /\ EndAt[o] < clock
    BY <1>2, <1>s DEF MonitorComplete, LifeInv, TaskInv, ExpiredActive, ExpiredInTime, HasRow
  <2>2. Room' = Room
    BY <1>2, RoomUnchanged DEF MonitorComplete
  <2>3. Rows' = [Rows EXCEPT ![o] = "completed"]
    <3>1. occ' = [occ EXCEPT ![o] = "completed"]
      BY <1>2 DEF MonitorComplete
    <3>2. \A p \in Owned : occ'[p] = IF p = o THEN "completed" ELSE occ[p]
      BY <1>s, <3>1 DEF TypeOK
    <3>3. QED
      BY <3>2 DEF Rows
  <2>4. CASE o \in Owned
    BY <1>a, <1>b, <2>1, <2>2, <2>3, <2>4 DEF Life!Complete, Room, Rows, Starting
  <2>5. CASE o \notin Owned
    <3>1. Rows' = Rows
      BY <2>3, <2>5 DEF Rows
    <3>2. QED
      BY <1>a, <1>b, <2>2, <3>1 DEF SameLife
  <2>6. QED
    BY <2>4, <2>5
<1>3. ASSUME MonitorDelete PROVE (\E o \in Owned : Life!TakeDown(o)) \/ SameLife
  <2> DEFINE q == mon.cur
  <2>1. /\ q \in Occurrences /\ occ[q] \in {"completed", "gone"}
        /\ q \in Owned /\ occ[q] = "completed" => Stands(q)
    BY <1>3 DEF MonitorDelete, LifeInv, TaskInv, ExpiredActive
  <2>2. Deleted(NameOf[q]) /\ UNCHANGED <<clock, occ, act>>
    BY <1>3 DEF MonitorDelete
  <2>3. ASSUME NEW o \in Room, NameOf[o] = NameOf[q] PROVE occ[o] \in {"completed", "gone"}
    <3>1. o \in Owned /\ o \in Occurrences /\ Stands(o)
      BY <1>s DEF Room
    <3>2. q \in Owned /\ ResOf[q] = ResOf[o]
      BY <2>1, <2>3, <3>1, OwnedNames
    <3>3. CASE occ[q] = "completed"
      BY <2>1, <2>3, <3>1, <3>2, <3>3 DEF Stands
    <3>4. CASE occ[q] = "gone"
      <4>1. Gone(o)
        BY <2>1, <3>2, <3>4 DEF LifeInv, TaskInv, RowsGo, Gone
      <4>2. o # NoOcc /\ dep[NameOf[o]].occ = o /\ NameOf[o] \in Names
        BY <1>s, <3>1 DEF Stands
      <4>3. occ[o] # "none"
        BY <4>2 DEF LifeInv, TaskInv, NamesMatch, Exists
      <4>4. QED
        BY <3>1, <4>1, <4>3 DEF LifeInv, TaskInv, RowsGo
    <3>5. QED
      BY <2>1, <3>3, <3>4
  <2>4. QED
    BY <1>s, <2>1, <2>2, <2>3, TakenDown DEF LifeInv
<1>4. ASSUME NEW o \in Occurrences, MonitorPatch(o) PROVE SameLife
  <2>1. \/ dep' = dep
        \/ dep' = [dep EXCEPT ![NameOf[o]].replicas = mon.target[o]]
    BY <1>4 DEF MonitorPatch
  <2>2. \A n \in Names : dep'[n].occ = dep[n].occ /\ dep'[n].dying = dep[n].dying
    BY <1>s, <2>1 DEF DepType
  <2>3. QED
    BY <1>4, <1>a, <1>b, <2>2, RoomUnchanged, RowsUnchanged DEF MonitorPatch, SameLife
<1>5. QED
  BY <1>1, <1>2, <1>3, <1>4
     DEF Monitoring, MonitorRead, MonitorComplete, MonitorLook, MonitorScale

LEMMA CleanupMaps ==
  ASSUME LifeInv, Cleanup
  PROVE  (\E o \in Owned : Life!TakeDown(o)) \/ SameLife
<1>a. UNCHANGED <<act, clock, occ>>
  BY DEF Cleanup, CleanupList, CleanupCheck, CleanupDelete
<1>1. CASE UNCHANGED dep
  BY <1>1, <1>a, RoomUnchanged, RowsUnchanged, StartingUnchanged DEF SameLife
<1>2. ASSUME NEW n \in Names, CleanupDelete(n)
      PROVE  (\E o \in Owned : Life!TakeDown(o)) \/ SameLife
  <2>1. \A o \in Room : NameOf[o] = n => occ[o] \in {"completed", "gone"}
    <3>1. ASSUME NEW o \in Room, NameOf[o] = n PROVE occ[o] = "gone"
      <4>1. o \in Owned /\ o \in Occurrences /\ dep[n].occ = o
        BY <3>1 DEF Room, Stands, Owned
      <4>2. Gone(o)
        BY <1>2, <3>1, <4>1 DEF CleanupDelete, LifeInv, TaskInv, OrphansGone
      <4>3. o # NoOcc
        BY <4>1, WindowsAssumption
      <4>4. occ[o] # "none"
        BY <4>1, <4>3 DEF LifeInv, TaskInv, NamesMatch, Exists
      <4>5. QED
        BY <4>1, <4>2, <4>4 DEF LifeInv, TaskInv, RowsGo
    <3>2. QED
      BY <3>1
  <2>2. QED
    BY <1>2, <1>a, <2>1, TakenDown DEF CleanupDelete, LifeInv
<1>3. QED
  BY <1>1, <1>2 DEF Cleanup, CleanupList, CleanupCheck

LEMMA FaultMaps ==
  ASSUME LifeInv, Fault
  PROVE  (\E o \in Owned : Life!GiveUp(o) \/ Life!SetUp(o)) \/ SameLife
<1>1. UNCHANGED <<clock, occ>> /\ (act' = act \/ act' = ActIdle)
  BY DEF Fault, ActivateFails, MonitorFails, CleanupFails, Crash
<1>2. CASE dep' = dep /\ act' = act
  BY <1>1, <1>2, RoomUnchanged, RowsUnchanged, StartingUnchanged DEF SameLife
<1>3. CASE dep' = dep /\ act' = ActIdle
  <2>1. act'.pc # "create"
    BY <1>3 DEF ActIdle
  <2>2. QED
    BY <1>1, <1>3, <2>1, GivenUp
<1>4. CASE dep' # dep
  <2>1. ActivateFails
    BY <1>4 DEF Fault, MonitorFails, CleanupFails, Crash
  <2>2. /\ act.pc = "create" /\ ~Exists(NameOf[act.cur]) /\ act' = ActIdle
        /\ dep' = [dep EXCEPT ![NameOf[act.cur]] = Placeholder(act.cur)]
    BY <1>4, <2>1 DEF ActivateFails
  <2>3. act'.pc # "create"
    BY <2>2 DEF ActIdle
  <2>4. QED
    BY <1>1, <2>2, <2>3, CreationMaps
<1>5. QED
  BY <1>1, <1>2, <1>3, <1>4

LEMMA LifeStep == LifeInv /\ [Next]_vars => [Life!Next]_(Life!vars)
<1> SUFFICES ASSUME LifeInv, [Next]_vars PROVE Life!Next \/ SameLife
  BY DEF Life!vars, SameLife, Room, Rows, Starting
<1>1. CASE UNCHANGED vars
  BY <1>1, RoomUnchanged, RowsUnchanged, StartingUnchanged DEF vars, SameLife
<1>2. CASE Tick
  <2>1. Room' = Room /\ Rows' = Rows /\ Starting' = Starting
    BY <1>2, RoomUnchanged, RowsUnchanged, StartingUnchanged DEF Tick
  <2>2. QED
    BY <1>2, <2>1 DEF Tick, Life!Tick, Life!Next, Room, Rows, Starting
<1>3. ASSUME NEW n \in Names, Vanish(n) PROVE SameLife
  <2>1. /\ dep \in [Names -> DepType] /\ NoOcc \notin Occurrences
        /\ Owned \subseteq Occurrences
        /\ \A o \in Occurrences : NameOf[o] \in Names
    BY Shapes DEF LifeInv, TaskInv
  <2>2. dep'[n].occ = NoOcc /\ \A m \in Names \ {n} : dep'[m] = dep[m]
    BY <1>3, <2>1 DEF Vanish, NoDep
  <2>3. \A o \in Occurrences : Stands(o)' <=> Stands(o)
    BY <1>3, <2>1, <2>2 DEF Vanish, Stands
  <2>4. Rows' = Rows /\ Starting' = Starting
    BY <1>3, RowsUnchanged, StartingUnchanged DEF Vanish
  <2>5. QED
    BY <1>3, <2>1, <2>3, <2>4 DEF Vanish, SameLife, Room
<1>4. CASE Api
  BY <1>4, ApiMaps DEF LifeInv, Life!Next
<1>5. CASE Activation
  BY <1>5, ActivationMaps DEF Life!Next
<1>6. CASE Monitoring
  BY <1>6, MonitoringMaps DEF Life!Next
<1>7. CASE Cleanup
  BY <1>7, CleanupMaps DEF Life!Next
<1>8. CASE Fault
  BY <1>8, FaultMaps DEF Life!Next
<1>9. QED
  BY <1>1, <1>2, <1>3, <1>4, <1>5, <1>6, <1>7, <1>8 DEF Next

LEMMA LifeStart == Init => Life!Init
<1> SUFFICES ASSUME Init PROVE Life!Init
  OBVIOUS
<1>1. \A o \in Owned : ~Stands(o) /\ occ[o] = "none"
  BY WindowsAssumption DEF Init, NoDep, Stands, Owned
<1>2. act.pc = "idle"
  BY DEF Init, ActIdle
<1>3. QED
  BY <1>1, <1>2 DEF Init, Life!Init

(* The tasks, the API, failed calls and crashes together do to an          *)
(* occurrence whose deployment name no other reservation has what          *)
(* OccurrenceLife allows and nothing else, for any reservations, windows   *)
(* and names: active only with placeholders, completed only after its      *)
(* window, never active again, and placeholders only for what was planned  *)
(* and due when the activation found its reservation, or is not yet        *)
(* cleaned up.                                                             *)
THEOREM ReservationImplementsLife == Spec => ImplementsLife
<1>1. LifeInv /\ [Next]_vars => LifeInv'
  BY LifeInvCorrect
<1>2. Init => LifeInv /\ Life!Init
  BY LifeInvCorrect, LifeStart
<1>3. LifeInv /\ [Next]_vars => [Life!Next]_(Life!vars)
  BY LifeStep
<1>4. QED
  BY <1>1, <1>2, <1>3, PTL DEF Spec, ImplementsLife, Life!Spec

-----------------------------------------------------------------------------
(* What OccurrenceLife is worth to users: every system that implements it  *)
(* serves its occurrences in time.                                         *)

(* ServedInTime is inductive once the clock is a number and nothing that   *)
(* was never planned stands.                                               *)
Served ==
    /\ clock \in Nat
    /\ \A o \in Room : Rows[o] # "none"
    /\ Life!ServedInTime

LEMMA ServedStep == Served /\ [Life!Next]_(Life!vars) => Served'
<1> SUFFICES ASSUME Served, [Life!Next]_(Life!vars) PROVE Served'
  OBVIOUS
<1>t. \A o \in Owned : ActivateAt[o] \in Nat /\ EndAt[o] \in Nat
  BY WindowsAssumption DEF Owned
<1> DEFINE In(o) == /\ Rows[o] = "active" => o \in Room
                    /\ Rows[o] \in {"active", "completed"} \/ o \in Room \cup Starting =>
                          ActivateAt[o] <= clock
                    /\ Rows[o] = "completed" => EndAt[o] < clock
                    /\ o \in Room => Rows[o] # "none"
<1>r. /\ Rows = [o \in Owned |-> Rows[o]] /\ Rows' = [o \in Owned |-> Rows'[o]]
      /\ Room \subseteq Owned /\ Room' \subseteq Owned
  BY DEF Rows, Room
<1>i. clock \in Nat /\ \A o \in Owned : In(o)
  BY DEF Served, Life!ServedInTime, Room, Rows, Starting
<1>p. ASSUME clock' \in Nat, \A o \in Owned : In(o)'
      PROVE  Served'
  BY <1>p DEF Served, Life!ServedInTime, Room, Rows, Starting
<1>1. CASE Life!Tick
  <2>1. clock' = clock + 1 /\ Rows' = Rows /\ Room' = Room /\ Starting' = Starting
    BY <1>1 DEF Life!Tick, Room, Rows, Starting
  <2>2. QED
    BY <2>1, <1>t, <1>i, <1>p
<1>2. CASE Life!Plan \/ Life!Cancel
  <2>1. PICK O \in SUBSET Owned, s \in {"pending", "gone"} :
           /\ s = "pending" => \A o \in O : Rows[o] = "none"
           /\ Rows' = [o \in Owned |-> IF o \in O THEN s ELSE Rows[o]]
           /\ UNCHANGED clock /\ Room' = Room /\ Starting' = Starting
    BY <1>2 DEF Life!Plan, Life!Cancel, Room, Rows, Starting
  <2>2. \A o \in Owned : Rows'[o] = IF o \in O THEN s ELSE Rows[o]
    BY <2>1
  <2>3. QED
    BY <2>1, <2>2, <1>i, <1>p
<1>3. ASSUME NEW o \in Owned, Life!Start(o) PROVE Served'
  <2>1. /\ ActivateAt[o] <= clock /\ Starting' = Starting \cup {o}
        /\ UNCHANGED clock /\ Rows' = Rows /\ Room' = Room
    BY <1>3 DEF Life!Start, Room, Rows, Starting
  <2>2. QED
    BY <2>1, <1>i, <1>p
<1>4. ASSUME NEW o \in Owned, Life!GiveUp(o) PROVE Served'
  <2>1. Starting' = Starting \ {o} /\ UNCHANGED clock /\ Rows' = Rows /\ Room' = Room
    BY <1>4 DEF Life!GiveUp, Room, Rows, Starting
  <2>2. QED
    BY <2>1, <1>i, <1>p
<1>5. ASSUME NEW o \in Owned, Life!SetUp(o) PROVE Served'
  <2>1. /\ o \in Starting /\ Rows[o] \in {"pending", "gone"}
        /\ Starting' = Starting \ {o} /\ Room' = Room \cup {o}
        /\ UNCHANGED clock /\ Rows' = Rows
    BY <1>5 DEF Life!SetUp, Room, Rows, Starting
  <2>2. QED
    BY <2>1, <1>i, <1>p
<1>6. ASSUME NEW o \in Owned, Life!Activate(o) PROVE Served'
  <2>1. /\ Rows[o] = "pending" /\ o \in Room /\ Rows' = [Rows EXCEPT ![o] = "active"]
        /\ UNCHANGED clock /\ Room' = Room /\ Starting' = Starting
    BY <1>6 DEF Life!Activate, Room, Rows, Starting
  <2>2. \A p \in Owned : Rows'[p] = IF p = o THEN "active" ELSE Rows[p]
    BY <1>r, <2>1
  <2>3. QED
    BY <2>1, <2>2, <1>i, <1>p
<1>7. ASSUME NEW o \in Owned, Life!Complete(o) PROVE Served'
  <2>1. /\ Rows[o] = "active" /\ EndAt[o] < clock /\ Rows' = [Rows EXCEPT ![o] = "completed"]
        /\ UNCHANGED clock /\ Room' = Room /\ Starting' = Starting
    BY <1>7 DEF Life!Complete, Room, Rows, Starting
  <2>2. \A p \in Owned : Rows'[p] = IF p = o THEN "completed" ELSE Rows[p]
    BY <1>r, <2>1
  <2>3. QED
    BY <2>1, <2>2, <1>i, <1>p
<1>8. ASSUME NEW o \in Owned, Life!TakeDown(o) PROVE Served'
  <2>1. /\ Rows[o] \in {"completed", "gone"} /\ Room' = Room \ {o}
        /\ UNCHANGED clock /\ Rows' = Rows /\ Starting' = Starting
    BY <1>8 DEF Life!TakeDown, Room, Rows, Starting
  <2>2. QED
    BY <2>1, <1>i, <1>p
<1>9. CASE UNCHANGED Life!vars
  <2>1. UNCHANGED clock /\ Rows' = Rows /\ Room' = Room /\ Starting' = Starting
    BY <1>9 DEF Life!vars, Room, Rows, Starting
  <2>2. QED
    BY <2>1, <1>i, <1>p
<1>10. QED
  BY <1>1, <1>2, <1>3, <1>4, <1>5, <1>6, <1>7, <1>8, <1>9 DEF Life!Next

(* Whatever implements OccurrenceLife has placeholders for what is active, *)
(* sets nothing up before it is due, and completes nothing before its      *)
(* window is over.                                                         *)
THEOREM LifeServesInTime == Life!Spec => []Life!ServedInTime
<1>1. Life!Init => Served
  <2> SUFFICES ASSUME Life!Init PROVE Served
    OBVIOUS
  <2>1. /\ clock = 0 /\ Room = {} /\ Starting = {}
        /\ \A o \in Owned : Rows[o] = "none"
    BY DEF Life!Init, Room, Rows, Starting
  <2>2. QED
    BY <2>1 DEF Served, Life!ServedInTime, Room, Rows, Starting
<1>2. Served => Life!ServedInTime
  BY DEF Served
<1>3. QED
  BY <1>1, <1>2, ServedStep, PTL DEF Life!Spec
=============================================================================
