------------------------ MODULE CapacityReservation ------------------------
(***************************************************************************)
(* Capacity reservations: an administrator reserves room for sessions, the *)
(* reservation has occurrences (windows of time), and three background     *)
(* tasks keep one deployment of placeholder pods per active occurrence:    *)
(* activate_pending_occurrences_task, monitor_active_occurrences_task and  *)
(* cleanup_orphaned_deployments_task.  The tasks are loops of one process  *)
(* (data_tasks), they and the API meet in Postgres and in Kubernetes.      *)
(*                                                                         *)
(* The name of a deployment is a function of its occurrence.  The          *)
(* occurrences of a reservation often have the same one: it holds the      *)
(* first 8 characters of the occurrence's ULID, which are about one second *)
(* of its creation time, and all are created in one transaction.  Those of *)
(* two reservations may have the same one as well: besides these it holds  *)
(* the first 26 characters of the reservation's name, which need not be    *)
(* unique, and the resource class.                                         *)
(***************************************************************************)
EXTENDS Integers, FiniteSets

CONSTANTS
    Reservations,
    Occurrences,
    Sessions,     \* Amalthea sessions of users
    Names,        \* names of deployments
    NoOcc,        \* no occurrence
    ResOf,        \* ResOf[o]: the reservation of occurrence o
    NameOf,       \* NameOf[o]: its deployment name
    ActivateAt,   \* ActivateAt[o]: start minus the lead time
    StartAt, EndAt,
    Count,        \* Count[r]: placeholder_count
    Behaviour,    \* Behaviour[r]: scale_down_behavior
    Template,     \* Template[r]: project_template_id, a set of at most one
    SessionTemplate, \* SessionTemplate[s]: the template of its project, ditto
    ClassOf,      \* ClassOf[x]: resource class of a reservation or session
    MaxTime,      \* bound: the clock
    MaxFaults     \* bound: failed calls and crashes

ASSUME WindowsAssumption ==
    /\ ResOf \in [Occurrences -> Reservations]
    /\ NameOf \in [Occurrences -> Names]
    /\ ActivateAt \in [Occurrences -> Nat]
    /\ StartAt \in [Occurrences -> Nat]
    /\ EndAt \in [Occurrences -> Nat]
    /\ \A o \in Occurrences : ActivateAt[o] <= StartAt[o] /\ StartAt[o] < EndAt[o]
    /\ Count \in [Reservations -> Nat \ {0}]
    /\ Behaviour \in [Reservations -> {"maintain", "reduce", "none"}]
    /\ NoOcc \notin Occurrences
    /\ IsFiniteSet(Occurrences)
    /\ IsFiniteSet(Sessions)
    /\ MaxTime \in Nat
    /\ MaxFaults \in Nat

VARIABLES
    clock,
    res,       \* res[r]: the row of reservation r
    occ,       \* occ[o]: the status of the row of occurrence o
    dep,       \* dep[n]: the deployment of that name in the cluster
    act,       \* the activation task
    mon,       \* the monitoring task
    cln,       \* the cleanup task
    faults     \* faults so far

vars == <<clock, res, occ, dep, act, mon, cln, faults>>

-----------------------------------------------------------------------------
NoDep == [occ |-> NoOcc, replicas |-> 0, dying |-> FALSE]
Exists(n) == dep[n].occ # NoOcc
Placeholder(o) == [occ |-> o, replicas |-> Count[ResOf[o]], dying |-> FALSE]
HasRow(o) == occ[o] \in {"pending", "active", "completed"}

(* due: occurrences left to activate; cur: the one in hand, for which the  *)
(* reservation has been found                                              *)
ActIdle == [pc |-> "idle", due |-> {}, cur |-> NoOcc]

(* now: the time of the round; expired, still: what is left to process;    *)
(* cur: the completed occurrence to delete the deployment of; target: the  *)
(* replicas to patch                                                       *)
MonIdle == [pc |-> "idle", now |-> 0, expired |-> {}, still |-> {},
            cur |-> NoOcc, target |-> [o \in Occurrences |-> 0]]

(* listed: occurrence by deployment name; orphans: names left to delete    *)
ClnIdle == [pc |-> "idle", listed |-> [n \in Names |-> NoOcc], orphans |-> {}]

Init ==
    /\ clock = 0
    /\ res = [r \in Reservations |-> "none"]
    /\ occ = [o \in Occurrences |-> "none"]
    /\ dep = [n \in Names |-> NoDep]
    /\ act = ActIdle
    /\ mon = MonIdle
    /\ cln = ClnIdle
    /\ faults = 0

-----------------------------------------------------------------------------
(* The API, users and the cluster.                                         *)

(* POST: the reservation is committed first, its occurrences in a second   *)
(* transaction, which may never come.                                      *)
CreateReservation(r) ==
    /\ res[r] = "none"
    /\ res' = [res EXCEPT ![r] = "live"]
    /\ UNCHANGED <<clock, occ, dep, act, mon, cln, faults>>

CreateOccurrences(r) ==
    /\ res[r] = "live"
    /\ \A o \in Occurrences : ResOf[o] = r => occ[o] = "none"
    /\ occ' = [o \in Occurrences |-> IF ResOf[o] = r THEN "pending" ELSE occ[o]]
    /\ UNCHANGED <<clock, res, dep, act, mon, cln, faults>>

(* Mutant: the foreign key of the occurrences does not cascade.            *)
DeleteReservationOnly(r) ==
    /\ res[r] = "live"
    /\ res' = [res EXCEPT ![r] = "gone"]
    /\ UNCHANGED <<clock, occ, dep, act, mon, cln, faults>>

(* The deletion cascades to the occurrences, the deployments are left to   *)
(* the cleanup task.                                                       *)
DeleteReservation(r) ==
    /\ res[r] = "live"
    /\ res' = [res EXCEPT ![r] = "gone"]
    /\ occ' = [o \in Occurrences |->
                 IF ResOf[o] = r /\ HasRow(o) THEN "gone" ELSE occ[o]]
    /\ UNCHANGED <<clock, dep, act, mon, cln, faults>>

Tick ==
    /\ clock < MaxTime
    /\ clock' = clock + 1
    /\ UNCHANGED <<res, occ, dep, act, mon, cln, faults>>

(* Deletion is in the foreground: the object stays until its pods are gone.*)
Vanish(n) ==
    /\ dep[n].dying
    /\ dep' = [dep EXCEPT ![n] = NoDep]
    /\ UNCHANGED <<clock, res, occ, act, mon, cln, faults>>

(* K8sClusterClient.delete: an object that is not found is no error.       *)
Deleted(n) ==
    dep' = IF Exists(n) THEN [dep EXCEPT ![n].dying = TRUE] ELSE dep

-----------------------------------------------------------------------------
(* activate_pending_occurrences_task                                       *)

(* Mutant: the lead time is forgotten, whatever is planned is due.         *)
DueAnytime(o) == occ[o] = "pending"

Due(o) == occ[o] = "pending" /\ ActivateAt[o] <= clock

ActivateRead ==
    /\ act.pc = "idle"
    /\ \E o \in Occurrences : Due(o)
    /\ act' = [pc |-> "look", due |-> {o \in Occurrences : Due(o)},
               cur |-> NoOcc]
    /\ UNCHANGED <<clock, res, occ, dep, mon, cln, faults>>

(* The loop goes on with what is left of D.                                *)
ActNext(D) ==
    act' = IF D = {} THEN ActIdle
           ELSE [pc |-> "look", due |-> D, cur |-> NoOcc]

(* The reservation is read again: without one the occurrence is skipped.   *)
ActivateLook(o) ==
    /\ act.pc = "look"
    /\ o \in act.due
    /\ IF res[ResOf[o]] = "live"
       THEN act' = [act EXCEPT !.pc = "create", !.cur = o]
       ELSE ActNext(act.due \ {o})
    /\ UNCHANGED <<clock, res, occ, dep, mon, cln, faults>>

(* Mutant: server-side apply instead of create, an existing deployment is  *)
(* taken over.                                                             *)
ActivateApply ==
    /\ act.pc = "create"
    /\ dep' = [dep EXCEPT ![NameOf[act.cur]] = Placeholder(act.cur)]
    /\ act' = [act EXCEPT !.pc = "update"]
    /\ UNCHANGED <<clock, res, occ, mon, cln, faults>>

(* Cluster and resource class are read, then the deployment is created,    *)
(* whether or not the reservation is still there.  A name that is taken is *)
(* a conflict: the exception ends the whole round, and the task manager    *)
(* starts the task again.                                                  *)
ActivateCreate ==
    /\ act.pc = "create"
    /\ IF Exists(NameOf[act.cur])
       THEN act' = ActIdle /\ dep' = dep
       ELSE /\ dep' = [dep EXCEPT ![NameOf[act.cur]] = Placeholder(act.cur)]
            /\ act' = [act EXCEPT !.pc = "update"]
    /\ UNCHANGED <<clock, res, occ, mon, cln, faults>>

(* The row may be gone by now: the exception ends the round.               *)
ActivateUpdate ==
    /\ act.pc = "update"
    /\ IF HasRow(act.cur)
       THEN /\ occ' = [occ EXCEPT ![act.cur] = "active"]
            /\ ActNext(act.due \ {act.cur})
       ELSE act' = ActIdle /\ occ' = occ
    /\ UNCHANGED <<clock, res, dep, mon, cln, faults>>

(* The database or the cluster fails; a deployment may have been created.  *)
ActivateFails ==
    /\ act.pc # "idle"
    /\ faults < MaxFaults
    /\ \/ dep' = dep
       \/ /\ act.pc = "create"
          /\ ~Exists(NameOf[act.cur])
          /\ dep' = [dep EXCEPT ![NameOf[act.cur]] = Placeholder(act.cur)]
    /\ act' = ActIdle
    /\ faults' = faults + 1
    /\ UNCHANGED <<clock, res, occ, mon, cln>>

-----------------------------------------------------------------------------
(* calculate_target_replicas and _assign_sessions_to_occurrences           *)

Monus(a, b) == IF a > b THEN a - b ELSE 0

(* Python's round: half goes to the even neighbour.                        *)
Rounded(a, b) ==
    LET q == a \div b
        r == a % b
    IN IF 2 * r < b \/ (2 * r = b /\ q % 2 = 0) THEN q ELSE q + 1

(* Mutant: the fraction is upside down.                                    *)
ReplicasInverted(o, n, now) ==
    LET r == ResOf[o]
        remaining == Monus(Count[r], n)
    IN IF Behaviour[r] # "reduce" THEN remaining
       ELSE IF EndAt[o] = now THEN 0
       ELSE Rounded(remaining * (EndAt[o] - StartAt[o]), EndAt[o] - now)

(* The replicas of o when n sessions are assigned to it.  Before the start *)
(* of the window the fraction is greater than one.                         *)
TargetReplicas(o, n, now) ==
    LET r == ResOf[o]
        remaining == Monus(Count[r], n)
    IN IF Behaviour[r] = "none" THEN Count[r]
       ELSE IF Behaviour[r] = "maintain" THEN remaining
       ELSE Rounded(remaining * (EndAt[o] - now), EndAt[o] - StartAt[o])

ByTemplate(s, P) == {o \in P : \E t \in SessionTemplate[s] : t \in Template[ResOf[o]]}
ByClass(s, P) == {o \in P : ClassOf[ResOf[o]] = ClassOf[s]}

(* Mutant: a session matched by its project's template stays in the list.  *)
SessionCountsTwice(S, P) ==
    LET matched == {s \in S : Cardinality(ByTemplate(s, P)) = 1}
        byClass == {s \in S : ByClass(s, P) # {}}
    IN {[o \in Occurrences |->
           Cardinality({s \in matched : o \in ByTemplate(s, P)})
         + Cardinality({s \in byClass : pick[s] = o})] :
        pick \in {f \in [byClass -> P] : \A s \in byClass : f[s] \in ByClass(s, P)}}

(* The possible counts of the sessions S over the occurrences P: first the *)
(* sessions whose project comes from the template of exactly one, then the *)
(* others by resource class, at random if several occurrences have it.     *)
SessionCounts(S, P) ==
    LET matched == {s \in S : Cardinality(ByTemplate(s, P)) = 1}
        byClass == {s \in S \ matched : ByClass(s, P) # {}}
    IN {[o \in Occurrences |->
           Cardinality({s \in matched : o \in ByTemplate(s, P)})
         + Cardinality({s \in byClass : pick[s] = o})] :
        pick \in {f \in [byClass -> P] : \A s \in byClass : f[s] \in ByClass(s, P)}}

-----------------------------------------------------------------------------
(* monitor_active_occurrences_task                                         *)

(* The loop goes on with X to expire, then scales S.                       *)
MonNext(X, S) ==
    mon' = IF X # {} THEN [mon EXCEPT !.pc = "expire", !.expired = X,
                                      !.cur = NoOcc]
           ELSE IF S # {} THEN [mon EXCEPT !.pc = "scale", !.expired = {},
                                           !.cur = NoOcc]
           ELSE MonIdle

MonitorRead ==
    LET active == {o \in Occurrences : occ[o] = "active"}
        X == {o \in active : EndAt[o] < clock}
    IN /\ mon.pc = "idle"
       /\ active # {}
       /\ mon' = [MonIdle EXCEPT !.pc = IF X # {} THEN "expire" ELSE "scale",
                                 !.now = clock, !.expired = X,
                                 !.still = active \ X]
       /\ UNCHANGED <<clock, res, occ, dep, act, cln, faults>>

(* The occurrence is completed before its deployment is deleted; a row     *)
(* that is gone is an exception that ends the round.                       *)
MonitorComplete(o) ==
    /\ mon.pc = "expire"
    /\ o \in mon.expired
    /\ IF HasRow(o)
       THEN /\ occ' = [occ EXCEPT ![o] = "completed"]
            /\ mon' = [mon EXCEPT !.pc = "look", !.cur = o]
       ELSE mon' = MonIdle /\ occ' = occ
    /\ UNCHANGED <<clock, res, dep, act, cln, faults>>

(* Without its reservation the deletion is skipped.                        *)
MonitorLook ==
    /\ mon.pc = "look"
    /\ IF res[ResOf[mon.cur]] = "live"
       THEN mon' = [mon EXCEPT !.pc = "delete"]
       ELSE MonNext(mon.expired \ {mon.cur}, mon.still)
    /\ UNCHANGED <<clock, res, occ, dep, act, cln, faults>>

(* Mutant: the deletion is left to the cleanup task.                       *)
MonitorNoDelete ==
    /\ mon.pc = "delete"
    /\ MonNext(mon.expired \ {mon.cur}, mon.still)
    /\ UNCHANGED <<clock, res, occ, dep, act, cln, faults>>

(* By name, whatever has that name by now.                                 *)
MonitorDelete ==
    /\ mon.pc = "delete"
    /\ Deleted(NameOf[mon.cur])
    /\ MonNext(mon.expired \ {mon.cur}, mon.still)
    /\ UNCHANGED <<clock, res, occ, act, cln, faults>>

(* Reservations and sessions are read, the replicas of every occurrence    *)
(* that scales are computed.  S: the sessions that run, not hibernated.    *)
MonitorScale ==
    LET P == {o \in mon.still : /\ res[ResOf[o]] = "live"
                                /\ Behaviour[ResOf[o]] # "none"}
    IN /\ mon.pc = "scale"
       /\ \E S \in SUBSET Sessions : \E n \in SessionCounts(S, P) :
             mon' = IF P = {} THEN MonIdle
                    ELSE [mon EXCEPT !.pc = "patch", !.still = P,
                            !.target = [o \in Occurrences |->
                               IF o \in P THEN TargetReplicas(o, n[o], mon.now)
                               ELSE 0]]
       /\ UNCHANGED <<clock, res, occ, dep, act, cln, faults>>

(* The deployment may be gone by now: the exception ends the round.        *)
MonitorPatch(o) ==
    /\ mon.pc = "patch"
    /\ o \in mon.still
    /\ IF Exists(NameOf[o])
       THEN /\ dep' = [dep EXCEPT ![NameOf[o]].replicas = mon.target[o]]
            /\ mon' = IF mon.still = {o} THEN MonIdle
                      ELSE [mon EXCEPT !.still = @ \ {o}, !.target[o] = 0]
       ELSE mon' = MonIdle /\ dep' = dep
    /\ UNCHANGED <<clock, res, occ, act, cln, faults>>

(* The database or the cluster fails, and the round ends.  A failed look-up*)
(* in delete is taken for an object that is not there: the round goes on.  *)
MonitorFails ==
    /\ mon.pc # "idle"
    /\ faults < MaxFaults
    /\ \/ mon' = MonIdle
       \/ mon.pc = "delete" /\ MonNext(mon.expired \ {mon.cur}, mon.still)
    /\ faults' = faults + 1
    /\ UNCHANGED <<clock, res, occ, dep, act, cln>>

-----------------------------------------------------------------------------
(* cleanup_orphaned_deployments_task                                       *)

(* The deployments are read from the cluster.                              *)
CleanupList ==
    /\ cln.pc = "idle"
    /\ \E n \in Names : Exists(n)
    /\ cln' = [cln EXCEPT !.pc = "check",
                          !.listed = [n \in Names |-> dep[n].occ]]
    /\ UNCHANGED <<clock, res, occ, dep, act, mon, faults>>

(* Mutant: the cleanup looks for completed occurrences.                    *)
CleanupCheckCompleted ==
    LET O == {n \in Names : /\ cln.listed[n] # NoOcc
                           /\ occ[cln.listed[n]] = "completed"}
    IN /\ cln.pc = "check"
       /\ cln' = IF O = {} THEN ClnIdle
                 ELSE [ClnIdle EXCEPT !.pc = "delete", !.orphans = O]
       /\ UNCHANGED <<clock, res, occ, dep, act, mon, faults>>

(* Only then are the rows read.                                            *)
CleanupCheck ==
    LET O == {n \in Names : cln.listed[n] # NoOcc /\ ~HasRow(cln.listed[n])}
    IN /\ cln.pc = "check"
       /\ cln' = IF O = {} THEN ClnIdle
                 ELSE [ClnIdle EXCEPT !.pc = "delete", !.orphans = O]
       /\ UNCHANGED <<clock, res, occ, dep, act, mon, faults>>

CleanupDelete(n) ==
    /\ cln.pc = "delete"
    /\ n \in cln.orphans
    /\ Deleted(n)
    /\ cln' = IF cln.orphans = {n} THEN ClnIdle
              ELSE [cln EXCEPT !.orphans = @ \ {n}]
    /\ UNCHANGED <<clock, res, occ, act, mon, faults>>

CleanupFails ==
    /\ cln.pc # "idle"
    /\ faults < MaxFaults
    /\ cln' = ClnIdle
    /\ faults' = faults + 1
    /\ UNCHANGED <<clock, res, occ, dep, act, mon>>

(* The process of the three tasks is killed and started again.             *)
Crash ==
    /\ faults < MaxFaults
    /\ <<act, mon, cln>> # <<ActIdle, MonIdle, ClnIdle>>
    /\ act' = ActIdle
    /\ mon' = MonIdle
    /\ cln' = ClnIdle
    /\ faults' = faults + 1
    /\ UNCHANGED <<clock, res, occ, dep>>

-----------------------------------------------------------------------------

Api ==
    \E r \in Reservations : \/ CreateReservation(r)
                            \/ CreateOccurrences(r)
                            \/ DeleteReservation(r)

Activation ==
    \/ ActivateRead
    \/ \E o \in Occurrences : ActivateLook(o)
    \/ ActivateCreate
    \/ ActivateUpdate

Monitoring ==
    \/ MonitorRead
    \/ \E o \in Occurrences : MonitorComplete(o)
    \/ MonitorLook
    \/ MonitorDelete
    \/ MonitorScale
    \/ \E o \in Occurrences : MonitorPatch(o)

Cleanup ==
    \/ CleanupList
    \/ CleanupCheck
    \/ \E n \in Names : CleanupDelete(n)

Fault == ActivateFails \/ MonitorFails \/ CleanupFails \/ Crash

Next ==
    \/ Api
    \/ Tick
    \/ \E n \in Names : Vanish(n)
    \/ Activation
    \/ Monitoring
    \/ Cleanup
    \/ Fault

Spec == Init /\ [][Next]_vars

(* The tasks are endless loops that the task manager restarts, time goes   *)
(* by, and the cluster removes the objects that are deleted.  Nothing      *)
(* makes an administrator or a user act.                                   *)
Fairness ==
    /\ WF_vars(Activation)
    /\ WF_vars(Monitoring)
    /\ WF_vars(Cleanup)
    /\ WF_vars(Tick)
    /\ WF_vars(\E n \in Names : Vanish(n))

FairSpec == Spec /\ Fairness

-----------------------------------------------------------------------------
(* Properties.                                                             *)

TypeOK ==
    /\ clock \in Nat
    /\ res \in [Reservations -> {"none", "live", "gone"}]
    /\ occ \in [Occurrences -> {"none", "pending", "active", "completed",
                                "gone"}]
    /\ dep \in [Names -> [occ : Occurrences \cup {NoOcc}, replicas : Int,
                          dying : BOOLEAN]]
    /\ act \in [pc : {"idle", "look", "create", "update"},
                due : SUBSET Occurrences, cur : Occurrences \cup {NoOcc}]
    /\ act.pc \in {"create", "update"} => act.cur \in Occurrences
    /\ mon \in [pc : {"idle", "expire", "look", "delete", "scale", "patch"},
                now : Nat, expired : SUBSET Occurrences,
                still : SUBSET Occurrences, cur : Occurrences \cup {NoOcc},
                target : [Occurrences -> Int]]
    /\ cln \in [pc : {"idle", "check", "delete"},
                listed : [Names -> Occurrences \cup {NoOcc}],
                orphans : SUBSET Names]
    /\ faults \in Nat

(* The placeholders of o stand and are not being deleted.                  *)
Stands(o) == dep[NameOf[o]].occ = o /\ ~dep[NameOf[o]].dying

(* No other reservation has the deployment name of o.  What is said of the *)
(* occurrences that are served is said of these: a task that deletes by    *)
(* name may hit another reservation's deployment of the same name.         *)
Own(o) == \A p \in Occurrences : NameOf[p] = NameOf[o] => ResOf[p] = ResOf[o]
Owned == {o \in Occurrences : Own(o)}

(* What of it belongs to an occurrence of Owned.  It is being set up from  *)
(* the look at its reservation until the deployment is created or not.     *)
Life == INSTANCE OccurrenceLife
          WITH Occurrences <- Owned, ActivateAt <- ActivateAt,
               EndAt <- EndAt, clock <- clock,
               occ <- [o \in Owned |-> occ[o]],
               starting <- {o \in Owned : act.pc = "create" /\ act.cur = o},
               room <- {o \in Owned : Stands(o)}

(* The three tasks, the API and crashes together only do what              *)
(* OccurrenceLife allows: an occurrence is activated once, after its       *)
(* placeholders are up, and completed after its window, and placeholders   *)
(* are set up only when what they are for was planned and due when the     *)
(* set-up began, and taken away from what is over, although every task     *)
(* acts on rows and deployments that it read earlier and addresses         *)
(* deployments by names that the occurrences of a reservation share.       *)
ImplementsLife == Life!Spec

(* An active occurrence whose name no other reservation has has its        *)
(* deployment: none of the three tasks takes it away while the row says    *)
(* active, whatever reads they act on, although the occurrences of its     *)
(* reservation share the name and a crash or an error may end any of the   *)
(* tasks halfway.                                                          *)
ActiveHasDeployment ==
    \A o \in Owned : occ[o] = "active" => Stands(o)

(* A deployment that no row wants and no task is about to deal with needs  *)
(* a fault: one that has been created and not recorded, or that outlived   *)
(* its window.  (The cleanup task finds those whose occurrence is gone.)   *)
LeakNeedsFault ==
    \A n \in Names :
       LET o == dep[n].occ
       IN Exists(n) /\ ~dep[n].dying /\ faults = 0 =>
             \/ occ[o] \in {"active", "gone"}
             \/ occ[o] = "pending" /\ act.pc = "update" /\ act.cur = o
             \/ occ[o] = "completed" /\ mon.pc \in {"look", "delete"} /\ mon.cur = o

(* Once the window of an occurrence is open, the monitor asks for no more  *)
(* placeholders than the reservation has, and for none below zero.         *)
TargetWithinCount ==
    mon.pc = "patch" =>
       \A o \in mon.still :
          /\ mon.target[o] >= 0
          /\ StartAt[o] <= mon.now => mon.target[o] <= Count[ResOf[o]]

(* room[o]: the sessions that make room at o.                              *)
Distributes(room, n, S, P) ==
    /\ \A o \in P : n[o] = Cardinality(room[o])
    /\ \A o, p \in P : o # p => room[o] \cap room[p] = {}
    /\ \A o \in P : \A s \in room[o] : o \in ByTemplate(s, P) \cup ByClass(s, P)
    /\ \A s \in S : ByClass(s, P) # {} => \E o \in P : s \in room[o]

(* A session makes room at one occurrence at most: there is a distribution *)
(* of the sessions over the active occurrences, each at one that it fits   *)
(* and none left out that has the resource class of one, of which the      *)
(* counts are the numbers.                                                 *)
SessionCountedOnce ==
    LET P == {o \in Occurrences : occ[o] = "active"}
    IN \A S \in SUBSET Sessions : \A n \in SessionCounts(S, P) :
          \E room \in [P -> SUBSET S] : Distributes(room, n, S, P)

(* Deployments whose occurrences were deleted disappear, all of them, even *)
(* after crashes and although the activation may create one after the      *)
(* deletion: a round that found the reservation creates it all the same.   *)
Orphan(n) == Exists(n) /\ ~HasRow(dep[n].occ)

OrphanRemoved ==
    (\E n \in Names : Orphan(n)) ~> (\A n \in Names : ~Orphan(n))

(* What is due is activated and later completed (or was deleted), unless   *)
(* something failed: a time comes when nothing is left to serve, although  *)
(* names collide, a conflict ends the round for every other occurrence     *)
(* too, and so does an occurrence or a deployment that is gone when the    *)
(* monitor gets to it.                                                     *)
DueIsServed ==
    (\E o \in Occurrences : occ[o] = "pending" /\ ActivateAt[o] <= clock)
       ~> (faults > 0 \/ \A o \in Occurrences : occ[o] \notin {"pending", "active"})
=============================================================================
