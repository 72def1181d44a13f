---------------------------- MODULE ProjectAuthz ----------------------------
(***************************************************************************)
(* One project: its row in Postgres and its relationships in SpiceDB.      *)
(* Requests write both under the decorator Authz.authz_change (run the     *)
(* operation, write the relationships, commit; on an exception roll back   *)
(* and write the inverse), the membership endpoints write the              *)
(* relationships only, and the task fix_mismatched_project_namespace_ids   *)
(* corrects them.                                                          *)
(***************************************************************************)
EXTENDS Integers, FiniteSets

CONSTANTS
    Requests,           \* requests on the project, each used at most once
    Users,              \* users that may be members
    UserNamespaces,
    GroupNamespaces,    \* a group has an id and its namespace has another
    MaxRepairs,         \* bound: relationships the repair task looks at
    MaxFaults           \* bound: failed calls, lost answers, dead requests

ASSUME ProjectAuthzAssumption ==
    /\ MaxRepairs \in Nat
    /\ MaxFaults \in Nat
    /\ UserNamespaces \cap GroupNamespaces = {}

VARIABLES
    db,      \* the committed row of the project
    rels,    \* the relationships of the project in SpiceDB
    req,     \* req[r]: the local state of request r
    repair,  \* the relationship the repair task is working on
    repairs, \* relationships it has looked at
    faults,  \* faults so far
    stale,   \* history, stale[r]: what others wrote since r read it
    clash    \* history: two writers disturbed each other, or one vanished

repairVars == <<repair, repairs>>
vars == <<db, rels, req, repairVars, faults, stale, clash>>

-----------------------------------------------------------------------------
(* Rows and relationships.                                                 *)

Namespaces == UserNamespaces \cup GroupNamespaces
Visibilities == {"public", "private"}

Project == [exists : {TRUE}, vis : Visibilities, ns : Namespaces]
NoProject == [exists |-> FALSE, vis |-> "private", ns |-> "none"]
Row == Project \cup {NoProject}

Roles == {"owner", "viewer"}

Owner(u) == <<"owner", u>>
Role(u, role) == <<role, u>>
RolesOf(u) == {Role(u, role) : role \in Roles}
MemberRels == UNION {RolesOf(u) : u \in Users}

(* All users and anonymous users are viewers: written in one call.         *)
PublicViewers == <<"public_viewer", "*">>
Platform == <<"project_platform", "*">>

(* The namespace a relationship points to, and by which id.                *)
InNamespace(n, id) == <<"project_namespace", [ns |-> n, id |-> id]>>
ByGroup == {InNamespace(n, id) : n \in GroupNamespaces,
                                 id \in {"group", "namespace"}}
NamespaceRels ==
    ByGroup \cup {InNamespace(n, "namespace") : n \in UserNamespaces}

(* The subject that permissions are evaluated on.                          *)
RightNamespace(n) ==
    InNamespace(n, IF n \in GroupNamespaces THEN "group" ELSE "namespace")

Rels == MemberRels \cup NamespaceRels \cup {PublicViewers, Platform}

(* WriteRelationships: TOUCH and DELETE, atomically.                       *)
Write == [touch : SUBSET Rels, delete : SUBSET Rels]
NoWrite == [touch |-> {}, delete |-> {}]
After(S, w) == (S \ w.delete) \cup w.touch
Atoms(w) == w.touch \cup w.delete

NoChange == [apply |-> NoWrite, undo |-> NoWrite]

(* Scope.DELETE, for a caller who has it through some relationship.        *)
Allowed ==
    \/ Platform \in rels
    \/ rels \cap NamespaceRels # {}
    \/ \E u \in Users : Owner(u) \in rels

(* kind: the operation; old: the row it first read (ProjectUpdate.old);    *)
(* want: the row with the patch applied; other: the patch changes another  *)
(* column; new: the row in its transaction (ProjectUpdate.new); wrote: it  *)
(* has written the row; change: its _AuthzChange.                          *)
Request ==
    [pc : {"new", "read", "written", "changed", "applied", "failed", "undo",
           "members", "done"},
     kind : {"none", "create", "update", "delete", "members"},
     old : Row, want : Row, new : Row, other : BOOLEAN, wrote : BOOLEAN,
     change : [apply : Write, undo : Write]]
NewRequest ==
    [pc |-> "new", kind |-> "none", old |-> NoProject, want |-> NoProject,
     new |-> NoProject, other |-> FALSE, wrote |-> FALSE, change |-> NoChange]
Ended == [NewRequest EXCEPT !.pc = "done"]

(* st "look": read from SpiceDB; "write": compared with Postgres.          *)
Repair == [st : {"idle", "look", "write"}, found : SUBSET ByGroup, write : Write]
Idle == [st |-> "idle", found |-> {}, write |-> NoWrite]

(* Mutant: the inverse of a creation forgets the owner.                    *)
AddedOwnerStays(u, p) ==
    LET S == {Platform, RightNamespace(p.ns)}
                \cup (IF p.vis = "public" THEN {PublicViewers} ELSE {})
    IN  [apply |-> [touch |-> S \cup {Owner(u)}, delete |-> {}],
         undo |-> [touch |-> {}, delete |-> S]]

(* _add_project.                                                           *)
Added(u, p) ==
    LET S == {Owner(u), Platform, RightNamespace(p.ns)}
                \cup (IF p.vis = "public" THEN {PublicViewers} ELSE {})
    IN  [apply |-> [touch |-> S, delete |-> {}],
         undo |-> [touch |-> {}, delete |-> S]]

Init ==
    /\ \/ db = NoProject /\ rels = {}
       \/ \E p \in Project, u \in Users :
             db = p /\ rels = Added(u, p).apply.touch
    /\ req = [r \in Requests |-> NewRequest]
    /\ repair = Idle
    /\ repairs = 0
    /\ faults = 0
    /\ stale = [r \in Requests |-> {}]
    /\ clash = FALSE

-----------------------------------------------------------------------------
(* Requests on the row.                                                    *)

(* The transaction of r holds the row lock until it commits or rolls back. *)
Locks(r) ==
    req[r].wrote /\ req[r].pc \in {"written", "changed", "applied", "failed"}
Unlocked == \A s \in Requests : ~Locks(s)

(* insert_project, to the flush; no other request knows the new id.        *)
Create(r) ==
    /\ db = NoProject
    /\ rels = {}
    /\ \A s \in Requests : req[s].pc = "new"
    /\ \E p \in Project :
          req' = [req EXCEPT ![r] = [NewRequest EXCEPT
                    !.pc = "written", !.kind = "create", !.new = p,
                    !.wrote = TRUE]]
    /\ UNCHANGED <<db, rels, repairVars, faults, stale, clash>>

(* update_project and delete_project: the row is read without a lock.      *)
Look(r) ==
    /\ req[r].pc = "new"
    /\ db.exists
    /\ Allowed
    /\ \E kind \in {"update", "delete"}, p \in Project, other \in BOOLEAN :
          /\ kind = "delete" => p = db /\ ~other
          /\ req' = [req EXCEPT ![r] = [NewRequest EXCEPT
                       !.pc = "read", !.kind = kind, !.old = db, !.want = p,
                       !.other = other]]
    /\ UNCHANGED <<db, rels, repairVars, faults, stale, clash>>

(* Mutant: the row lock is not waited for.                                 *)
PatchAtOnce(r) ==
    /\ req[r].pc = "read"
    /\ req[r].kind = "update"
    /\ req[r].want # req[r].old \/ req[r].other
    /\ db.exists
    /\ LET q == req[r]
           vis == IF q.want.vis # q.old.vis THEN q.want.vis ELSE db.vis
           ns == IF q.want.ns # q.old.ns THEN q.want.ns ELSE db.ns
       IN  req' = [req EXCEPT ![r].pc = "written", ![r].wrote = TRUE,
                              ![r].new = [db EXCEPT !.vis = vis, !.ns = ns]]
    /\ UNCHANGED <<db, rels, repairVars, faults, stale, clash>>

(* Mutant: the flush sends the whole row, as read and patched.             *)
PatchAll(r) ==
    /\ req[r].pc = "read"
    /\ req[r].kind = "update"
    /\ req[r].want # req[r].old \/ req[r].other
    /\ Unlocked
    /\ db.exists
    /\ req' = [req EXCEPT ![r].pc = "written", ![r].wrote = TRUE,
                          ![r].new = req[r].want]
    /\ UNCHANGED <<db, rels, repairVars, faults, stale, clash>>

(* The flush sends the columns that differ from the row that was read and  *)
(* waits for the row lock, the refresh reads the row again.                *)
Patch(r) ==
    /\ req[r].pc = "read"
    /\ req[r].kind = "update"
    /\ req[r].want # req[r].old \/ req[r].other
    /\ Unlocked
    /\ db.exists
    /\ LET q == req[r]
           vis == IF q.want.vis # q.old.vis THEN q.want.vis ELSE db.vis
           ns == IF q.want.ns # q.old.ns THEN q.want.ns ELSE db.ns
       IN  req' = [req EXCEPT ![r].pc = "written", ![r].wrote = TRUE,
                              ![r].new = [db EXCEPT !.vis = vis, !.ns = ns]]
    /\ UNCHANGED <<db, rels, repairVars, faults, stale, clash>>

(* A patch that changes nothing sends no UPDATE: no lock, and the refresh  *)
(* sees what others have committed since.                                  *)
PatchNothing(r) ==
    /\ req[r].pc = "read"
    /\ req[r].kind = "update"
    /\ req[r].want = req[r].old /\ ~req[r].other
    /\ db.exists
    /\ req' = [req EXCEPT ![r].pc = "written", ![r].new = db]
    /\ UNCHANGED <<db, rels, repairVars, faults, stale, clash>>

(* The DELETE waits for the lock, and finds the row or not.                *)
Delete(r) ==
    /\ req[r].pc = "read"
    /\ req[r].kind = "delete"
    /\ Unlocked
    /\ req' = [req EXCEPT ![r].pc = "written", ![r].wrote = db.exists]
    /\ UNCHANGED <<db, rels, repairVars, faults, stale, clash>>

(* A request is refused, conflicts, finds the row gone, or cannot stage    *)
(* its search document: an exception before there is an _AuthzChange.      *)
Fail(r) ==
    /\ req[r].pc \in {"read", "written"}
    /\ req' = [req EXCEPT ![r].pc = "failed"]
    /\ UNCHANGED <<db, rels, repairVars, faults, stale, clash>>

(* Mutant: a deletion has no inverse.                                      *)
RemovedForGood == [apply |-> [touch |-> {}, delete |-> rels],
                   undo |-> NoWrite]

(* _remove_project: everything SpiceDB has on the project.                 *)
Removed == [apply |-> [touch |-> {}, delete |-> rels],
            undo |-> [touch |-> rels, delete |-> {}]]

(* Mutant: the inverse of hiding a project hides it too.                   *)
VisibilityChangeStays(vis, public) ==
    LET show == [touch |-> {PublicViewers}, delete |-> {}]
        hide == [touch |-> {}, delete |-> {PublicViewers}]
    IN  CASE vis = "public" /\ ~public -> [apply |-> show, undo |-> hide]
          [] vis = "private" /\ public -> [apply |-> hide, undo |-> hide]
          [] OTHER -> NoChange

(* _update_project_visibility, given whether it finds the public viewers.  *)
VisibilityChange(vis, public) ==
    LET show == [touch |-> {PublicViewers}, delete |-> {}]
        hide == [touch |-> {}, delete |-> {PublicViewers}]
    IN  CASE vis = "public" /\ ~public -> [apply |-> show, undo |-> hide]
          [] vis = "private" /\ public -> [apply |-> hide, undo |-> show]
          [] OTHER -> NoChange

(* Mutant: every namespace is taken for a group.                           *)
NamespaceChangeToGroup(ns, current) ==
    IF current = InNamespace(ns, "group") THEN NoChange
    ELSE [apply |-> [touch |-> {InNamespace(ns, "group")}, delete |-> {}],
          undo |-> [touch |-> {current}, delete |-> {}]]

(* _update_project_namespace, given the first relationship it reads.  The  *)
(* new one carries the id of the namespace, also for a group.              *)
NamespaceChange(ns, current) ==
    IF current = InNamespace(ns, "namespace") THEN NoChange
    ELSE [apply |-> [touch |-> {InNamespace(ns, "namespace")}, delete |-> {}],
          undo |-> [touch |-> {current}, delete |-> {}]]

(* _AuthzChange.extend.                                                    *)
Merged(c, d) ==
    [apply |-> [touch |-> c.apply.touch \cup d.apply.touch,
                delete |-> c.apply.delete \cup d.apply.delete],
     undo |-> [touch |-> c.undo.touch \cup d.undo.touch,
               delete |-> c.undo.delete \cup d.undo.delete]]

VisibilityDiffers(r) == req[r].old.vis # req[r].new.vis
NamespaceDiffers(r) == req[r].old.ns # req[r].new.ns

(* What the change of a row request is computed from.                      *)
Uses(r) ==
    IF req[r].kind = "update"
    THEN (IF VisibilityDiffers(r) THEN {PublicViewers} ELSE {})
            \cup (IF NamespaceDiffers(r) THEN NamespaceRels ELSE {})
    ELSE Rels

(* Another request has rolled back and its inverse is still to come: it    *)
(* changes some of the relationships S after they were read.               *)
AboutToBeUndone(S) ==
    \E s \in Requests :
       req[s].pc = "undo" /\ Atoms(req[s].change.undo) \cap S # {}

(* The change of r is computed from the relationships as they are now.     *)
Decided(r, c) ==
    /\ req' = [req EXCEPT ![r].pc = "changed", ![r].change = c]
    /\ stale' = [stale EXCEPT ![r] = {}]
    /\ UNCHANGED <<db, rels, repairVars>>

DecideCreate(r) ==
    /\ req[r].pc = "written"
    /\ req[r].kind = "create"
    /\ \E u \in Users : Decided(r, Added(u, req[r].new))
    /\ UNCHANGED <<faults, clash>>

DecideDelete(r) ==
    /\ req[r].pc = "written"
    /\ req[r].kind = "delete"
    /\ Allowed
    /\ Decided(r, Removed)
    /\ clash' = (clash \/ AboutToBeUndone(Uses(r)))
    /\ UNCHANGED faults

VisibilityChanges(r, public) ==
    IF VisibilityDiffers(r) THEN {VisibilityChange(req[r].new.vis, public)}
    ELSE {NoChange}

(* None if there is no relationship to a namespace: a ProgrammingError.    *)
NamespaceChanges(r) ==
    IF NamespaceDiffers(r)
    THEN {NamespaceChange(req[r].new.ns, a) : a \in rels \cap NamespaceRels}
    ELSE {NoChange}

DecideUpdate(r) ==
    /\ req[r].pc = "written"
    /\ req[r].kind = "update"
    /\ VisibilityDiffers(r) \/ NamespaceDiffers(r) => Allowed
    /\ \E v \in VisibilityChanges(r, PublicViewers \in rels),
          n \in NamespaceChanges(r) : Decided(r, Merged(v, n))
    /\ clash' = (clash \/ AboutToBeUndone(Uses(r)))
    /\ UNCHANGED faults

(* The public viewers are read without a consistency requirement: SpiceDB  *)
(* may answer from a revision of some seconds ago.                         *)
DecideOutdated(r) ==
    /\ req[r].pc = "written"
    /\ req[r].kind = "update"
    /\ VisibilityDiffers(r)
    /\ Allowed
    /\ faults < MaxFaults
    /\ \E v \in VisibilityChanges(r, PublicViewers \notin rels),
          n \in NamespaceChanges(r) : Decided(r, Merged(v, n))
    /\ faults' = faults + 1
    /\ clash' = TRUE

-----------------------------------------------------------------------------
(* Writing the relationships.                                              *)

(* r still relies on what it read.                                         *)
InFlight(r) ==
    req[r].pc \in {"changed", "applied", "failed", "undo", "members"}

(* The relationships are written, the requests in T are disturbed.         *)
Written(w, T) ==
    /\ rels' = After(rels, w)
    /\ stale' = [s \in Requests |->
                   IF s \in T THEN stale[s] \cup Atoms(w) ELSE stale[s]]

(* Holders of the row lock are not meant to disturb each other.            *)
Sent(r, w) ==
    Written(w, {s \in Requests \ {r} : InFlight(s) /\ ~(Locks(r) /\ Locks(s))})

(* What r read has been written by somebody else since.                    *)
Disturbed(r) ==
    stale[r] \cap (IF req[r].kind = "members" THEN MemberRels ELSE Uses(r)) # {}

Apply(r) ==
    /\ req[r].pc = "changed"
    /\ Sent(r, req[r].change.apply)
    /\ clash' = \/ clash
                \/ Disturbed(r)
                \/ ~req[r].wrote /\ Atoms(req[r].change.apply) # {}
    /\ req' = [req EXCEPT ![r].pc = "applied"]
    /\ UNCHANGED <<db, repairVars, faults>>

(* The call raises, and was carried out or not.                            *)
ApplyFails(r) ==
    /\ req[r].pc = "changed"
    /\ faults < MaxFaults
    /\ faults' = faults + 1
    /\ \E w \in {NoWrite, req[r].change.apply} : Sent(r, w)
    /\ clash' = \/ clash
                \/ Disturbed(r)
                \/ ~req[r].wrote /\ Atoms(req[r].change.apply) # {}
    /\ req' = [req EXCEPT ![r].pc = "failed"]
    /\ UNCHANGED <<db, repairVars>>

CommittedRow(r) == IF req[r].wrote THEN req[r].new ELSE db

Commit(r) ==
    /\ req[r].pc = "applied"
    /\ db' = CommittedRow(r)
    /\ clash' = (clash \/ Disturbed(r))
    /\ req' = [req EXCEPT ![r] = Ended]
    /\ UNCHANGED <<rels, repairVars, faults, stale>>

CommitFails(r) ==
    /\ req[r].pc = "applied"
    /\ faults < MaxFaults
    /\ faults' = faults + 1
    /\ req' = [req EXCEPT ![r].pc = "failed"]
    /\ UNCHANGED <<db, rels, repairVars, stale, clash>>

(* Postgres commits, the answer is lost: the caller takes it for a failure *)
(* and writes the inverse.                                                 *)
CommitLost(r) ==
    /\ req[r].pc = "applied"
    /\ faults < MaxFaults
    /\ faults' = faults + 1
    /\ db' = CommittedRow(r)
    /\ req' = [req EXCEPT ![r].pc = "failed", ![r].wrote = FALSE]
    /\ clash' = TRUE
    /\ UNCHANGED <<rels, repairVars, stale>>

(* An error of the rollback is kept for later; the transaction is over.    *)
Rollback(r) ==
    /\ req[r].pc = "failed"
    /\ req' = [req EXCEPT ![r].pc = "undo"]
    /\ UNCHANGED <<db, rels, repairVars, faults, stale, clash>>

Undo(r) ==
    /\ req[r].pc = "undo"
    /\ Sent(r, req[r].change.undo)
    /\ clash' = \/ clash
                \/ Disturbed(r) /\ Atoms(req[r].change.undo) # {}
    /\ req' = [req EXCEPT ![r] = Ended]
    /\ UNCHANGED <<db, repairVars, faults>>

UndoFails(r) ==
    /\ req[r].pc = "undo"
    /\ faults < MaxFaults
    /\ faults' = faults + 1
    /\ clash' = TRUE
    /\ req' = [req EXCEPT ![r] = Ended]
    /\ UNCHANGED <<db, rels, repairVars, stale>>

(* The process is killed or the handler cancelled (CancelledError is not   *)
(* an Exception): Postgres rolls back, nobody writes the inverse.  A call  *)
(* under way is carried out or not.                                        *)
Die(r) ==
    /\ req[r].pc \notin {"new", "done"}
    /\ faults < MaxFaults
    /\ faults' = faults + 1
    /\ LET pending == IF req[r].pc = "undo" THEN req[r].change.undo
                      ELSE IF req[r].pc \in {"changed", "members"}
                      THEN req[r].change.apply ELSE NoWrite
       IN  \E w \in {NoWrite, pending} : Sent(r, w)
    /\ clash' = (clash \/ req[r].change # NoChange)
    /\ req' = [req EXCEPT ![r] = Ended]
    /\ UNCHANGED <<db, repairVars>>

-----------------------------------------------------------------------------
(* The members of the project: SpiceDB only, read first, written later.    *)

Owners == {u \in Users : Owner(u) \in rels}

MembersRead(r, w) ==
    /\ req[r].pc = "new"
    /\ db.exists
    /\ Allowed
    /\ req' = [req EXCEPT ![r] = [NewRequest EXCEPT
                 !.pc = "members", !.kind = "members",
                 !.change = [apply |-> w, undo |-> NoWrite]]]
    /\ stale' = [stale EXCEPT ![r] = {}]
    /\ clash' = (clash \/ AboutToBeUndone(MemberRels))
    /\ UNCHANGED <<db, rels, repairVars, faults>>

(* Mutant: the last owner may go.                                          *)
RemoveAnyMembers(r, S) ==
    MembersRead(r, [touch |-> {},
                    delete |-> rels \cap UNION {RolesOf(u) : u \in S}])

(* remove_project_members refuses to remove the last owner.                *)
RemoveMembers(r, S) ==
    /\ Owners # {} => ~(Owners \subseteq S)
    /\ MembersRead(r, [touch |-> {},
                       delete |-> rels \cap UNION {RolesOf(u) : u \in S}])

(* upsert_project_members for one member.  Extra roles of a user who has   *)
(* the requested one are removed, and not counted.                         *)
UpsertMember(r, u, role) ==
    LET asked == Role(u, role)
        present == rels \cap RolesOf(u)
        owners == IF asked \in present THEN Owners
                  ELSE IF asked = Owner(u) THEN Owners \cup {u}
                  ELSE Owners \ {u}
    IN  /\ owners # {}
        /\ MembersRead(r, [touch |-> {asked} \ present,
                           delete |-> present \ {asked}])

WriteMembers(r) ==
    /\ req[r].pc = "members"
    /\ Sent(r, req[r].change.apply)
    /\ clash' = (clash \/ Disturbed(r))
    /\ req' = [req EXCEPT ![r] = Ended]
    /\ UNCHANGED <<db, repairVars, faults>>

-----------------------------------------------------------------------------
(* fix_mismatched_project_namespace_ids, one relationship at a time.       *)

RepairFind ==
    /\ repair = Idle
    /\ repairs < MaxRepairs
    /\ repairs' = repairs + 1
    /\ \E a \in rels \cap ByGroup :
          repair' = [st |-> "look", found |-> {a}, write |-> NoWrite]
    /\ UNCHANGED <<db, rels, req, faults, stale, clash>>

(* What the task writes for the relationships in S if the row is p.        *)
Correction(S, p) ==
    IF ~p.exists THEN [touch |-> {}, delete |-> S]
    ELSE IF p.ns \in UserNamespaces \/ S = {RightNamespace(p.ns)} THEN NoWrite
    ELSE [touch |-> {RightNamespace(p.ns)}, delete |-> S]

(* get_project sees the committed row.                                     *)
RepairLook ==
    /\ repair.st = "look"
    /\ LET w == Correction(repair.found, db)
       IN  repair' = IF w = NoWrite THEN Idle
                     ELSE [repair EXCEPT !.st = "write", !.write = w]
    /\ UNCHANGED <<db, rels, req, repairs, faults, stale, clash>>

RepairWrite ==
    /\ repair.st = "write"
    /\ Written(repair.write, {s \in Requests : InFlight(s)})
    /\ clash' = (clash \/ Correction(repair.found, db) # repair.write)
    /\ repair' = Idle
    /\ UNCHANGED <<db, req, repairs, faults>>

-----------------------------------------------------------------------------

Step(r) ==
    \/ Create(r)
    \/ Look(r)
    \/ Patch(r)
    \/ PatchNothing(r)
    \/ Delete(r)
    \/ Fail(r)
    \/ DecideCreate(r)
    \/ DecideDelete(r)
    \/ DecideUpdate(r)
    \/ DecideOutdated(r)
    \/ Apply(r)
    \/ ApplyFails(r)
    \/ Commit(r)
    \/ CommitFails(r)
    \/ CommitLost(r)
    \/ Rollback(r)
    \/ Undo(r)
    \/ UndoFails(r)
    \/ Die(r)
    \/ \E S \in SUBSET Users \ {{}} : RemoveMembers(r, S)
    \/ \E u \in Users, role \in Roles : UpsertMember(r, u, role)
    \/ WriteMembers(r)

RepairStep == RepairFind \/ RepairLook \/ RepairWrite

Next == (\E r \in Requests : Step(r)) \/ RepairStep

Spec == Init /\ [][Next]_vars

-----------------------------------------------------------------------------
(* Properties.                                                             *)

TypeOK ==
    /\ db \in Row
    /\ rels \in SUBSET Rels
    /\ req \in [Requests -> Request]
    /\ repair \in Repair
    /\ repairs \in Nat
    /\ faults \in Nat
    /\ stale \in [Requests -> SUBSET Rels]
    /\ clash \in BOOLEAN

(* No patch takes back what another one has committed: in the columns that *)
(* a patch does not change, the row it is about to commit is at every      *)
(* moment the committed row, although the patch was computed from a row    *)
(* read before the lock, and requests wait, fail and die in any order.     *)
NoLostPatch ==
    \A r \in Requests : Locks(r) /\ req[r].kind = "update" =>
       LET q == req[r] IN
       /\ db.exists
       /\ q.new.vis = IF q.want.vis = q.old.vis THEN db.vis ELSE q.want.vis
       /\ q.new.ns = IF q.want.ns = q.old.ns THEN db.ns ELSE q.want.ns

Deleting ==
    \E r \in Requests :
       req[r].kind = "delete" /\ req[r].pc \in {"applied", "failed", "undo"}

(* A committed project has its relationship to the platform and to the     *)
(* namespace it is in (by either id), at every moment, also while other    *)
(* requests fail and are undone.  The order "write relationships, then     *)
(* commit" of authz_change is there for this; a delete has the same order, *)
(* so while it is under way the project stands without relationships.      *)
HasAuthz ==
    db.exists /\ ~clash /\ ~Deleting =>
       /\ Platform \in rels
       /\ \E id \in {"group", "namespace"} : InNamespace(db.ns, id) \in rels

(* A project keeps an owner through any sequence of changes of its members *)
(* and of failed creations and deletions, as long as no two of them that   *)
(* read the same members write one after the other.                        *)
KeepsOwner == db.exists /\ ~clash /\ ~Deleting => Owners # {}

Quiet == repair = Idle /\ \A r \in Requests : ~InFlight(r)

(* When nothing is under way SpiceDB shows the project to everybody if and *)
(* only if its row is public.                                              *)
VisibilityAgrees ==
    db.exists /\ ~clash /\ Quiet =>
       (PublicViewers \in rels <=> db.vis = "public")

(* Neither a failed creation nor a deletion leaves a relationship.         *)
NothingLeft == ~db.exists /\ ~clash /\ Quiet => rels = {}

Undone(c) == After(After(rels, c.apply), c.undo) = rels

(* The inverse that authz_change keeps for a creation, a deletion or a     *)
(* change of visibility restores what was there.                           *)
UndoRestores ==
    \A r \in Requests :
       req[r].pc = "changed" /\ stale[r] = {} /\ ~clash
          /\ ~NamespaceDiffers(r) => Undone(req[r].change)

(* The docstring of _AuthzChange: "Sending the apply and undo              *)
(* relationships to the database must always be the equivalent of a no-op."*)
UndoIsNoOp ==
    \A r \in Requests :
       req[r].pc = "changed" /\ stale[r] = {} => Undone(req[r].change)

(* The API specification of PATCH /projects/{id}, "If-Match header, for    *)
(* avoiding mid-air collisions": a patch replaces the row it matched.      *)
ReplacesMatchedRow ==
    \A r \in Requests :
       Locks(r) /\ req[r].kind = "update" => db = req[r].old

=============================================================================
