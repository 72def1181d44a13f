------------------------- MODULE ProjectAuthzProofs -------------------------
(***************************************************************************)
(* Proofs about ProjectAuthz for any sets of requests, users and           *)
(* namespaces and any bounds.                                              *)
(***************************************************************************)
EXTENDS ProjectAuthz, TLAPS

-----------------------------------------------------------------------------
(* The inductive invariant.                                                *)

(* What a request has in hand at each point of its way.                    *)
ShapeOf(q) ==
    /\ q.pc \in {"new", "read", "members", "done"} => ~q.wrote
    /\ q.pc \in {"new", "read", "written"} => q.change = NoChange
    /\ q.pc \in {"new", "members", "done"} => q.kind \in {"none", "members"}
    /\ q.pc = "read" => q.kind \in {"update", "delete"}
    /\ q.pc \in {"written", "changed", "applied"} =>
          q.kind \in {"create", "update", "delete"}
    /\ q.kind = "create" /\ q.pc \in {"written", "changed", "applied"} => q.wrote
    /\ q.kind = "update" => q.want \in Project
    /\ q.kind \in {"create", "update"} /\ q.wrote => q.new \in Project
    /\ q.kind = "update" /\ q.pc = "written" => q.new \in Project
    /\ q.kind = "delete" => q.new = NoProject
    /\ q.wrote => q.kind \in {"create", "update", "delete"}

Shape == \A r \in Requests : ShapeOf(req[r])

(* The row lock has one holder.                                            *)
OneLock == \A r, s \in Requests : Locks(r) /\ Locks(s) => r = s

(* Nobody knows a project before its creation is committed.                *)
Alone ==
    \A r \in Requests : req[r].kind = "create" /\ req[r].wrote =>
       /\ db = NoProject
       /\ \A s \in Requests \ {r} : req[s].pc = "new"

(* A deletion that holds the lock found a row.                             *)
FoundRow ==
    \A r \in Requests : Locks(r) /\ req[r].kind = "delete" => db.exists

LockInv == Shape /\ OneLock /\ Alone /\ FoundRow /\ NoLostPatch

(* The relationships that a project p needs are in the set S.              *)
HasNamespace(p, S) ==
    \E id \in {"group", "namespace"} : InNamespace(p.ns, id) \in S
HasOwner(S) == \E u \in Users : Owner(u) \in S
Complete(p, S) == Platform \in S /\ HasNamespace(p, S) /\ HasOwner(S)

(* Nobody has two roles.                                                   *)
OneRole(S) ==
    \A u \in Users : Role(u, "owner") \notin S \/ Role(u, "viewer") \notin S

(* What deletions under way removed and may put back.                      *)
MayRestore(r) ==
    req[r].kind = "delete" /\ req[r].pc \in {"applied", "failed", "undo"}
Restorable ==
    UNION {req[r].change.undo.touch : r \in {s \in Requests : MayRestore(s)}}
Kept == rels \cup Restorable

(* The kinds of relationships a change writes.                             *)
ChangeOK(q) ==
    /\ q.kind = "create" => q.change.apply.delete = {} /\ q.change.undo.touch = {}
    /\ q.kind = "update" =>
          /\ q.change.apply.delete \subseteq {PublicViewers}
          /\ q.change.undo.delete \subseteq {PublicViewers}
          /\ (q.change.apply.touch \cup q.change.undo.touch) \cap MemberRels = {}
    /\ q.kind = "delete" =>
          /\ q.change.apply.touch = {}
          /\ q.change.apply.delete \subseteq q.change.undo.touch
          /\ q.change.undo.delete = {}
    /\ q.kind \in {"none", "members"} =>
          /\ Atoms(q.change.apply) \subseteq MemberRels
          /\ q.change.undo = NoWrite

(* A creation gives up the lock by undoing only, and a deletion that found *)
(* no row has no project to restore.                                       *)
Created(r) == req[r].kind = "create" => req[r].wrote
Gone(r) ==
    /\ req[r].kind = "delete"
    /\ ~req[r].wrote
    /\ req[r].pc = "written" \/ req[r].change # NoChange
    => ~db.exists

(* What a request is about to commit is complete, unless somebody else has *)
(* written what it relies on.                                              *)
CreateReady(r) ==
    req[r].kind = "create" =>
       /\ req[r].pc \in {"written", "changed"} => rels \cap MemberRels = {}
       /\ req[r].pc = "changed" =>
             /\ Complete(req[r].new, req[r].change.apply.touch)
             /\ OneRole(req[r].change.apply.touch)
       /\ req[r].pc = "applied" =>
             \/ Complete(req[r].new, rels)
             \/ stale[r] # {}

UpdateReady(r) ==
    req[r].kind = "update" /\ req[r].wrote /\ NamespaceDiffers(r) =>
       LET moved == InNamespace(req[r].new.ns, "namespace") IN
       /\ req[r].pc = "changed" =>
             \/ moved \in rels \cup req[r].change.apply.touch
             \/ stale[r] \cap NamespaceRels # {}
       /\ req[r].pc = "applied" =>
             \/ moved \in rels
             \/ stale[r] \cap NamespaceRels # {}

DeleteReady(r) ==
    req[r].kind = "delete" /\ InFlight(r) =>
       \/ OneRole(rels \cup req[r].change.undo.touch)
       \/ stale[r] # {}

MembersReady(r) ==
    req[r].pc = "members" =>
       \/ stale[r] \cap MemberRels # {}
       \/ /\ db.exists => HasOwner(After(rels, req[r].change.apply) \cup Restorable)
          /\ OneRole(After(rels, req[r].change.apply))

Ready(r) ==
    /\ ChangeOK(req[r])
    /\ Created(r)
    /\ Gone(r)
    /\ CreateReady(r)
    /\ UpdateReady(r)
    /\ DeleteReady(r)
    /\ MembersReady(r)

(* Until there is a clash a committed project has what it needs, in        *)
(* SpiceDB or in the inverse of a deletion under way.                      *)
AuthzInv ==
    clash \/ /\ OneRole(rels)
             /\ db.exists => Complete(db, Kept)
             /\ \A r \in Requests : Ready(r)

-----------------------------------------------------------------------------
(* Relationships and changes.                                              *)

Change == [apply : Write, undo : Write]

(* The relationships the code writes are relationships of a project.       *)
LEMMA RelTypes ==
  /\ MemberRels \subseteq Rels /\ NamespaceRels \subseteq Rels
  /\ ByGroup \subseteq NamespaceRels
  /\ Platform \in Rels /\ PublicViewers \in Rels
  /\ \A n \in Namespaces : /\ InNamespace(n, "namespace") \in NamespaceRels
                           /\ RightNamespace(n) \in NamespaceRels
  /\ \A u \in Users : /\ RolesOf(u) \subseteq MemberRels
                      /\ Owner(u) \in RolesOf(u)
  /\ \A u \in Users, role \in Roles : Role(u, role) \in RolesOf(u)
<1>1. \A u \in Users : RolesOf(u) \subseteq MemberRels
  BY DEF MemberRels
<1>2. \A u \in Users : Owner(u) \in RolesOf(u)
  BY DEF RolesOf, Owner, Role, Roles
<1>3. \A u \in Users, role \in Roles : Role(u, role) \in RolesOf(u)
  BY DEF RolesOf
<1>4. \A n \in Namespaces : InNamespace(n, "namespace") \in NamespaceRels
  BY DEF Namespaces, NamespaceRels, ByGroup
<1>5. \A n \in Namespaces : RightNamespace(n) \in NamespaceRels
  BY <1>4 DEF RightNamespace, Namespaces, NamespaceRels, ByGroup
<1>6. QED
  BY <1>1, <1>2, <1>3, <1>4, <1>5 DEF Rels, NamespaceRels

(* Members, namespaces, public viewers and the platform are told apart.    *)
LEMMA RelKinds ==
  /\ Platform \notin MemberRels \cup NamespaceRels \cup {PublicViewers}
  /\ PublicViewers \notin MemberRels \cup NamespaceRels
  /\ MemberRels \cap NamespaceRels = {}
<1>1. \A a \in MemberRels : a[1] \in {"owner", "viewer"}
  BY DEF MemberRels, RolesOf, Role, Roles
<1>2. \A a \in NamespaceRels : a[1] = "project_namespace"
  BY DEF NamespaceRels, ByGroup, InNamespace
<1>3. Platform[1] = "project_platform" /\ PublicViewers[1] = "public_viewer"
  BY DEF Platform, PublicViewers
<1>4. QED
  BY <1>1, <1>2, <1>3

LEMMA AfterType ==
  ASSUME NEW S \in SUBSET Rels, NEW w \in Write
  PROVE  After(S, w) \in SUBSET Rels
BY DEF After, Write

LEMMA WriteType ==
  ASSUME NEW S \in SUBSET Rels, NEW T \in SUBSET Rels
  PROVE  [touch |-> S, delete |-> T] \in Write
BY DEF Write

LEMMA NoChangeType == NoWrite \in Write /\ NoChange \in Change
BY DEF NoWrite, NoChange, Write, Change

LEMMA ChangeType ==
  ASSUME NEW v \in Write, NEW w \in Write
  PROVE  [apply |-> v, undo |-> w] \in Change
BY DEF Change

LEMMA AddedType ==
  ASSUME NEW u \in Users, NEW p \in Project
  PROVE  Added(u, p) \in Change
<1> DEFINE S == {Owner(u), Platform, RightNamespace(p.ns)}
                   \cup (IF p.vis = "public" THEN {PublicViewers} ELSE {})
<1>1. p.ns \in Namespaces
  BY DEF Project
<1>2. S \in SUBSET Rels
  BY <1>1, RelTypes
<1>3. [touch |-> S, delete |-> {}] \in Write /\ [touch |-> {}, delete |-> S] \in Write
  BY <1>2, WriteType
<1>4. Added(u, p) = [apply |-> [touch |-> S, delete |-> {}],
                     undo |-> [touch |-> {}, delete |-> S]]
  BY DEF Added
<1>5. QED
  BY <1>3, <1>4, ChangeType

LEMMA RemovedType ==
  ASSUME rels \in SUBSET Rels
  PROVE  Removed \in Change
BY WriteType, ChangeType DEF Removed

LEMMA VisibilityChangeType ==
  ASSUME NEW vis \in Visibilities, NEW public
  PROVE  VisibilityChange(vis, public) \in Change
<1>1. /\ [touch |-> {PublicViewers}, delete |-> {}] \in Write
      /\ [touch |-> {}, delete |-> {PublicViewers}] \in Write
  BY RelTypes, WriteType
<1>2. QED
  BY <1>1, ChangeType, NoChangeType DEF VisibilityChange

LEMMA NamespaceChangeType ==
  ASSUME NEW n \in Namespaces, NEW a \in NamespaceRels
  PROVE  NamespaceChange(n, a) \in Change
<1>1. /\ [touch |-> {InNamespace(n, "namespace")}, delete |-> {}] \in Write
      /\ [touch |-> {a}, delete |-> {}] \in Write
  BY RelTypes, WriteType
<1>2. QED
  BY <1>1, ChangeType, NoChangeType DEF NamespaceChange

LEMMA MergedType ==
  ASSUME NEW c \in Change, NEW d \in Change
  PROVE  Merged(c, d) \in Change
BY DEF Merged, Change, Write

(* A row of the table is a project.                                        *)
LEMMA RowKinds ==
  /\ ~NoProject.exists
  /\ \A p \in Project : p.exists /\ p.vis \in Visibilities /\ p.ns \in Namespaces
  /\ \A p \in Row : p.exists => p \in Project
  /\ \A p \in Row : ~p.exists => p = NoProject
  /\ \A p \in Row : p.exists \in BOOLEAN
<1>1. NoProject.exists = FALSE
  BY DEF NoProject
<1>2. \A p \in Project : p.exists = TRUE
  BY DEF Project
<1>3. \A p \in Project : p.vis \in Visibilities /\ p.ns \in Namespaces
  BY DEF Project
<1>4. \A p \in Row : p \in Project \/ p = NoProject
  BY DEF Row
<1>5. QED
  BY <1>1, <1>2, <1>3, <1>4, Zenon

LEMMA CorrectionType ==
  ASSUME NEW S \in SUBSET ByGroup, NEW p \in Row
  PROVE  Correction(S, p) \in Write
<1>1. S \in SUBSET Rels
  BY RelTypes
<1>2. CASE ~p.exists
  BY <1>1, <1>2, WriteType DEF Correction
<1>3. CASE p.exists
  <2>1. p.ns \in Namespaces
    BY <1>3, RowKinds
  <2>2. {RightNamespace(p.ns)} \in SUBSET Rels
    BY <2>1, RelTypes
  <2>3. QED
    BY <1>1, <1>3, <2>2, WriteType, NoChangeType DEF Correction
<1>4. QED
  BY <1>2, <1>3

-----------------------------------------------------------------------------
(* Type correctness.                                                       *)

LEMMA WrittenType ==
  ASSUME TypeOK, NEW w \in Write, NEW T, Written(w, T)
  PROVE  rels' \in SUBSET Rels /\ stale' \in [Requests -> SUBSET Rels]
<1>1. rels' \in SUBSET Rels
  BY AfterType DEF TypeOK, Written
<1>2. Atoms(w) \in SUBSET Rels
  BY DEF Atoms, Write
<1>3. \A s \in Requests : stale[s] \in SUBSET Rels
  BY DEF TypeOK
<1>4. QED
  BY <1>1, <1>2, <1>3 DEF Written

LEMMA SentType ==
  ASSUME TypeOK, NEW r \in Requests, NEW w \in Write, Sent(r, w)
  PROVE  rels' \in SUBSET Rels /\ stale' \in [Requests -> SUBSET Rels]
BY WrittenType DEF Sent

LEMMA RequestTypes ==
  ASSUME TypeOK, NEW r \in Requests
  PROVE  /\ req[r] \in Request
         /\ req[r].change \in Change
         /\ req[r].change.apply \in Write
         /\ req[r].change.undo \in Write
         /\ req[r].new \in Row
BY DEF TypeOK, Request, Change

LEMMA NewRequestType == NewRequest \in Request /\ Ended \in Request
<1>1. NewRequest \in Request
  BY NoChangeType DEF NewRequest, Request, Row, Change
<1>2. QED
  BY <1>1 DEF Ended, Request

LEMMA DecidedType ==
  ASSUME TypeOK, NEW r \in Requests, NEW c \in Change, Decided(r, c)
  PROVE  /\ req' \in [Requests -> Request]
         /\ stale' \in [Requests -> SUBSET Rels]
<1>0. req[r] \in Request
  BY RequestTypes
<1>1. [req[r] EXCEPT !.pc = "changed", !.change = c] \in Request
  BY <1>0 DEF Request, Change
<1>2. req' = [req EXCEPT ![r] = [req[r] EXCEPT !.pc = "changed", !.change = c]]
  BY DEF Decided
<1>3. QED
  BY <1>1, <1>2 DEF TypeOK, Decided

(* A request moves on to another point of its way.                         *)
LEMMA MovedType ==
  ASSUME TypeOK, NEW r \in Requests,
         NEW p \in {"written", "changed", "applied", "failed", "undo"},
         req' = [req EXCEPT ![r].pc = p]
  PROVE  req' \in [Requests -> Request]
<1>1. [req[r] EXCEPT !.pc = p] \in Request
  BY RequestTypes DEF Request
<1>2. QED
  BY <1>1 DEF TypeOK

LEMMA EndedType ==
  ASSUME TypeOK, NEW r \in Requests, req' = [req EXCEPT ![r] = Ended]
  PROVE  req' \in [Requests -> Request]
BY NewRequestType DEF TypeOK

LEMMA MembersReadType ==
  ASSUME TypeOK, NEW r \in Requests, NEW w \in Write, MembersRead(r, w)
  PROVE  TypeOK'
<1> DEFINE q == [NewRequest EXCEPT !.pc = "members", !.kind = "members",
                                   !.change = [apply |-> w, undo |-> NoWrite]]
<1>1. [apply |-> w, undo |-> NoWrite] \in Change
  BY ChangeType, NoChangeType
<1>2. q \in Request
  BY <1>1, NewRequestType DEF Request, Change
<1>3. req' \in [Requests -> Request]
  <2>1. req' = [req EXCEPT ![r] = q]
    BY DEF MembersRead
  <2> HIDE DEF q
  <2>2. QED
    BY <1>2, <2>1 DEF TypeOK
<1>4. stale' \in [Requests -> SUBSET Rels]
  BY DEF TypeOK, MembersRead
<1>5. QED
  BY <1>3, <1>4 DEF TypeOK, MembersRead, repairVars

(* The change that DecideUpdate and DecideOutdated compute.                *)
LEMMA UpdateChangeType ==
  ASSUME TypeOK, Shape, NEW r \in Requests, NEW public,
         req[r].pc = "written", req[r].kind = "update",
         NEW v \in VisibilityChanges(r, public), NEW n \in NamespaceChanges(r)
  PROVE  Merged(v, n) \in Change
<1>1. req[r].new \in Project
  BY DEF Shape, ShapeOf
<1>2. v \in Change
  BY <1>1, VisibilityChangeType, NoChangeType, RowKinds DEF VisibilityChanges
<1>3. n \in Change
  BY <1>1, NamespaceChangeType, NoChangeType, RowKinds DEF NamespaceChanges
<1>4. QED
  BY <1>2, <1>3, MergedType

(* Every action keeps the types.                                           *)
LEMMA TypeStep == TypeOK /\ Shape /\ [Next]_vars => TypeOK'
<1> SUFFICES ASSUME TypeOK, Shape, [Next]_vars PROVE TypeOK'
  OBVIOUS
<1>1. ASSUME NEW r \in Requests, Step(r) PROVE TypeOK'
  <2> USE ProjectAuthzAssumption
  <2>1. CASE Create(r)
    <3>1. PICK p \in Project :
             req' = [req EXCEPT ![r] = [NewRequest EXCEPT
                       !.pc = "written", !.kind = "create", !.new = p,
                       !.wrote = TRUE]]
      BY <2>1 DEF Create
    <3>2. [NewRequest EXCEPT !.pc = "written", !.kind = "create", !.new = p,
                             !.wrote = TRUE] \in Request
      BY NewRequestType DEF Request, Row
    <3>3. QED
      BY <2>1, <3>1, <3>2 DEF TypeOK, Create, repairVars
  <2>2. CASE Look(r)
    <3>1. PICK kind \in {"update", "delete"}, p \in Project, other \in BOOLEAN :
             req' = [req EXCEPT ![r] = [NewRequest EXCEPT
                       !.pc = "read", !.kind = kind, !.old = db, !.want = p,
                       !.other = other]]
      BY <2>2 DEF Look
    <3>2. [NewRequest EXCEPT !.pc = "read", !.kind = kind, !.old = db,
                             !.want = p, !.other = other] \in Request
      BY NewRequestType DEF Request, Row, TypeOK
    <3>3. QED
      BY <2>2, <3>1, <3>2 DEF TypeOK, Look, repairVars
  <2>3. CASE Patch(r)
    <3> DEFINE q == req[r]
               vis == IF q.want.vis # q.old.vis THEN q.want.vis ELSE db.vis
               ns == IF q.want.ns # q.old.ns THEN q.want.ns ELSE db.ns
               new == [db EXCEPT !.vis = vis, !.ns = ns]
    <3>1. db \in Project /\ q.want \in Project
      BY <2>3, RowKinds DEF TypeOK, Patch, Shape, ShapeOf
    <3>2. new \in Project
      BY <3>1 DEF Project
    <3>3. [q EXCEPT !.pc = "written", !.wrote = TRUE, !.new = new] \in Request
      <4>1. q \in Request /\ new \in Row
        BY <3>2, RequestTypes DEF Row
      <4> HIDE DEF q, new
      <4>2. QED
        BY <4>1 DEF Request
    <3>4. req' = [req EXCEPT ![r] = [q EXCEPT !.pc = "written", !.wrote = TRUE,
                                              !.new = new]]
      BY <2>3 DEF Patch
    <3> HIDE DEF q, new
    <3> DEFINE moved == [q EXCEPT !.pc = "written", !.wrote = TRUE, !.new = new]
    <3> HIDE DEF moved
    <3>5. req' \in [Requests -> Request]
      BY <3>3, <3>4 DEF TypeOK, moved
    <3>6. UNCHANGED <<db, rels, repair, repairs, faults, stale, clash>>
      BY <2>3 DEF Patch, repairVars
    <3>7. QED
      BY <3>5, <3>6 DEF TypeOK
  <2>4. CASE PatchNothing(r)
    <3>0. req[r] \in Request /\ db \in Row
      BY RequestTypes DEF TypeOK
    <3>1. [req[r] EXCEPT !.pc = "written", !.new = db] \in Request
      BY <3>0 DEF Request
    <3>2. QED
      BY <2>4, <3>1 DEF TypeOK, PatchNothing, repairVars
  <2>5. CASE Delete(r)
    <3>1. db.exists \in BOOLEAN
      BY RowKinds DEF TypeOK
    <3>2. [req[r] EXCEPT !.pc = "written", !.wrote = db.exists] \in Request
      BY <3>1, RequestTypes DEF Request
    <3>3. QED
      BY <2>5, <3>2 DEF TypeOK, Delete, repairVars
  <2>6. CASE Fail(r)
    BY <2>6, MovedType DEF TypeOK, Fail, repairVars
  <2>7. CASE DecideCreate(r)
    <3>1. req[r].new \in Project
      BY <2>7 DEF DecideCreate, Shape, ShapeOf
    <3>2. PICK u \in Users : Decided(r, Added(u, req[r].new))
      BY <2>7 DEF DecideCreate
    <3>3. QED
      BY <2>7, <3>1, <3>2, AddedType, DecidedType
         DEF TypeOK, DecideCreate, Decided, repairVars
  <2>8. CASE DecideDelete(r)
    <3>1. Removed \in Change
      BY RemovedType DEF TypeOK
    <3>2. QED
      BY <2>8, <3>1, DecidedType DEF TypeOK, DecideDelete, Decided, repairVars
  <2>9. CASE DecideUpdate(r)
    <3>1. PICK v \in VisibilityChanges(r, PublicViewers \in rels),
               n \in NamespaceChanges(r) : Decided(r, Merged(v, n))
      BY <2>9 DEF DecideUpdate
    <3>2. Merged(v, n) \in Change
      BY <2>9, UpdateChangeType DEF DecideUpdate
    <3>3. QED
      BY <2>9, <3>1, <3>2, DecidedType
         DEF TypeOK, DecideUpdate, Decided, repairVars
  <2>10. CASE DecideOutdated(r)
    <3>1. PICK v \in VisibilityChanges(r, PublicViewers \notin rels),
               n \in NamespaceChanges(r) : Decided(r, Merged(v, n))
      BY <2>10 DEF DecideOutdated
    <3>2. Merged(v, n) \in Change
      BY <2>10, UpdateChangeType DEF DecideOutdated
    <3>3. faults' \in Nat
      BY <2>10 DEF TypeOK, DecideOutdated
    <3>4. QED
      BY <2>10, <3>1, <3>2, <3>3, DecidedType
         DEF TypeOK, DecideOutdated, Decided, repairVars
  <2>11. CASE Apply(r)
    BY <2>11, RequestTypes, SentType, MovedType DEF TypeOK, Apply, repairVars
  <2>12. CASE ApplyFails(r)
    <3>1. PICK w \in {NoWrite, req[r].change.apply} : Sent(r, w)
      BY <2>12 DEF ApplyFails
    <3>2. w \in Write
      BY RequestTypes, NoChangeType
    <3>3. faults' \in Nat
      BY <2>12 DEF TypeOK, ApplyFails
    <3>4. QED
      BY <2>12, <3>1, <3>2, <3>3, SentType, MovedType DEF TypeOK, ApplyFails, repairVars
  <2>13. CASE Commit(r)
    BY <2>13, RequestTypes, EndedType DEF TypeOK, Commit, CommittedRow, repairVars
  <2>14. CASE CommitFails(r)
    <3>1. faults' \in Nat
      BY <2>14 DEF TypeOK, CommitFails
    <3>2. QED
      BY <2>14, <3>1, MovedType DEF TypeOK, CommitFails, repairVars
  <2>15. CASE CommitLost(r)
    <3>1. [req[r] EXCEPT !.pc = "failed", !.wrote = FALSE] \in Request
      BY RequestTypes DEF Request
    <3>2. QED
      BY <2>15, <3>1, RequestTypes
         DEF TypeOK, CommitLost, CommittedRow, repairVars
  <2>16. CASE Rollback(r)
    BY <2>16, MovedType DEF TypeOK, Rollback, repairVars
  <2>17. CASE Undo(r)
    BY <2>17, RequestTypes, SentType, EndedType DEF TypeOK, Undo, repairVars
  <2>18. CASE UndoFails(r)
    <3>1. faults' \in Nat
      BY <2>18 DEF TypeOK, UndoFails
    <3>2. QED
      BY <2>18, <3>1, EndedType DEF TypeOK, UndoFails, repairVars
  <2>19. CASE Die(r)
    <3>1. PICK w \in {NoWrite, req[r].change.apply, req[r].change.undo} : Sent(r, w)
      BY <2>19 DEF Die
    <3>2. w \in Write
      BY RequestTypes, NoChangeType
    <3>3. faults' \in Nat
      BY <2>19 DEF TypeOK, Die
    <3>4. QED
      BY <2>19, <3>1, <3>2, <3>3, SentType, EndedType DEF TypeOK, Die, repairVars
  <2>20. ASSUME NEW S \in SUBSET Users \ {{}}, RemoveMembers(r, S) PROVE TypeOK'
    <3>1. rels \cap UNION {RolesOf(u) : u \in S} \in SUBSET Rels
      BY DEF TypeOK
    <3>2. QED
      BY <2>20, <3>1, WriteType, MembersReadType DEF RemoveMembers
  <2>21. ASSUME NEW u \in Users, NEW role \in Roles, UpsertMember(r, u, role)
         PROVE  TypeOK'
    <3>1. /\ {Role(u, role)} \ (rels \cap RolesOf(u)) \in SUBSET Rels
          /\ (rels \cap RolesOf(u)) \ {Role(u, role)} \in SUBSET Rels
      BY RelTypes DEF TypeOK
    <3>2. QED
      BY <2>21, <3>1, WriteType, MembersReadType DEF UpsertMember
  <2>22. CASE WriteMembers(r)
    BY <2>22, RequestTypes, SentType, EndedType DEF TypeOK, WriteMembers, repairVars
  <2>23. QED
    BY <1>1, <2>1, <2>2, <2>3, <2>4, <2>5, <2>6, <2>7, <2>8, <2>9, <2>10,
       <2>11, <2>12, <2>13, <2>14, <2>15, <2>16, <2>17, <2>18, <2>19, <2>20,
       <2>21, <2>22 DEF Step
<1>2. CASE RepairFind
  <2>1. PICK a \in rels \cap ByGroup :
           repair' = [st |-> "look", found |-> {a}, write |-> NoWrite]
    BY <1>2 DEF RepairFind
  <2>2. repair' \in Repair
    BY <2>1, NoChangeType DEF Repair
  <2>3. QED
    BY <1>2, <2>2 DEF TypeOK, RepairFind
<1>3. CASE RepairLook
  <2>1. Correction(repair.found, db) \in Write
    BY CorrectionType DEF TypeOK, Repair
  <2>2. Idle \in Repair
    BY NoChangeType DEF Idle, Repair
  <2>3. repair' \in Repair
    BY <1>3, <2>1, <2>2 DEF TypeOK, RepairLook, Repair
  <2>4. QED
    BY <1>3, <2>3 DEF TypeOK, RepairLook
<1>4. CASE RepairWrite
  <2>1. repair.write \in Write
    BY DEF TypeOK, Repair
  <2>2. Idle \in Repair
    BY NoChangeType DEF Idle, Repair
  <2>3. QED
    BY <1>4, <2>1, <2>2, WrittenType DEF TypeOK, RepairWrite
<1>5. CASE UNCHANGED vars
  BY <1>5 DEF TypeOK, vars, repairVars
<1>6. QED
  BY <1>1, <1>2, <1>3, <1>4, <1>5 DEF Next, RepairStep

-----------------------------------------------------------------------------
(* The row lock.                                                           *)

(* A step of r leaves the other requests alone.                            *)
LEMMA OthersKeep ==
  ASSUME TypeOK, NEW r \in Requests, Step(r), NEW s \in Requests \ {r}
  PROVE  req'[s] = req[s]
<1>1. req \in [Requests -> Request]
  BY DEF TypeOK
<1>2. ASSUME NEW w, MembersRead(r, w) PROVE req'[s] = req[s]
  BY <1>1, <1>2 DEF MembersRead
<1>3. ASSUME NEW c, Decided(r, c) PROVE req'[s] = req[s]
  BY <1>1, <1>3 DEF Decided
<1>4. CASE \/ DecideCreate(r) \/ DecideDelete(r) \/ DecideUpdate(r)
           \/ DecideOutdated(r)
  BY <1>3, <1>4 DEF DecideCreate, DecideDelete, DecideUpdate, DecideOutdated
<1>5. CASE Create(r) \/ Look(r) \/ Patch(r) \/ PatchNothing(r) \/ Delete(r) \/ Fail(r)
  BY <1>1, <1>5 DEF Create, Look, Patch, PatchNothing, Delete, Fail
<1>6. CASE \/ Apply(r) \/ ApplyFails(r) \/ Commit(r) \/ CommitFails(r)
           \/ CommitLost(r) \/ Rollback(r) \/ Undo(r) \/ UndoFails(r) \/ Die(r)
           \/ WriteMembers(r)
  BY <1>1, <1>6 DEF Apply, ApplyFails, Commit, CommitFails, CommitLost, Rollback,
                    Undo, UndoFails, Die, WriteMembers
<1>7. CASE \E S \in SUBSET Users \ {{}} : RemoveMembers(r, S)
  BY <1>2, <1>7 DEF RemoveMembers
<1>8. CASE \E u \in Users, role \in Roles : UpsertMember(r, u, role)
  BY <1>2, <1>8 DEF UpsertMember
<1>9. QED
  BY <1>4, <1>5, <1>6, <1>7, <1>8 DEF Step

(* What a step of r makes of r.                                            *)
LEMMA ShapeStep ==
  ASSUME TypeOK, Shape, NEW r \in Requests, Step(r)
  PROVE  ShapeOf(req'[r])
<1> DEFINE q == req[r]
<1>1. req \in [Requests -> Request] /\ q \in Request /\ ShapeOf(q)
  BY RequestTypes DEF TypeOK, Shape
<1>2. ShapeOf(Ended)
  BY DEF ShapeOf, Ended, NewRequest
<1>3. ASSUME NEW w, MembersRead(r, w) PROVE ShapeOf(req'[r])
  BY <1>1, <1>3 DEF MembersRead, ShapeOf, NewRequest
<1>4. ASSUME NEW c, Decided(r, c), q.pc = "written" PROVE ShapeOf(req'[r])
  <2>1. req'[r] = [q EXCEPT !.pc = "changed", !.change = c]
    BY <1>1, <1>4 DEF Decided
  <2>2. QED
    BY <1>1, <1>4, <2>1 DEF ShapeOf, Request
<1>5. CASE \/ DecideCreate(r) \/ DecideDelete(r) \/ DecideUpdate(r)
           \/ DecideOutdated(r)
  BY <1>4, <1>5 DEF DecideCreate, DecideDelete, DecideUpdate, DecideOutdated
<1>6. CASE Create(r)
  <2>1. PICK p \in Project :
           req'[r] = [NewRequest EXCEPT !.pc = "written", !.kind = "create",
                                        !.new = p, !.wrote = TRUE]
    BY <1>1, <1>6 DEF Create
  <2>2. QED
    BY <2>1 DEF ShapeOf, NewRequest
<1>7. CASE Look(r)
  <2>1. PICK kind \in {"update", "delete"}, p \in Project, other \in BOOLEAN :
           req'[r] = [NewRequest EXCEPT !.pc = "read", !.kind = kind,
                        !.old = db, !.want = p, !.other = other]
    BY <1>1, <1>7 DEF Look
  <2>2. QED
    BY <2>1 DEF ShapeOf, NewRequest
<1>8. CASE Patch(r)
  <2> DEFINE vis == IF q.want.vis # q.old.vis THEN q.want.vis ELSE db.vis
             ns == IF q.want.ns # q.old.ns THEN q.want.ns ELSE db.ns
             new == [db EXCEPT !.vis = vis, !.ns = ns]
  <2>1. db \in Project /\ q.want \in Project
    BY <1>1, <1>8, RowKinds DEF TypeOK, Patch, ShapeOf
  <2>2. new \in Project
    BY <2>1 DEF Project
  <2>3. req'[r] = [q EXCEPT !.pc = "written", !.wrote = TRUE, !.new = new]
    BY <1>1, <1>8 DEF Patch
  <2>4. q.kind = "update" /\ q.pc = "read"
    BY <1>8 DEF Patch
  <2> HIDE DEF q, new
  <2>5. QED
    BY <1>1, <2>1, <2>2, <2>3, <2>4 DEF ShapeOf, Request
<1>9. CASE PatchNothing(r)
  <2>1. db \in Project
    BY <1>9, RowKinds DEF TypeOK, PatchNothing
  <2>2. req'[r] = [q EXCEPT !.pc = "written", !.new = db]
    BY <1>1, <1>9 DEF PatchNothing
  <2>3. QED
    BY <1>1, <1>9, <2>1, <2>2 DEF ShapeOf, Request, PatchNothing
<1>10. CASE Delete(r)
  <2>1. req'[r] = [q EXCEPT !.pc = "written", !.wrote = db.exists]
    BY <1>1, <1>10 DEF Delete
  <2>2. QED
    BY <1>1, <1>10, <2>1 DEF ShapeOf, Request, Delete
<1>11. CASE Fail(r)
  <2>1. req'[r] = [q EXCEPT !.pc = "failed"]
    BY <1>1, <1>11 DEF Fail
  <2>2. QED
    BY <1>1, <1>11, <2>1 DEF ShapeOf, Request, Fail
<1>12. CASE Apply(r)
  <2>1. req'[r] = [q EXCEPT !.pc = "applied"]
    BY <1>1, <1>12 DEF Apply
  <2>2. QED
    BY <1>1, <1>12, <2>1 DEF ShapeOf, Request, Apply
<1>13. CASE ApplyFails(r) \/ CommitFails(r)
  <2>1. req'[r] = [q EXCEPT !.pc = "failed"] /\ q.pc \in {"changed", "applied"}
    BY <1>1, <1>13 DEF ApplyFails, CommitFails
  <2>2. QED
    BY <1>1, <2>1 DEF ShapeOf, Request
<1>14. CASE CommitLost(r)
  <2>1. req'[r] = [q EXCEPT !.pc = "failed", !.wrote = FALSE]
    BY <1>1, <1>14 DEF CommitLost
  <2>2. QED
    BY <1>1, <2>1 DEF ShapeOf, Request
<1>15. CASE Rollback(r)
  <2>1. req'[r] = [q EXCEPT !.pc = "undo"]
    BY <1>1, <1>15 DEF Rollback
  <2>2. QED
    BY <1>1, <2>1 DEF ShapeOf, Request
<1>16. CASE Commit(r) \/ Undo(r) \/ UndoFails(r) \/ Die(r) \/ WriteMembers(r)
  <2>1. req'[r] = Ended
    BY <1>1, <1>16 DEF Commit, Undo, UndoFails, Die, WriteMembers
  <2>2. QED
    BY <1>2, <2>1
<1>17. CASE \E S \in SUBSET Users \ {{}} : RemoveMembers(r, S)
  BY <1>3, <1>17 DEF RemoveMembers
<1>18. CASE \E u \in Users, role \in Roles : UpsertMember(r, u, role)
  BY <1>3, <1>18 DEF UpsertMember
<1>19. QED
  BY <1>5, <1>6, <1>7, <1>8, <1>9, <1>10, <1>11, <1>12, <1>13, <1>14, <1>15,
     <1>16, <1>17, <1>18 DEF Step

(* The plan of a request does not change on its way.                       *)
SamePlan(r) ==
    /\ req'[r].kind = req[r].kind /\ req'[r].wrote = req[r].wrote
    /\ req'[r].old = req[r].old /\ req'[r].want = req[r].want
    /\ req'[r].new = req[r].new

LEMMA PcOnly ==
  ASSUME TypeOK, NEW r \in Requests, NEW p, req' = [req EXCEPT ![r].pc = p]
  PROVE  SamePlan(r) /\ req'[r].pc = p /\ req'[r].change = req[r].change
<1>1. req'[r] = [req[r] EXCEPT !.pc = p]
  BY DEF TypeOK
<1>2. req[r] \in Request
  BY RequestTypes
<1>3. QED
  BY <1>1, <1>2 DEF Request, SamePlan

(* The lock is taken when it is free, and the row is changed by its holder *)
(* only, who gives it up.                                                  *)
LEMMA LockFrame ==
  ASSUME TypeOK, Shape, NEW r \in Requests, Step(r)
  PROVE  /\ Locks(r)' => Locks(r) \/ Unlocked
         /\ db' # db => /\ Locks(r) /\ ~Locks(r)' /\ ~req'[r].wrote
                        /\ db' = req[r].new
<1> DEFINE q == req[r]
<1>1. req \in [Requests -> Request] /\ q \in Request /\ ShapeOf(q)
  BY RequestTypes DEF TypeOK, Shape
<1>2. ASSUME NEW w, MembersRead(r, w) PROVE ~Locks(r)' /\ db' = db
  BY <1>1, <1>2 DEF MembersRead, Locks, NewRequest
<1>3. CASE \/ DecideCreate(r) \/ DecideDelete(r) \/ DecideUpdate(r)
           \/ DecideOutdated(r)
  <2>1. PICK c : Decided(r, c)
    BY <1>3 DEF DecideCreate, DecideDelete, DecideUpdate, DecideOutdated
  <2>2. req'[r] = [q EXCEPT !.pc = "changed", !.change = c] /\ db' = db
    BY <1>1, <2>1 DEF Decided
  <2>3. q.pc = "written"
    BY <1>3 DEF DecideCreate, DecideDelete, DecideUpdate, DecideOutdated
  <2>4. QED
    BY <1>1, <2>2, <2>3 DEF Locks, Request
<1>4. CASE Create(r) \/ Patch(r) \/ Delete(r)
  <2>1. db' = db
    BY <1>4 DEF Create, Patch, Delete
  <2>2. ASSUME Create(r) PROVE Unlocked
    BY <2>2 DEF Create, Unlocked, Locks
  <2>3. QED
    BY <1>4, <2>1, <2>2 DEF Patch, Delete
<1>5. CASE Look(r) \/ PatchNothing(r)
  <2>1. db' = db /\ ~q.wrote
    BY <1>1, <1>5 DEF Look, PatchNothing, ShapeOf
  <2>2. CASE Look(r)
    BY <1>1, <2>1, <2>2 DEF Look, Locks, NewRequest
  <2>3. CASE PatchNothing(r)
    BY <1>1, <2>1, <2>3 DEF PatchNothing, Locks, Request
  <2>4. QED
    BY <1>5, <2>2, <2>3
<1>6. CASE Fail(r) \/ Apply(r) \/ ApplyFails(r) \/ CommitFails(r)
  <2>1. db' = db
    BY <1>6 DEF Fail, Apply, ApplyFails, CommitFails
  <2>2. req'[r].wrote = q.wrote
    <3>1. \E p \in {"failed", "applied"} : req' = [req EXCEPT ![r].pc = p]
      BY <1>6 DEF Fail, Apply, ApplyFails, CommitFails
    <3>2. QED
      BY <3>1, PcOnly DEF SamePlan
  <2>3. q.pc = "read" => ~q.wrote
    BY <1>1 DEF ShapeOf
  <2>4. q.pc \in {"read", "written", "changed", "applied"}
    BY <1>6 DEF Fail, Apply, ApplyFails, CommitFails
  <2>5. QED
    BY <2>1, <2>2, <2>3, <2>4 DEF Locks
<1>7. CASE Rollback(r)
  BY <1>1, <1>7 DEF Rollback, Locks, Request
<1>8. CASE Undo(r) \/ UndoFails(r) \/ Die(r) \/ WriteMembers(r)
  BY <1>1, <1>8 DEF Undo, UndoFails, Die, WriteMembers, Locks, Ended, NewRequest
<1>9. CASE Commit(r) \/ CommitLost(r)
  <2>1. ~req'[r].wrote
    BY <1>1, <1>9 DEF Commit, CommitLost, Ended, NewRequest, Request
  <2>2. db' = IF q.wrote THEN q.new ELSE db
    BY <1>9 DEF Commit, CommitLost, CommittedRow
  <2>3. q.pc = "applied"
    BY <1>9 DEF Commit, CommitLost
  <2>4. QED
    BY <2>1, <2>2, <2>3 DEF Locks
<1>10. CASE \E S \in SUBSET Users \ {{}} : RemoveMembers(r, S)
  BY <1>2, <1>10 DEF RemoveMembers
<1>11. CASE \E u \in Users, role \in Roles : UpsertMember(r, u, role)
  BY <1>2, <1>11 DEF UpsertMember
<1>12. QED
  BY <1>3, <1>4, <1>5, <1>6, <1>7, <1>8, <1>9, <1>10, <1>11 DEF Step

(* A request without a row to work on can only create one.                 *)
LEMMA OnlyCreate ==
  ASSUME Shape, NEW r \in Requests, Step(r), req[r].pc = "new", db = NoProject
  PROVE  Create(r)
<1>1. ~db.exists
  BY RowKinds
<1>2. req[r].change = NoChange
  BY DEF Shape, ShapeOf
<1>3. QED
  BY <1>1 DEF Step, Look, Patch, PatchNothing, Delete, Fail, DecideCreate,
     DecideDelete, DecideUpdate, DecideOutdated, Apply, ApplyFails, Commit,
     CommitFails, CommitLost, Rollback, Undo, UndoFails, Die, RemoveMembers,
     UpsertMember, MembersRead, WriteMembers

(* What a holder of the lock has in hand, when it just got it and while it *)
(* goes on.                                                                *)
HeldOK(r) ==
    /\ req[r].kind = "delete" => db.exists
    /\ req[r].kind = "update" =>
          /\ db.exists
          /\ req[r].new.vis = IF req[r].want.vis = req[r].old.vis
                              THEN db.vis ELSE req[r].want.vis
          /\ req[r].new.ns = IF req[r].want.ns = req[r].old.ns
                             THEN db.ns ELSE req[r].want.ns

LEMMA HolderStep ==
  ASSUME TypeOK, Shape, NEW r \in Requests, Step(r), Locks(r)'
  PROVE  \/ SamePlan(r) /\ Locks(r) /\ db' = db
         \/ db' = db /\ HeldOK(r)'
<1> DEFINE q == req[r]
<1>1. req \in [Requests -> Request] /\ q \in Request /\ ShapeOf(q)
  BY RequestTypes DEF TypeOK, Shape
<1>2. db' = db
  BY LockFrame
<1>3. ASSUME NEW w, MembersRead(r, w) PROVE FALSE
  BY <1>1, <1>3 DEF MembersRead, Locks, NewRequest
<1>4. CASE \/ DecideCreate(r) \/ DecideDelete(r) \/ DecideUpdate(r)
           \/ DecideOutdated(r)
  <2>1. PICK c : Decided(r, c)
    BY <1>4 DEF DecideCreate, DecideDelete, DecideUpdate, DecideOutdated
  <2>2. req'[r] = [q EXCEPT !.pc = "changed", !.change = c]
    BY <1>1, <2>1 DEF Decided
  <2>3. q.pc = "written"
    BY <1>4 DEF DecideCreate, DecideDelete, DecideUpdate, DecideOutdated
  <2>4. QED
    BY <1>1, <1>2, <2>2, <2>3 DEF Locks, Request, SamePlan
<1>5. CASE Create(r)
  <2>1. req'[r].kind = "create"
    BY <1>1, <1>5 DEF Create, NewRequest
  <2>2. QED
    BY <1>2, <2>1 DEF HeldOK
<1>6. CASE Patch(r)
  <2> DEFINE vis == IF q.want.vis # q.old.vis THEN q.want.vis ELSE db.vis
             ns == IF q.want.ns # q.old.ns THEN q.want.ns ELSE db.ns
             new == [db EXCEPT !.vis = vis, !.ns = ns]
  <2>1. db \in Project /\ db.exists
    BY <1>6, RowKinds DEF TypeOK, Patch
  <2>2. new.vis = vis /\ new.ns = ns
    BY <2>1 DEF Project
  <2>3. req'[r] = [q EXCEPT !.pc = "written", !.wrote = TRUE, !.new = new]
    BY <1>1, <1>6 DEF Patch
  <2>4. /\ req'[r].kind = "update" /\ req'[r].new = new
        /\ req'[r].want = q.want /\ req'[r].old = q.old
    <3> HIDE DEF new
    <3>1. QED
      BY <1>1, <1>6, <2>3 DEF Request, Patch
  <2>5. QED
    BY <1>2, <2>1, <2>2, <2>4 DEF HeldOK
<1>7. CASE Delete(r)
  <2>1. req'[r] = [q EXCEPT !.pc = "written", !.wrote = db.exists]
    BY <1>1, <1>7 DEF Delete
  <2>2. req'[r].kind = "delete" /\ req'[r].wrote = db.exists
    BY <1>1, <1>7, <2>1 DEF Request, Delete
  <2>3. db.exists
    BY <2>2 DEF Locks
  <2>4. QED
    BY <1>2, <2>2, <2>3 DEF HeldOK
<1>8. CASE Look(r)
  BY <1>1, <1>8 DEF Look, Locks, NewRequest
<1>9. CASE PatchNothing(r)
  BY <1>1, <1>9 DEF PatchNothing, Locks, Request, ShapeOf
<1>10. CASE Fail(r) \/ Apply(r) \/ ApplyFails(r) \/ CommitFails(r)
  <2>1. SamePlan(r)
    <3>1. \E p \in {"failed", "applied"} : req' = [req EXCEPT ![r].pc = p]
      BY <1>10 DEF Fail, Apply, ApplyFails, CommitFails
    <3>2. QED
      BY <3>1, PcOnly
  <2>2. q.pc = "read" => ~q.wrote
    BY <1>1 DEF ShapeOf
  <2>3. q.pc \in {"read", "written", "changed", "applied"}
    BY <1>10 DEF Fail, Apply, ApplyFails, CommitFails
  <2>4. QED
    BY <1>2, <2>1, <2>2, <2>3 DEF Locks, SamePlan
<1>11. CASE Rollback(r)
  BY <1>1, <1>11 DEF Rollback, Locks, Request
<1>12. CASE \/ Commit(r) \/ CommitLost(r) \/ Undo(r) \/ UndoFails(r) \/ Die(r)
            \/ WriteMembers(r)
  <2>1. CASE CommitLost(r)
    BY <1>1, <2>1 DEF CommitLost, Locks, Request
  <2>2. CASE ~CommitLost(r)
    <3>1. req'[r] = Ended
      BY <1>1, <1>12, <2>2 DEF Commit, Undo, UndoFails, Die, WriteMembers
    <3>2. QED
      BY <3>1 DEF Locks, Ended, NewRequest
  <2>3. QED
    BY <2>1, <2>2
<1>13. CASE \E S \in SUBSET Users \ {{}} : RemoveMembers(r, S)
  BY <1>3, <1>13 DEF RemoveMembers
<1>14. CASE \E u \in Users, role \in Roles : UpsertMember(r, u, role)
  BY <1>3, <1>14 DEF UpsertMember
<1>15. QED
  BY <1>4, <1>5, <1>6, <1>7, <1>8, <1>9, <1>10, <1>11, <1>12, <1>13, <1>14
     DEF Step

LEMMA CreatorStep ==
  ASSUME TypeOK, Shape, NEW r \in Requests, Step(r),
         req'[r].kind = "create", req'[r].wrote
  PROVE  \/ Create(r)
         \/ req[r].kind = "create" /\ req[r].wrote
<1> DEFINE q == req[r]
<1>1. req \in [Requests -> Request] /\ q \in Request /\ ShapeOf(q)
  BY RequestTypes DEF TypeOK, Shape
<1>2. ASSUME NEW w, MembersRead(r, w) PROVE FALSE
  BY <1>1, <1>2 DEF MembersRead, NewRequest
<1>3. ASSUME NEW c, Decided(r, c) PROVE q.kind = "create" /\ q.wrote
  <2>1. req'[r] = [q EXCEPT !.pc = "changed", !.change = c]
    BY <1>1, <1>3 DEF Decided
  <2>2. QED
    BY <1>1, <2>1 DEF Request
<1>4. CASE \/ DecideCreate(r) \/ DecideDelete(r) \/ DecideUpdate(r)
           \/ DecideOutdated(r)
  BY <1>3, <1>4 DEF DecideCreate, DecideDelete, DecideUpdate, DecideOutdated
<1>5. CASE Look(r)
  BY <1>1, <1>5 DEF Look, NewRequest
<1>6. CASE Patch(r) \/ PatchNothing(r) \/ Delete(r)
  <2>1. q.kind \in {"update", "delete"}
    BY <1>6 DEF Patch, PatchNothing, Delete
  <2>2. req'[r].kind = q.kind
    BY <1>1, <1>6 DEF Patch, PatchNothing, Delete, Request
  <2>3. QED
    BY <2>1, <2>2
<1>7. CASE \/ Fail(r) \/ Apply(r) \/ ApplyFails(r) \/ CommitFails(r)
           \/ Rollback(r)
  <2>1. \E p \in {"failed", "applied", "undo"} : req' = [req EXCEPT ![r].pc = p]
    BY <1>7 DEF Fail, Apply, ApplyFails, CommitFails, Rollback
  <2>2. QED
    BY <2>1, PcOnly DEF SamePlan
<1>8. CASE CommitLost(r)
  BY <1>1, <1>8 DEF CommitLost, Request
<1>9. CASE Commit(r) \/ Undo(r) \/ UndoFails(r) \/ Die(r) \/ WriteMembers(r)
  <2>1. req'[r] = Ended
    BY <1>1, <1>9 DEF Commit, Undo, UndoFails, Die, WriteMembers
  <2>2. QED
    BY <2>1 DEF Ended, NewRequest
<1>10. CASE \E S \in SUBSET Users \ {{}} : RemoveMembers(r, S)
  BY <1>2, <1>10 DEF RemoveMembers
<1>11. CASE \E u \in Users, role \in Roles : UpsertMember(r, u, role)
  BY <1>2, <1>11 DEF UpsertMember
<1>12. QED
  BY <1>4, <1>5, <1>6, <1>7, <1>8, <1>9, <1>10, <1>11 DEF Step

LEMMA LockStep == TypeOK /\ LockInv /\ [Next]_vars => LockInv'
<1> SUFFICES ASSUME TypeOK, LockInv, [Next]_vars PROVE LockInv'
  OBVIOUS
<1> USE DEF LockInv
<1>1. ASSUME NEW r \in Requests, Step(r) PROVE LockInv'
  <2>1. \A s \in Requests \ {r} : req'[s] = req[s]
    BY <1>1, OthersKeep
  <2>2. \A s \in Requests \ {r} : Locks(s)' <=> Locks(s)
    BY <2>1 DEF Locks
  <2>3. \A s \in Requests \ {r} : Locks(s) => db' = db
    BY <1>1, LockFrame DEF OneLock
  <2>4. Shape'
    BY <1>1, <2>1, ShapeStep DEF Shape
  <2>5. OneLock'
    <3>1. ASSUME NEW s \in Requests \ {r}, Locks(s), Locks(r)' PROVE FALSE
      BY <1>1, <3>1, LockFrame DEF OneLock, Unlocked
    <3>2. QED
      BY <2>2, <3>1 DEF OneLock
  <2>6. Alone'
    <3>1. ASSUME NEW s \in Requests \ {r}, req[s].kind = "create", req[s].wrote
          PROVE  FALSE
      <4>1. db = NoProject /\ req[r].pc = "new"
        BY <3>1 DEF Alone
      <4>2. Create(r)
        BY <1>1, <4>1, OnlyCreate
      <4>3. req[s].pc = "new"
        BY <4>2 DEF Create
      <4>4. QED
        BY <3>1, <4>3 DEF Shape, ShapeOf
    <3>2. ASSUME req'[r].kind = "create", req'[r].wrote
          PROVE  /\ db' = NoProject
                 /\ \A s \in Requests \ {r} : req'[s].pc = "new"
      <4>1. db' = db
        BY <1>1, <3>2, LockFrame
      <4>2. CASE Create(r)
        BY <2>1, <4>1, <4>2 DEF Create
      <4>3. CASE req[r].kind = "create" /\ req[r].wrote
        BY <2>1, <4>1, <4>3 DEF Alone
      <4>4. QED
        BY <1>1, <3>2, <4>2, <4>3, CreatorStep
    <3>3. QED
      BY <2>1, <3>1, <3>2 DEF Alone
  <2>7. \A s \in Requests : Locks(s)' => HeldOK(s)'
    <3>1. ASSUME NEW s \in Requests \ {r}, Locks(s)' PROVE HeldOK(s)'
      <4>1. HeldOK(s)
        BY <2>2, <3>1 DEF HeldOK, FoundRow, NoLostPatch
      <4>2. db' = db /\ req'[s] = req[s]
        BY <2>1, <2>2, <2>3, <3>1
      <4>3. QED
        BY <4>1, <4>2 DEF HeldOK
    <3>2. ASSUME Locks(r)' PROVE HeldOK(r)'
      <4>1. CASE SamePlan(r) /\ Locks(r) /\ db' = db
        <5>1. HeldOK(r)
          BY <4>1 DEF HeldOK, FoundRow, NoLostPatch
        <5>2. QED
          BY <4>1, <5>1 DEF HeldOK, SamePlan
      <4>2. QED
        BY <1>1, <3>2, <4>1, HolderStep
    <3>3. QED
      BY <3>1, <3>2
  <2>8. FoundRow' /\ NoLostPatch'
    BY <2>7 DEF HeldOK, FoundRow, NoLostPatch
  <2>9. QED
    BY <2>4, <2>5, <2>6, <2>8
<1>2. CASE RepairStep \/ UNCHANGED vars
  <2>1. db' = db /\ req' = req
    BY <1>2 DEF RepairStep, RepairFind, RepairLook, RepairWrite, vars
  <2>2. QED
    BY <2>1 DEF Shape, OneLock, Alone, FoundRow, NoLostPatch, Locks
<1>3. QED
  BY <1>1, <1>2 DEF Next

LEMMA InitLockInv == Init => TypeOK /\ LockInv
<1> SUFFICES ASSUME Init PROVE TypeOK /\ LockInv
  OBVIOUS
<1>1. \A r \in Requests : req[r] = NewRequest
  BY DEF Init
<1>2. db \in Row /\ rels \in SUBSET Rels
  <2>1. CASE db = NoProject /\ rels = {}
    BY <2>1 DEF Row
  <2>2. ASSUME NEW p \in Project, NEW u \in Users,
               db = p, rels = Added(u, p).apply.touch
        PROVE  db \in Row /\ rels \in SUBSET Rels
    BY <2>2, AddedType DEF Row, Change, Write
  <2>3. QED
    BY <2>1, <2>2 DEF Init
<1>3. TypeOK
  <2>1. Idle \in Repair
    BY NoChangeType DEF Idle, Repair
  <2>2. req \in [Requests -> Request]
    BY NewRequestType DEF Init
  <2>3. QED
    BY <1>2, <2>1, <2>2 DEF Init, TypeOK
<1>4. \A r \in Requests : ~Locks(r) /\ ~req[r].wrote /\ req[r].kind = "none"
  BY <1>1 DEF Locks, NewRequest
<1>5. Shape
  BY <1>1 DEF Shape, ShapeOf, NewRequest
<1>6. QED
  BY <1>3, <1>4, <1>5 DEF LockInv, OneLock, Alone, FoundRow, NoLostPatch

(* The row and the relationships of a project and every request on it keep *)
(* their types, through all failures of authz_change.                      *)
THEOREM AuthzTypeCorrect == Spec => []TypeOK
<1>1. TypeOK /\ LockInv /\ [Next]_vars => (TypeOK /\ LockInv)'
  BY TypeStep, LockStep DEF LockInv
<1>2. QED
  BY InitLockInv, <1>1, PTL DEF Spec

(* The row lock of update_project and delete_project has one holder, and   *)
(* the holder has what it works on.                                        *)
THEOREM LockDiscipline == Spec => []LockInv
<1>1. TypeOK /\ LockInv /\ [Next]_vars => (TypeOK /\ LockInv)'
  BY TypeStep, LockStep DEF LockInv
<1>2. QED
  BY InitLockInv, <1>1, PTL DEF Spec

(* No patch takes back what another patch has committed.                   *)
THEOREM PatchesKept == Spec => []NoLostPatch
<1>1. LockInv => NoLostPatch
  BY DEF LockInv
<1>2. QED
  BY <1>1, LockDiscipline, PTL

-----------------------------------------------------------------------------
(* Relationships.                                                          *)

LEMMA ClashGrows ==
  ASSUME NEW r \in Requests, Step(r), clash
  PROVE  clash'
<1>1. ASSUME NEW w, MembersRead(r, w) PROVE clash'
  BY <1>1 DEF MembersRead
<1>2. CASE \/ DecideCreate(r) \/ DecideDelete(r) \/ DecideUpdate(r)
           \/ DecideOutdated(r)
  BY <1>2 DEF DecideCreate, DecideDelete, DecideUpdate, DecideOutdated
<1>3. CASE Create(r) \/ Look(r) \/ Patch(r) \/ PatchNothing(r) \/ Delete(r) \/ Fail(r)
  BY <1>3 DEF Create, Look, Patch, PatchNothing, Delete, Fail
<1>4. CASE \/ Apply(r) \/ ApplyFails(r) \/ Commit(r) \/ CommitFails(r)
           \/ CommitLost(r) \/ Rollback(r) \/ Undo(r) \/ UndoFails(r) \/ Die(r)
           \/ WriteMembers(r)
  BY <1>4 DEF Apply, ApplyFails, Commit, CommitFails, CommitLost, Rollback,
              Undo, UndoFails, Die, WriteMembers
<1>5. CASE \E S \in SUBSET Users \ {{}} : RemoveMembers(r, S)
  BY <1>1, <1>5 DEF RemoveMembers
<1>6. CASE \E u \in Users, role \in Roles : UpsertMember(r, u, role)
  BY <1>1, <1>6 DEF UpsertMember
<1>7. QED
  BY <1>2, <1>3, <1>4, <1>5, <1>6 DEF Step

(* r has written w, and whoever relies on what it read has been told.      *)
Wrote(r, w) ==
    /\ rels' = After(rels, w)
    /\ \A s \in Requests \ {r} :
          /\ stale[s] \subseteq stale'[s]
          /\ InFlight(s) => Atoms(w) \subseteq stale'[s]

LEMMA SentWrote ==
  ASSUME TypeOK, OneLock, NEW r \in Requests, NEW w \in Write, Sent(r, w)
  PROVE  Wrote(r, w)
BY DEF TypeOK, OneLock, Sent, Written, Wrote

LEMMA NothingWrote ==
  ASSUME NEW r \in Requests, rels' = rels,
         \A s \in Requests \ {r} : stale'[s] = stale[s]
  PROVE  Wrote(r, NoWrite)
BY DEF Wrote, After, Atoms, NoWrite

(* Without a clash only these steps write relationships, and these ones.   *)
LEMMA Effects ==
  ASSUME TypeOK, OneLock, NEW r \in Requests, Step(r), ~clash'
  PROVE  \/ Wrote(r, NoWrite) /\ rels' = rels
         \/ /\ Apply(r) \/ ApplyFails(r) \/ WriteMembers(r)
            /\ Wrote(r, req[r].change.apply)
         \/ Undo(r) /\ Wrote(r, req[r].change.undo)
<1>1. stale \in [Requests -> SUBSET Rels]
  BY DEF TypeOK
<1>2. rels = After(rels, NoWrite)
  BY DEF After, NoWrite
<1>3. ASSUME NEW w, MembersRead(r, w) PROVE Wrote(r, NoWrite) /\ rels' = rels
  BY <1>1, <1>3, NothingWrote DEF MembersRead
<1>4. ASSUME NEW c, Decided(r, c) PROVE Wrote(r, NoWrite) /\ rels' = rels
  BY <1>1, <1>4, NothingWrote DEF Decided
<1>5. CASE \/ DecideCreate(r) \/ DecideDelete(r) \/ DecideUpdate(r)
           \/ DecideOutdated(r)
  BY <1>4, <1>5 DEF DecideCreate, DecideDelete, DecideUpdate, DecideOutdated
<1>6. CASE \/ Create(r) \/ Look(r) \/ Patch(r) \/ PatchNothing(r) \/ Delete(r)
           \/ Fail(r) \/ Commit(r) \/ CommitFails(r) \/ CommitLost(r)
           \/ Rollback(r) \/ UndoFails(r)
  <2>1. rels' = rels /\ stale' = stale
    BY <1>6 DEF Create, Look, Patch, PatchNothing, Delete, Fail, Commit,
                CommitFails, CommitLost, Rollback, UndoFails
  <2>2. QED
    BY <2>1, NothingWrote
<1>7. CASE Apply(r) \/ WriteMembers(r)
  BY <1>7, RequestTypes, SentWrote DEF Apply, WriteMembers
<1>8. CASE ApplyFails(r)
  <2>1. PICK w \in {NoWrite, req[r].change.apply} : Sent(r, w)
    BY <1>8 DEF ApplyFails
  <2>2. Wrote(r, w)
    BY <2>1, RequestTypes, NoChangeType, SentWrote
  <2>3. QED
    BY <1>2, <1>8, <2>1, <2>2 DEF Wrote
<1>9. CASE Undo(r)
  BY <1>9, RequestTypes, SentWrote DEF Undo
<1>10. CASE Die(r)
  <2>1. req[r].change = NoChange
    BY <1>10 DEF Die
  <2>2. req[r].change.apply = NoWrite /\ req[r].change.undo = NoWrite
    BY <2>1 DEF NoChange
  <2>3. Sent(r, NoWrite)
    BY <1>10, <2>2 DEF Die
  <2>4. QED
    BY <1>2, <2>3, NoChangeType, SentWrote DEF Wrote
<1>11. CASE \E S \in SUBSET Users \ {{}} : RemoveMembers(r, S)
  BY <1>3, <1>11 DEF RemoveMembers
<1>12. CASE \E u \in Users, role \in Roles : UpsertMember(r, u, role)
  BY <1>3, <1>12 DEF UpsertMember
<1>13. QED
  BY <1>5, <1>6, <1>7, <1>8, <1>9, <1>10, <1>11, <1>12 DEF Step

LEMMA RestorableMember ==
  ASSUME NEW a
  PROVE  a \in Restorable <=>
            \E r \in Requests : MayRestore(r) /\ a \in req[r].change.undo.touch
BY DEF Restorable

(* A row that does not exist comes into being by its creation only.        *)
LEMMA RowAppears ==
  ASSUME TypeOK, LockInv, NEW r \in Requests, Step(r), ~db.exists, db'.exists
  PROVE  /\ Locks(r) /\ req[r].kind = "create"
         /\ \A s \in Requests \ {r} : req[s].pc = "new"
<1>1. db' # db
  OBVIOUS
<1>2. Locks(r) /\ db' = req[r].new
  BY <1>1, LockFrame DEF LockInv
<1>3. req[r].kind \in {"create", "update", "delete"}
  BY <1>2 DEF LockInv, Shape, ShapeOf, Locks
<1>4. req[r].kind # "delete" /\ req[r].kind # "update"
  BY <1>2 DEF LockInv, FoundRow, NoLostPatch
<1>5. QED
  BY <1>2, <1>3, <1>4 DEF LockInv, Alone, Locks

(* What could be put back still can, or has been, or its project is gone.  *)
LEMMA RestorableStep ==
  ASSUME TypeOK, LockInv, AuthzInv, NEW r \in Requests, Step(r), ~clash',
         db'.exists, NEW a \in Restorable
  PROVE  \/ a \in Restorable'
         \/ Undo(r) /\ a \in req[r].change.undo.touch
<1>1. PICK t \in Requests : MayRestore(t) /\ a \in req[t].change.undo.touch
  BY RestorableMember
<1>2. CASE t # r
  <2>1. req'[t] = req[t]
    BY <1>2, OthersKeep
  <2>2. MayRestore(t)' /\ a \in req'[t].change.undo.touch
    BY <1>1, <2>1 DEF MayRestore
  <2>3. QED
    BY <2>2 DEF Restorable
<1>3. CASE t = r
  <2>1. ~clash /\ Ready(r)
    BY ClashGrows DEF AuthzInv
  <2>2. req[r].change # NoChange
    BY <1>1, <1>3 DEF NoChange, NoWrite
  <2>3. req[r].kind = "delete" /\ req[r].pc \in {"applied", "failed", "undo"}
    BY <1>1, <1>3 DEF MayRestore
  <2>4. ~Die(r) /\ ~CommitLost(r) /\ ~UndoFails(r)
    BY <2>2 DEF Die, CommitLost, UndoFails
  <2>5. ~Commit(r)
    <3>1. SUFFICES ASSUME Commit(r) PROVE FALSE
      OBVIOUS
    <3>2. CASE req[r].wrote
      <4>1. db' = NoProject
        BY <2>3, <3>1, <3>2 DEF Commit, CommittedRow, LockInv, Shape, ShapeOf
      <4>2. QED
        BY <4>1, RowKinds
    <3>3. CASE ~req[r].wrote
      <4>1. ~db.exists
        BY <2>1, <2>2, <2>3, <3>3 DEF Ready, Gone
      <4>2. db' = db
        BY <3>1, <3>3 DEF Commit, CommittedRow
      <4>3. QED
        BY <4>1, <4>2
    <3>4. QED
      BY <3>2, <3>3
  <2>6. CommitFails(r) \/ Rollback(r) \/ Undo(r)
    BY <2>3, <2>4, <2>5 DEF Step, Create, Look, Patch, PatchNothing, Delete,
       Fail, DecideCreate, DecideDelete, DecideUpdate, DecideOutdated, Apply,
       ApplyFails, RemoveMembers, UpsertMember, MembersRead, WriteMembers,
       LockInv, Shape, ShapeOf
  <2>7. CASE CommitFails(r) \/ Rollback(r)
    <3>1. \E p \in {"failed", "undo"} : req' = [req EXCEPT ![r].pc = p]
      BY <2>7 DEF CommitFails, Rollback
    <3>2. MayRestore(r)' /\ req'[r].change = req[r].change
      BY <2>3, <3>1, PcOnly DEF SamePlan, MayRestore
    <3>3. QED
      BY <1>1, <1>3, <3>2 DEF Restorable
  <2>8. QED
    BY <1>1, <1>3, <2>6, <2>7
<1>4. QED
  BY <1>2, <1>3

(* A step of r leaves what another request s relies on as it is, or tells  *)
(* s about it.                                                             *)
LEMMA ReadyFrame ==
  ASSUME TypeOK, LockInv, AuthzInv, NEW r \in Requests, Step(r), ~clash',
         NEW s \in Requests \ {r}
  PROVE  Ready(s)'
<1>1. ~clash /\ Ready(s) /\ Ready(r)
  BY ClashGrows DEF AuthzInv
<1>2. req'[s] = req[s]
  BY OthersKeep
<1>3. InFlight(s)' = InFlight(s) /\ NamespaceDiffers(s)' = NamespaceDiffers(s)
  BY <1>2 DEF InFlight, NamespaceDiffers
<1>4. PICK w \in Write :
        /\ Wrote(r, w)
        /\ w \in {NoWrite, req[r].change.apply, req[r].change.undo}
  <2>1. OneLock
    BY DEF LockInv
  <2>2. \/ Wrote(r, NoWrite)
        \/ Wrote(r, req[r].change.apply)
        \/ Undo(r) /\ Wrote(r, req[r].change.undo)
    BY <2>1, Effects
  <2>3. QED
    BY <2>2, RequestTypes, NoChangeType, Zenon
<1>5. InFlight(s) => Atoms(w) \subseteq stale'[s]
  BY <1>4 DEF Wrote
<1>6. stale[s] \subseteq stale'[s]
  BY <1>4 DEF Wrote
<1>7. \A a : a \in rels => a \in rels' \/ a \in Atoms(w)
  BY <1>4 DEF Wrote, After, Atoms
<1>8. \A a : a \in rels' => a \in rels \/ a \in Atoms(w)
  BY <1>4 DEF Wrote, After, Atoms
<1>9. req[s].pc # "new" /\ ~db.exists => ~db'.exists
  BY RowAppears
<1>10. ChangeOK(req'[s]) /\ Created(s)'
  BY <1>1, <1>2 DEF Ready, Created
<1>11. Gone(s)'
  <2>1. req[s].kind = "delete" => req[s].pc # "new"
    BY DEF LockInv, Shape, ShapeOf
  <2>2. QED
    BY <1>1, <1>2, <1>9, <2>1 DEF Ready, Gone
<1>12. CreateReady(s)'
  <2>1. req[s].kind # "create"
    <3>1. SUFFICES ASSUME req[s].kind = "create" PROVE FALSE
      OBVIOUS
    <3>2. req[s].wrote
      BY <1>1, <3>1 DEF Ready, Created
    <3>3. db = NoProject /\ req[r].pc = "new"
      BY <3>1, <3>2 DEF LockInv, Alone
    <3>4. Create(r)
      BY <3>3, OnlyCreate DEF LockInv
    <3>5. req[s].pc = "new"
      BY <3>4 DEF Create
    <3>6. QED
      BY <3>2, <3>5 DEF LockInv, Shape, ShapeOf
  <2>2. QED
    BY <1>2, <2>1 DEF CreateReady
<1>13. UpdateReady(s)'
  <2>1. SUFFICES ASSUME req[s].kind = "update", req[s].wrote, NamespaceDiffers(s),
                        req[s].pc \in {"changed", "applied"}
                 PROVE  UpdateReady(s)'
    BY <1>2, <1>3 DEF UpdateReady
  <2> DEFINE moved == InNamespace(req[s].new.ns, "namespace")
  <2>2. moved \in NamespaceRels
    <3>1. req[s].new \in Project
      BY <2>1 DEF LockInv, Shape, ShapeOf
    <3>2. req[s].new.ns \in Namespaces
      BY <3>1, RowKinds
    <3>3. QED
      BY <3>2, RelTypes
  <2>3. InFlight(s)
    BY <2>1 DEF InFlight
  <2>4. moved \in rels => moved \in rels' \/ stale'[s] \cap NamespaceRels # {}
    BY <1>5, <1>7, <2>2, <2>3
  <2>5. stale[s] \cap NamespaceRels # {} => stale'[s] \cap NamespaceRels # {}
    BY <1>6
  <2>6. UpdateReady(s)
    BY <1>1 DEF Ready
  <2> HIDE DEF moved
  <2>7. /\ req[s].pc = "changed" => \/ moved \in rels \cup req[s].change.apply.touch
                                    \/ stale[s] \cap NamespaceRels # {}
        /\ req[s].pc = "applied" => \/ moved \in rels
                                    \/ stale[s] \cap NamespaceRels # {}
    BY <2>1, <2>6 DEF UpdateReady, moved
  <2>8. /\ req[s].pc = "changed" => \/ moved \in rels' \cup req[s].change.apply.touch
                                    \/ stale'[s] \cap NamespaceRels # {}
        /\ req[s].pc = "applied" => \/ moved \in rels'
                                    \/ stale'[s] \cap NamespaceRels # {}
    BY <2>4, <2>5, <2>7
  <2>9. QED
    BY <1>2, <2>8 DEF UpdateReady, moved
<1>14. DeleteReady(s)'
  <2>1. SUFFICES ASSUME req[s].kind = "delete", InFlight(s),
                        stale'[s] = {}
                 PROVE  OneRole(rels' \cup req[s].change.undo.touch)
    BY <1>2, <1>3 DEF DeleteReady
  <2>2. Atoms(w) = {} /\ stale[s] = {}
    BY <1>5, <1>6, <2>1
  <2>3. rels' = rels
    BY <1>7, <1>8, <2>2
  <2>4. QED
    BY <1>1, <2>1, <2>2, <2>3 DEF Ready, DeleteReady
<1>15. MembersReady(s)'
  <2>1. SUFFICES ASSUME req[s].pc = "members", stale'[s] \cap MemberRels = {}
                 PROVE  /\ db'.exists =>
                             HasOwner(After(rels', req[s].change.apply) \cup Restorable')
                        /\ OneRole(After(rels', req[s].change.apply))
    BY <1>2 DEF MembersReady
  <2>2. Atoms(w) \cap MemberRels = {} /\ stale[s] \cap MemberRels = {}
    BY <1>5, <1>6, <2>1 DEF InFlight
  <2>3. \A a \in MemberRels : a \in rels' <=> a \in rels
    BY <1>7, <1>8, <2>2
  <2>4. \A a \in MemberRels : a \in After(rels', req[s].change.apply)
                                 <=> a \in After(rels, req[s].change.apply)
    BY <2>3 DEF After
  <2>5. \A u \in Users, role \in Roles : Role(u, role) \in MemberRels
    BY RelTypes
  <2>6. \A u \in Users : Owner(u) \in MemberRels
    BY RelTypes
  <2>7. OneRole(After(rels', req[s].change.apply))
    <3>1. OneRole(After(rels, req[s].change.apply))
      BY <1>1, <2>1, <2>2 DEF Ready, MembersReady
    <3>2. QED
      BY <2>4, <2>5, <3>1 DEF OneRole, Roles
  <2>8. ASSUME db'.exists
        PROVE  HasOwner(After(rels', req[s].change.apply) \cup Restorable')
    <3>1. db.exists
      BY <1>9, <2>1, <2>8
    <3>2. PICK u \in Users :
             Owner(u) \in After(rels, req[s].change.apply) \cup Restorable
      BY <1>1, <2>1, <2>2, <3>1 DEF Ready, MembersReady, HasOwner
    <3>3. CASE Owner(u) \in After(rels, req[s].change.apply)
      BY <2>4, <2>6, <3>3 DEF HasOwner
    <3>4. CASE Owner(u) \in Restorable
      <4>1. ~(Undo(r) /\ Owner(u) \in req[r].change.undo.touch)
        <5>1. SUFFICES ASSUME Undo(r), Owner(u) \in req[r].change.undo.touch
                       PROVE  FALSE
          OBVIOUS
        <5>2. Sent(r, req[r].change.undo)
          BY <5>1 DEF Undo
        <5>3. Wrote(r, req[r].change.undo)
          BY <5>2, RequestTypes, SentWrote DEF LockInv
        <5>4. Owner(u) \in stale'[s]
          BY <2>1, <5>1, <5>3 DEF Wrote, Atoms, InFlight
        <5>5. QED
          BY <2>1, <2>6, <5>4
      <4>2. Owner(u) \in Restorable'
        BY <2>8, <3>4, <4>1, RestorableStep
      <4>3. QED
        BY <4>2 DEF HasOwner
    <3>5. QED
      BY <3>2, <3>3, <3>4
  <2>9. QED
    BY <2>7, <2>8
<1>16. QED
  BY <1>10, <1>11, <1>12, <1>13, <1>14, <1>15 DEF Ready

LEMMA KindOf ==
  ASSUME TypeOK, NEW r \in Requests
  PROVE  req[r].kind \in {"none", "create", "update", "delete", "members"}
BY DEF TypeOK, Request

(* Nothing that a project needs is lost, except to a change of its members. *)
LEMMA KeptStep ==
  ASSUME TypeOK, LockInv, AuthzInv, NEW r \in Requests, Step(r), ~clash',
         db.exists, db'.exists, NEW a \in Kept, a # PublicViewers,
         WriteMembers(r) => a \notin MemberRels
  PROVE  a \in Kept'
<1>1. ~clash /\ Ready(r)
  BY ClashGrows DEF AuthzInv
<1>2. CASE a \in Restorable
  <2>1. CASE Undo(r) /\ a \in req[r].change.undo.touch
    <3>1. rels' = After(rels, req[r].change.undo)
      BY <2>1 DEF Undo, Sent, Written
    <3>2. QED
      BY <2>1, <3>1 DEF After, Kept
  <2>2. QED
    BY <1>2, <2>1, RestorableStep DEF Kept
<1>3. CASE a \in rels
  <2>1. CASE rels' = rels
    BY <1>3, <2>1 DEF Kept
  <2>2. CASE WriteMembers(r)
    <3>1. rels' = After(rels, req[r].change.apply)
      BY <2>2 DEF WriteMembers, Sent, Written
    <3>2. req[r].kind \in {"none", "members"}
      BY <2>2 DEF WriteMembers, LockInv, Shape, ShapeOf
    <3>3. req[r].change.apply.delete \subseteq MemberRels
      BY <1>1, <3>2 DEF Ready, ChangeOK, Atoms
    <3>4. QED
      BY <1>3, <2>2, <3>1, <3>3 DEF After, Kept
  <2>3. CASE /\ Apply(r) \/ ApplyFails(r)
             /\ Wrote(r, req[r].change.apply)
    <3>1. a \in rels' \/ a \in req[r].change.apply.delete
      BY <1>3, <2>3 DEF Wrote, After
    <3>2. req[r].pc = "changed"
      BY <2>3 DEF Apply, ApplyFails
    <3>3. req[r].kind \in {"create", "update", "delete"}
      BY <3>2 DEF LockInv, Shape, ShapeOf
    <3>4. CASE req[r].kind \in {"create", "update"}
      BY <1>1, <3>1, <3>4 DEF Ready, ChangeOK, Kept
    <3>5. CASE req[r].kind = "delete"
      <4>1. a \in req[r].change.apply.delete => a \in req[r].change.undo.touch
        BY <1>1, <3>5 DEF Ready, ChangeOK
      <4>2. \E p \in {"applied", "failed"} : req' = [req EXCEPT ![r].pc = p]
        BY <2>3 DEF Apply, ApplyFails
      <4>3. MayRestore(r)' /\ req'[r].change = req[r].change
        BY <3>5, <4>2, PcOnly DEF SamePlan, MayRestore
      <4>4. a \in req[r].change.undo.touch => a \in Restorable'
        BY <4>3 DEF Restorable
      <4>5. QED
        BY <3>1, <4>1, <4>4 DEF Kept
    <3>6. QED
      BY <3>3, <3>4, <3>5
  <2>4. CASE Undo(r) /\ Wrote(r, req[r].change.undo)
    <3>1. a \in rels' \/ a \in req[r].change.undo.delete
      BY <1>3, <2>4 DEF Wrote, After
    <3>2. req[r].kind # "create"
      BY <1>1, RowKinds DEF Ready, Created, LockInv, Alone
    <3>3. req[r].change.undo.delete \subseteq {PublicViewers}
      BY <1>1, <3>2, KindOf DEF Ready, ChangeOK, NoWrite
    <3>4. QED
      BY <3>1, <3>3 DEF Kept
  <2>5. QED
    BY <2>1, <2>2, <2>3, <2>4, Effects DEF LockInv
<1>4. QED
  BY <1>2, <1>3 DEF Kept

(* Who commits has been told of whatever others wrote.                     *)
LEMMA NotDisturbed ==
  ASSUME TypeOK, NEW r \in Requests, ~Disturbed(r)
  PROVE  /\ req[r].kind # "update" => stale[r] \cap MemberRels = {}
         /\ req[r].kind \in {"create", "delete"} => stale[r] = {}
         /\ req[r].kind = "update" /\ NamespaceDiffers(r) =>
               stale[r] \cap NamespaceRels = {}
<1>1. stale[r] \subseteq Rels
  BY DEF TypeOK
<1>2. QED
  BY <1>1, RelTypes DEF Disturbed, Uses

(* A committed project keeps what it needs.                                *)
LEMMA WholeStep ==
  ASSUME TypeOK, LockInv, AuthzInv, NEW r \in Requests, Step(r), ~clash',
         db'.exists
  PROVE  Complete(db', Kept')
<1>1. ~clash /\ Ready(r)
  BY ClashGrows DEF AuthzInv
<1>2. ASSUME db' # db
      PROVE  /\ Commit(r) /\ req[r].wrote /\ db' = req[r].new
             /\ rels' = rels /\ ~Disturbed(r)
             /\ req[r].pc = "applied" /\ Locks(r)
  <2>1. Locks(r) /\ db' = req[r].new
    BY <1>2, LockFrame DEF LockInv
  <2>2. ASSUME NEW w, MembersRead(r, w) PROVE FALSE
    BY <1>2, <2>2 DEF MembersRead
  <2>3. ASSUME NEW c, Decided(r, c) PROVE FALSE
    BY <1>2, <2>3 DEF Decided
  <2>4. ~CommitLost(r)
    BY DEF CommitLost
  <2>5. Commit(r)
    BY <1>2, <2>2, <2>3, <2>4 DEF Step, Create, Look, Patch, PatchNothing,
       Delete, Fail, DecideCreate, DecideDelete, DecideUpdate, DecideOutdated,
       Apply, ApplyFails, CommitFails, Rollback, Undo, UndoFails, Die,
       RemoveMembers, UpsertMember, WriteMembers
  <2>6. QED
    BY <2>1, <2>5 DEF Commit, Locks
<1>3. CASE ~db.exists
  <2>1. db' # db /\ req[r].kind = "create"
    BY <1>3, RowAppears
  <2>2. stale[r] = {}
    BY <1>2, <2>1, NotDisturbed
  <2>3. Complete(req[r].new, rels)
    BY <1>1, <1>2, <2>1, <2>2 DEF Ready, CreateReady
  <2>4. QED
    BY <1>2, <2>1, <2>3 DEF Complete, HasNamespace, HasOwner, Kept
<1>4. CASE db.exists
  <2>1. Complete(db, Kept)
    BY <1>1, <1>4 DEF AuthzInv
  <2>2. Platform \in Kept'
    BY <1>4, <2>1, KeptStep, RelKinds DEF Complete
  <2>3. HasOwner(Kept')
    <3>1. CASE ~WriteMembers(r)
      <4>1. PICK u \in Users : Owner(u) \in Kept
        BY <2>1 DEF Complete, HasOwner
      <4>2. Owner(u) # PublicViewers
        BY RelTypes, RelKinds
      <4>3. Owner(u) \in Kept'
        BY <1>4, <3>1, <4>1, <4>2, KeptStep
      <4>4. QED
        BY <4>3 DEF HasOwner
    <3>2. CASE WriteMembers(r)
      <4>1. ~Disturbed(r) /\ req[r].pc = "members"
        BY <3>2 DEF WriteMembers
      <4>2. req[r].kind # "update"
        BY <4>1 DEF LockInv, Shape, ShapeOf
      <4>3. stale[r] \cap MemberRels = {}
        BY <4>1, <4>2, NotDisturbed
      <4>4. HasOwner(After(rels, req[r].change.apply) \cup Restorable)
        BY <1>1, <1>4, <4>1, <4>3 DEF Ready, MembersReady
      <4>5. rels' = After(rels, req[r].change.apply)
        BY <3>2 DEF WriteMembers, Sent, Written
      <4>6. \A a \in Restorable : a \in Restorable'
        <5>1. ~Undo(r)
          BY <4>1 DEF Undo
        <5>2. QED
          BY <5>1, RestorableStep
      <4>7. QED
        BY <4>4, <4>5, <4>6 DEF HasOwner, Kept
    <3>3. QED
      BY <3>1, <3>2
  <2>4. HasNamespace(db', Kept')
    <3>1. ASSUME db'.ns = db.ns PROVE HasNamespace(db', Kept')
      <4>1. PICK id \in {"group", "namespace"} : InNamespace(db.ns, id) \in Kept
        BY <2>1 DEF Complete, HasNamespace
      <4>2. InNamespace(db.ns, id) # PublicViewers
        BY DEF InNamespace, PublicViewers
      <4>3. InNamespace(db.ns, id) \notin MemberRels
        BY DEF InNamespace, MemberRels, RolesOf, Role, Roles
      <4>4. InNamespace(db.ns, id) \in Kept'
        BY <1>4, <4>1, <4>2, <4>3, KeptStep
      <4>5. QED
        BY <3>1, <4>4 DEF HasNamespace
    <3>2. CASE db' # db
      <4>1. req[r].kind = "update"
        <5>1. req[r].kind # "create"
          BY <1>2, <1>4, <3>2, RowKinds DEF LockInv, Alone
        <5>2. req[r].kind # "delete"
          BY <1>2, <3>2, RowKinds DEF LockInv, Shape, ShapeOf
        <5>3. QED
          BY <1>2, <3>2, <5>1, <5>2 DEF LockInv, Shape, ShapeOf
      <4>2. CASE NamespaceDiffers(r)
        <5>1. stale[r] \cap NamespaceRels = {}
          BY <1>2, <3>2, <4>1, <4>2, NotDisturbed
        <5>2. InNamespace(req[r].new.ns, "namespace") \in rels
          BY <1>1, <1>2, <3>2, <4>1, <4>2, <5>1 DEF Ready, UpdateReady
        <5>3. QED
          BY <1>2, <3>2, <5>2 DEF HasNamespace, Kept
      <4>3. CASE ~NamespaceDiffers(r)
        <5>1. req[r].new.ns = db.ns
          BY <1>2, <3>2, <4>1, <4>3 DEF LockInv, NoLostPatch, NamespaceDiffers
        <5>2. QED
          BY <1>2, <3>1, <3>2, <5>1
      <4>4. QED
        BY <4>2, <4>3
    <3>3. QED
      BY <3>1, <3>2
  <2>5. QED
    BY <2>2, <2>3, <2>4 DEF Complete
<1>5. QED
  BY <1>3, <1>4

LEMMA OneRoleStep ==
  ASSUME TypeOK, LockInv, AuthzInv, NEW r \in Requests, Step(r), ~clash'
  PROVE  OneRole(rels')
<1>1. ~clash /\ Ready(r) /\ OneRole(rels)
  BY ClashGrows DEF AuthzInv
<1>2. \A u \in Users, role \in Roles : Role(u, role) \in MemberRels
  BY RelTypes
<1>3. ASSUME NEW S, OneRole(S), \A a \in MemberRels : a \in rels' => a \in S
      PROVE  OneRole(rels')
  BY <1>2, <1>3 DEF OneRole, Roles
<1>4. CASE rels' = rels
  BY <1>1, <1>4
<1>5. CASE WriteMembers(r)
  <2>1. ~Disturbed(r) /\ req[r].pc = "members"
    BY <1>5 DEF WriteMembers
  <2>2. req[r].kind # "update"
    BY <2>1 DEF LockInv, Shape, ShapeOf
  <2>3. OneRole(After(rels, req[r].change.apply))
    BY <1>1, <2>1, <2>2, NotDisturbed DEF Ready, MembersReady
  <2>4. rels' = After(rels, req[r].change.apply)
    BY <1>5 DEF WriteMembers, Sent, Written
  <2>5. QED
    BY <2>3, <2>4
<1>6. CASE /\ Apply(r) \/ ApplyFails(r)
           /\ Wrote(r, req[r].change.apply)
  <2>1. rels' \subseteq rels \cup req[r].change.apply.touch
    BY <1>6 DEF Wrote, After
  <2>2. req[r].pc = "changed"
    BY <1>6 DEF Apply, ApplyFails
  <2>3. req[r].kind \in {"create", "update", "delete"}
    BY <2>2 DEF LockInv, Shape, ShapeOf
  <2>4. CASE req[r].kind = "create"
    <3>1. rels \cap MemberRels = {} /\ OneRole(req[r].change.apply.touch)
      BY <1>1, <2>2, <2>4 DEF Ready, CreateReady
    <3>2. \A a \in MemberRels : a \in rels' => a \in req[r].change.apply.touch
      BY <2>1, <3>1
    <3>3. QED
      BY <1>3, <3>1, <3>2
  <2>5. CASE req[r].kind \in {"update", "delete"}
    <3>1. req[r].change.apply.touch \cap MemberRels = {}
      BY <1>1, <2>5 DEF Ready, ChangeOK
    <3>2. \A a \in MemberRels : a \in rels' => a \in rels
      BY <2>1, <3>1
    <3>3. QED
      BY <1>1, <1>3, <3>2
  <2>6. QED
    BY <2>3, <2>4, <2>5
<1>7. CASE Undo(r) /\ Wrote(r, req[r].change.undo)
  <2>1. rels' \subseteq rels \cup req[r].change.undo.touch
    BY <1>7 DEF Wrote, After
  <2>2. CASE req[r].kind = "delete"
    <3>1. CASE stale[r] = {}
      <4>1. OneRole(rels \cup req[r].change.undo.touch)
        BY <1>1, <1>7, <2>2, <3>1 DEF Ready, DeleteReady, InFlight, Undo
      <4>2. QED
        BY <1>3, <2>1, <4>1
    <3>2. CASE stale[r] # {}
      <4>1. Disturbed(r)
        BY <2>2, <3>2, NotDisturbed
      <4>2. Atoms(req[r].change.undo) = {}
        BY <1>7, <4>1 DEF Undo
      <4>3. \A a \in MemberRels : a \in rels' => a \in rels
        BY <2>1, <4>2 DEF Atoms
      <4>4. QED
        BY <1>1, <1>3, <4>3
    <3>3. QED
      BY <3>1, <3>2
  <2>3. CASE req[r].kind # "delete"
    <3>1. req[r].change.undo.touch \cap MemberRels = {}
      BY <1>1, <2>3, KindOf DEF Ready, ChangeOK, NoWrite
    <3>2. \A a \in MemberRels : a \in rels' => a \in rels
      BY <2>1, <3>1
    <3>3. QED
      BY <1>1, <1>3, <3>2
  <2>4. QED
    BY <2>2, <2>3
<1>8. QED
  BY <1>4, <1>5, <1>6, <1>7, Effects DEF LockInv

(* What the operations of Authz compute.                                   *)
LEMMA AddedOK ==
  ASSUME NEW u \in Users, NEW p \in Project
  PROVE  /\ Complete(p, Added(u, p).apply.touch)
         /\ OneRole(Added(u, p).apply.touch)
         /\ Added(u, p).apply.delete = {}
         /\ Added(u, p).undo.touch = {}
<1> DEFINE S == {Owner(u), Platform, RightNamespace(p.ns)}
                   \cup (IF p.vis = "public" THEN {PublicViewers} ELSE {})
<1>1. /\ Added(u, p).apply.touch = S /\ Added(u, p).apply.delete = {}
      /\ Added(u, p).undo.touch = {}
  BY DEF Added
<1>2. HasNamespace(p, S)
  BY DEF HasNamespace, RightNamespace
<1>3. ASSUME NEW v \in Users PROVE Role(v, "viewer") \notin S
  BY DEF Role, Owner, Platform, RightNamespace, InNamespace, PublicViewers
<1>4. OneRole(S)
  BY <1>3 DEF OneRole
<1> HIDE DEF S
<1>5. HasOwner(S) /\ Platform \in S
  BY DEF S, HasOwner
<1>6. QED
  BY <1>1, <1>2, <1>4, <1>5 DEF Complete

LEMMA MergedOK ==
  ASSUME NEW r \in Requests, NEW public,
         req[r].new \in Project, rels \in SUBSET Rels,
         NEW v \in VisibilityChanges(r, public), NEW n \in NamespaceChanges(r)
  PROVE  LET c == Merged(v, n) IN
         /\ c.apply.delete \subseteq {PublicViewers}
         /\ c.undo.delete \subseteq {PublicViewers}
         /\ (c.apply.touch \cup c.undo.touch) \cap MemberRels = {}
         /\ NamespaceDiffers(r) =>
              InNamespace(req[r].new.ns, "namespace") \in rels \cup c.apply.touch
<1>1. /\ v.apply.delete \subseteq {PublicViewers}
      /\ v.undo.delete \subseteq {PublicViewers}
      /\ v.apply.touch \subseteq {PublicViewers}
      /\ v.undo.touch \subseteq {PublicViewers}
  BY DEF VisibilityChanges, VisibilityChange, NoChange, NoWrite
<1>2. req[r].new.ns \in Namespaces
  BY RowKinds
<1>3. /\ n.apply.delete = {}
      /\ n.undo.delete = {}
      /\ n.apply.touch \subseteq NamespaceRels
      /\ n.undo.touch \subseteq NamespaceRels
  BY <1>2, RelTypes DEF NamespaceChanges, NamespaceChange, NoChange, NoWrite
<1>4. NamespaceDiffers(r) =>
        InNamespace(req[r].new.ns, "namespace") \in rels \cup n.apply.touch
  BY DEF NamespaceChanges, NamespaceChange
<1>5. /\ Merged(v, n).apply.touch = v.apply.touch \cup n.apply.touch
      /\ Merged(v, n).apply.delete = v.apply.delete \cup n.apply.delete
      /\ Merged(v, n).undo.touch = v.undo.touch \cup n.undo.touch
      /\ Merged(v, n).undo.delete = v.undo.delete \cup n.undo.delete
  BY DEF Merged
<1>6. QED
  BY <1>1, <1>3, <1>4, <1>5, RelKinds

-----------------------------------------------------------------------------
(* A step of r leaves r ready.                                             *)

LEMMA ReadyEnded ==
  ASSUME NEW r \in Requests, req'[r] = Ended
  PROVE  Ready(r)'
<1>1. /\ req'[r].kind = "none" /\ req'[r].pc = "done"
      /\ req'[r].change = NoChange /\ ~req'[r].wrote
  BY DEF Ended, NewRequest
<1>2. ChangeOK(req'[r])
  BY <1>1 DEF ChangeOK, NoChange, NoWrite, Atoms
<1>3. QED
  BY <1>1, <1>2 DEF Ready, Created, Gone, CreateReady, UpdateReady, DeleteReady,
                    MembersReady

(* Before a request has a change.                                          *)
LEMMA ReadyFresh ==
  ASSUME TypeOK, LockInv, AuthzInv, NEW r \in Requests, ~clash,
         Create(r) \/ Look(r) \/ Patch(r) \/ PatchNothing(r) \/ Delete(r)
  PROVE  Ready(r)'
<1> DEFINE q == req[r]
<1>1. req \in [Requests -> Request] /\ q \in Request /\ ShapeOf(q)
  BY RequestTypes DEF TypeOK, LockInv, Shape
<1> DEFINE seen == req'[r]
<1>2. ASSUME Look(r)
      PROVE  /\ seen.change = NoChange /\ seen.pc = "read"
             /\ seen.kind \in {"update", "delete"}
  <2>1. PICK kind \in {"update", "delete"}, p \in Project, other \in BOOLEAN :
           seen = [NewRequest EXCEPT !.pc = "read", !.kind = kind,
                     !.old = db, !.want = p, !.other = other]
    BY <1>2, <1>1 DEF Look
  <2> HIDE DEF seen
  <2>2. QED
    BY <2>1 DEF NewRequest
<1>3. ASSUME Create(r)
      PROVE  /\ seen.change = NoChange /\ seen.pc = "written"
             /\ seen.kind = "create" /\ seen.wrote /\ rels' = {}
  <2>1. PICK p \in Project :
           seen = [NewRequest EXCEPT !.pc = "written", !.kind = "create",
                     !.new = p, !.wrote = TRUE]
    BY <1>3, <1>1 DEF Create
  <2>2. rels' = {}
    BY <1>3 DEF Create
  <2> HIDE DEF seen
  <2>3. QED
    BY <2>1, <2>2 DEF NewRequest
<1>4. req'[r].change = NoChange
  <2>1. CASE Create(r)
    BY <1>3, <2>1
  <2>2. CASE Look(r)
    BY <1>2, <2>2
  <2>3. CASE Patch(r) \/ PatchNothing(r) \/ Delete(r)
    <3>1. q.change = NoChange
      BY <1>1, <2>3 DEF ShapeOf, Patch, PatchNothing, Delete
    <3>2. req'[r].change = q.change
      BY <1>1, <2>3 DEF Patch, PatchNothing, Delete, Request
    <3>3. QED
      BY <3>1, <3>2
  <2>4. QED
    BY <2>1, <2>2, <2>3
<1>5. req'[r].pc \in {"read", "written"}
  <2>1. CASE Create(r)
    BY <1>3, <2>1
  <2>2. CASE Look(r)
    BY <1>2, <2>2
  <2>3. CASE Patch(r) \/ PatchNothing(r) \/ Delete(r)
    BY <1>1, <2>3 DEF Patch, PatchNothing, Delete, Request
  <2>4. QED
    BY <2>1, <2>2, <2>3
<1>6. req'[r].kind = "create" => req'[r].wrote /\ rels' = {}
  <2>1. CASE Create(r)
    BY <1>3, <2>1
  <2>2. CASE Look(r)
    BY <1>2, <2>2
  <2>3. CASE Patch(r) \/ PatchNothing(r) \/ Delete(r)
    BY <1>1, <2>3 DEF Patch, PatchNothing, Delete, Request
  <2>4. QED
    BY <2>1, <2>2, <2>3
<1>7. req'[r].kind = "delete" /\ req'[r].pc = "written" /\ ~req'[r].wrote
        => ~db'.exists
  <2>1. CASE Create(r)
    BY <1>3, <2>1
  <2>2. CASE Look(r)
    BY <1>2, <2>2
  <2>3. CASE Patch(r) \/ PatchNothing(r)
    BY <1>1, <2>3 DEF Patch, PatchNothing, Request
  <2>4. CASE Delete(r)
    BY <1>1, <2>4 DEF Delete, Request
  <2>5. QED
    BY <2>1, <2>2, <2>3, <2>4
<1>8. ChangeOK(req'[r])
  BY <1>4 DEF ChangeOK, NoChange, NoWrite, Atoms
<1>9. QED
  BY <1>4, <1>5, <1>6, <1>7, <1>8 DEF Ready, Created, Gone, CreateReady,
     UpdateReady, DeleteReady, MembersReady, InFlight

(* A request that failed.                                                  *)
LEMMA ReadyFailed ==
  ASSUME TypeOK, LockInv, AuthzInv, NEW r \in Requests, ~clash,
         Fail(r) \/ CommitFails(r) \/ Rollback(r)
  PROVE  Ready(r)'
<1> DEFINE q == req[r]
<1>1. ShapeOf(q) /\ Ready(r) /\ OneRole(rels)
  BY DEF LockInv, Shape, AuthzInv
<1>2. \E p \in {"failed", "undo"} : req' = [req EXCEPT ![r].pc = p]
  BY DEF Fail, CommitFails, Rollback
<1>3. SamePlan(r) /\ req'[r].pc \in {"failed", "undo"} /\ req'[r].change = q.change
  BY <1>2, PcOnly
<1>4. db' = db /\ rels' = rels /\ stale' = stale
  BY DEF Fail, CommitFails, Rollback
<1>5. ChangeOK(req'[r]) /\ Created(r)' /\ Gone(r)'
  BY <1>1, <1>3, <1>4 DEF SamePlan, Ready, ChangeOK, Created, Gone
<1>6. DeleteReady(r)'
  <2>1. CASE Fail(r)
    <3>1. q.change.undo.touch = {}
      BY <1>1, <2>1 DEF Fail, ShapeOf, NoChange, NoWrite
    <3>2. rels \cup q.change.undo.touch = rels
      BY <3>1
    <3>3. QED
      BY <1>1, <1>3, <1>4, <3>2 DEF DeleteReady
  <2>2. CASE CommitFails(r) \/ Rollback(r)
    <3>1. InFlight(r)
      BY <2>2 DEF CommitFails, Rollback, InFlight
    <3>2. QED
      BY <1>1, <1>3, <1>4, <3>1 DEF Ready, DeleteReady, SamePlan
  <2>3. QED
    BY <2>1, <2>2
<1>7. QED
  BY <1>3, <1>5, <1>6 DEF Ready, CreateReady, UpdateReady, MembersReady

(* What a change is when it is decided.                                    *)
LEMMA ReadyDecided ==
  ASSUME TypeOK, LockInv, AuthzInv, NEW r \in Requests, ~clash,
         DecideCreate(r) \/ DecideDelete(r) \/ DecideUpdate(r)
  PROVE  Ready(r)'
<1> DEFINE q == req[r]
<1>1. q \in Request /\ ShapeOf(q) /\ Ready(r) /\ OneRole(rels)
  BY RequestTypes DEF LockInv, Shape, AuthzInv
<1>2. q.pc = "written"
  BY DEF DecideCreate, DecideDelete, DecideUpdate
<1>3. ASSUME NEW c, Decided(r, c)
      PROVE  /\ req'[r].kind = q.kind /\ req'[r].wrote = q.wrote
             /\ req'[r].old = q.old /\ req'[r].new = q.new
             /\ req'[r].pc = "changed" /\ req'[r].change = c
             /\ db' = db /\ rels' = rels
  <2>1. req'[r] = [q EXCEPT !.pc = "changed", !.change = c]
    BY <1>3 DEF Decided, TypeOK
  <2>2. db' = db /\ rels' = rels
    BY <1>3 DEF Decided
  <2> HIDE DEF q
  <2>3. QED
    BY <1>1, <2>1, <2>2 DEF Request
<1>4. CASE DecideCreate(r)
  <2>1. PICK u \in Users : Decided(r, Added(u, q.new))
    BY <1>4 DEF DecideCreate
  <2>2. q.kind = "create" /\ q.wrote /\ q.new \in Project
    BY <1>1, <1>2, <1>4 DEF DecideCreate, ShapeOf
  <2> DEFINE c == Added(u, q.new)
  <2>3. /\ Complete(q.new, c.apply.touch) /\ OneRole(c.apply.touch)
        /\ c.apply.delete = {} /\ c.undo.touch = {}
    BY <2>2, AddedOK
  <2>4. rels \cap MemberRels = {}
    BY <1>1, <1>2, <2>2 DEF Ready, CreateReady
  <2> HIDE DEF c
  <2>5. /\ req'[r].kind = "create" /\ req'[r].wrote /\ req'[r].new = q.new
        /\ req'[r].pc = "changed" /\ req'[r].change = c /\ rels' = rels
    BY <1>3, <2>1, <2>2 DEF c
  <2>6. QED
    BY <2>3, <2>4, <2>5 DEF Ready, ChangeOK, Created, Gone, CreateReady,
       UpdateReady, DeleteReady, MembersReady
<1>5. CASE DecideDelete(r)
  <2>1. Decided(r, Removed) /\ q.kind = "delete"
    BY <1>5 DEF DecideDelete
  <2>2. /\ Removed.apply.touch = {} /\ Removed.apply.delete = rels
        /\ Removed.undo.touch = rels /\ Removed.undo.delete = {}
    BY DEF Removed
  <2>3. ~q.wrote => ~db.exists
    BY <1>1, <1>2, <2>1 DEF Ready, Gone
  <2>4. /\ req'[r].kind = "delete" /\ req'[r].wrote = q.wrote
        /\ req'[r].pc = "changed" /\ req'[r].change = Removed
        /\ db' = db /\ rels' = rels
    BY <1>3, <2>1
  <2>5. OneRole(rels' \cup req'[r].change.undo.touch)
    <3>1. rels' \cup req'[r].change.undo.touch = rels
      BY <2>2, <2>4
    <3>2. QED
      BY <1>1, <3>1
  <2>6. QED
    BY <2>2, <2>3, <2>4, <2>5 DEF Ready, ChangeOK, Created, Gone, CreateReady,
       UpdateReady, DeleteReady, MembersReady
<1>6. CASE DecideUpdate(r)
  <2>1. PICK v \in VisibilityChanges(r, PublicViewers \in rels),
             n \in NamespaceChanges(r) : Decided(r, Merged(v, n))
    BY <1>6 DEF DecideUpdate
  <2>2. q.kind = "update" /\ q.new \in Project /\ rels \in SUBSET Rels
    BY <1>1, <1>2, <1>6 DEF DecideUpdate, ShapeOf, TypeOK
  <2> DEFINE c == Merged(v, n)
             moved == InNamespace(q.new.ns, "namespace")
  <2>3. /\ c.apply.delete \subseteq {PublicViewers}
        /\ c.undo.delete \subseteq {PublicViewers}
        /\ (c.apply.touch \cup c.undo.touch) \cap MemberRels = {}
        /\ NamespaceDiffers(r) => moved \in rels \cup c.apply.touch
    BY <2>1, <2>2, MergedOK
  <2> HIDE DEF c
  <2>4. /\ req'[r].kind = "update" /\ req'[r].new = q.new /\ req'[r].old = q.old
        /\ req'[r].pc = "changed" /\ req'[r].change = c /\ rels' = rels
    BY <1>3, <2>1, <2>2 DEF c
  <2>5. UpdateReady(r)'
    BY <2>3, <2>4 DEF UpdateReady, NamespaceDiffers
  <2>6. QED
    BY <2>3, <2>4, <2>5 DEF Ready, ChangeOK, Created, Gone, CreateReady,
       DeleteReady, MembersReady
<1>7. QED
  BY <1>4, <1>5, <1>6

(* When the relationships have been written, or the call has failed.       *)
LEMMA ReadyApplied ==
  ASSUME TypeOK, LockInv, AuthzInv, NEW r \in Requests, ~clash',
         Apply(r) \/ ApplyFails(r)
  PROVE  Ready(r)'
<1> DEFINE q == req[r]
<1>1. Step(r)
  BY DEF Step
<1>2. ShapeOf(q) /\ Ready(r) /\ OneRole(rels)
  BY <1>1, ClashGrows DEF LockInv, Shape, AuthzInv
<1>3. q.pc = "changed" /\ db' = db /\ ~Disturbed(r)
  BY DEF Apply, ApplyFails
<1>4. PICK w \in {NoWrite, q.change.apply} :
         Sent(r, w) /\ (Apply(r) => w = q.change.apply)
  BY DEF Apply, ApplyFails
<1>5. rels' = After(rels, w) /\ stale'[r] = stale[r]
  BY <1>4 DEF Sent, Written
<1>6. PICK p \in {"applied", "failed"} :
         req' = [req EXCEPT ![r].pc = p] /\ (p = "applied" => Apply(r))
  BY DEF Apply, ApplyFails
<1>7. SamePlan(r) /\ req'[r].pc = p /\ req'[r].change = q.change
  BY <1>6, PcOnly
<1>8. ChangeOK(req'[r]) /\ Created(r)' /\ Gone(r)'
  <2>1. q.change # NoChange \/ q.change = NoChange
    OBVIOUS
  <2>2. QED
    BY <1>2, <1>3, <1>6, <1>7 DEF SamePlan, Ready, ChangeOK, Created, Gone
<1>9. CreateReady(r)'
  <2>1. SUFFICES ASSUME q.kind = "create", p = "applied"
                 PROVE  Complete(q.new, rels')
    BY <1>6, <1>7 DEF CreateReady, SamePlan
  <2>2. Complete(q.new, q.change.apply.touch)
    BY <1>2, <1>3, <2>1 DEF Ready, CreateReady
  <2>3. q.change.apply.touch \subseteq rels'
    BY <1>4, <1>5, <1>6, <2>1 DEF After
  <2>4. QED
    BY <2>2, <2>3 DEF Complete, HasNamespace, HasOwner
<1>10. UpdateReady(r)'
  <2> DEFINE moved == InNamespace(q.new.ns, "namespace")
  <2>1. SUFFICES ASSUME q.kind = "update", q.wrote, NamespaceDiffers(r),
                        p = "applied"
                 PROVE  moved \in rels'
    BY <1>6, <1>7 DEF UpdateReady, SamePlan, NamespaceDiffers
  <2>2. moved \in rels \cup q.change.apply.touch
    <3>1. stale[r] \cap NamespaceRels = {}
      BY <1>3, <2>1, NotDisturbed
    <3>2. QED
      BY <1>2, <1>3, <2>1, <3>1 DEF Ready, UpdateReady
  <2>3. moved # PublicViewers
    BY DEF InNamespace, PublicViewers
  <2>4. q.change.apply.delete \subseteq {PublicViewers}
    BY <1>2, <2>1 DEF Ready, ChangeOK
  <2>5. rels' = After(rels, q.change.apply)
    BY <1>4, <1>5, <1>6, <2>1
  <2> HIDE DEF moved
  <2>6. QED
    BY <2>2, <2>3, <2>4, <2>5 DEF After
<1>11. DeleteReady(r)'
  <2>1. SUFFICES ASSUME q.kind = "delete"
                 PROVE  \/ OneRole(rels' \cup q.change.undo.touch)
                        \/ stale[r] # {}
    BY <1>5, <1>7 DEF DeleteReady, SamePlan
  <2>2. OneRole(rels \cup q.change.undo.touch) \/ stale[r] # {}
    BY <1>2, <1>3, <2>1 DEF Ready, DeleteReady, InFlight
  <2>3. q.change.apply.touch = {}
    BY <1>2, <2>1 DEF Ready, ChangeOK
  <2>4. rels' \subseteq rels
    BY <1>4, <1>5, <2>3 DEF After, NoWrite
  <2>5. QED
    BY <2>2, <2>4 DEF OneRole
<1>12. MembersReady(r)'
  BY <1>6, <1>7 DEF MembersReady
<1>13. QED
  BY <1>8, <1>9, <1>10, <1>11, <1>12 DEF Ready

(* What a change of the members is when it is decided.                     *)
LEMMA ReadyMembers ==
  ASSUME TypeOK, LockInv, AuthzInv, NEW r \in Requests, ~clash,
         NEW w \in Write, MembersRead(r, w), Atoms(w) \subseteq MemberRels,
         HasOwner(After(rels, w) \cup Restorable), OneRole(After(rels, w))
  PROVE  Ready(r)'
<1> DEFINE q == req'[r]
<1>1. /\ q.pc = "members" /\ q.kind = "members" /\ ~q.wrote
      /\ q.change = [apply |-> w, undo |-> NoWrite]
      /\ rels' = rels
  BY DEF MembersRead, NewRequest, TypeOK
<1>2. \A a \in Restorable : a \in Restorable'
  <2>1. SUFFICES ASSUME NEW a \in Restorable PROVE a \in Restorable'
    OBVIOUS
  <2>2. PICK t \in Requests : MayRestore(t) /\ a \in req[t].change.undo.touch
    BY <2>1, RestorableMember
  <2>3. t # r
    BY <2>2 DEF MayRestore, MembersRead
  <2>4. req'[t] = req[t]
    BY <2>3 DEF MembersRead, TypeOK
  <2>5. MayRestore(t)' /\ a \in req'[t].change.undo.touch
    BY <2>2, <2>4 DEF MayRestore
  <2>6. QED
    BY <2>5 DEF Restorable
<1>3. HasOwner(After(rels', q.change.apply) \cup Restorable')
  BY <1>1, <1>2 DEF HasOwner
<1>4. OneRole(After(rels', q.change.apply))
  BY <1>1
<1>5. QED
  BY <1>1, <1>3, <1>4 DEF Ready, ChangeOK, Created, Gone, CreateReady,
     UpdateReady, DeleteReady, MembersReady

(* The roles of a user are that user's own.                                *)
LEMMA OwnRoles ==
  ASSUME NEW u \in Users, NEW v \in Users, NEW role \in Roles,
         Role(v, role) \in RolesOf(u)
  PROVE  v = u
BY DEF RolesOf, Role

LEMMA OwnerRole == \A u \in Users : Owner(u) = Role(u, "owner") /\ "owner" \in Roles
BY DEF Owner, Role, Roles

LEMMA ReadyRemove ==
  ASSUME TypeOK, LockInv, AuthzInv, NEW r \in Requests, ~clash,
         NEW S \in SUBSET Users, RemoveMembers(r, S)
  PROVE  Ready(r)'
<1> DEFINE gone == rels \cap UNION {RolesOf(u) : u \in S}
           w == [touch |-> {}, delete |-> gone]
<1>1. gone \subseteq MemberRels /\ gone \subseteq rels
  BY RelTypes
<1>2. MembersRead(r, w) /\ db.exists
  BY DEF RemoveMembers, MembersRead
<1>3. w \in Write /\ Atoms(w) \subseteq MemberRels /\ After(rels, w) = rels \ gone
  <2> HIDE DEF gone
  <2>1. QED
    BY <1>1, RelTypes DEF Write, Atoms, After
<1>4. OneRole(rels \ gone)
  BY DEF OneRole, AuthzInv
<1>5. HasOwner((rels \ gone) \cup Restorable)
  <2>1. CASE Owners # {}
    <3>1. PICK u \in Owners : u \notin S
      BY <2>1 DEF RemoveMembers
    <3>2. u \in Users /\ Owner(u) \in rels
      BY <3>1 DEF Owners
    <3>3. Owner(u) \notin gone
      BY <3>1, <3>2, OwnRoles, OwnerRole
    <3>4. QED
      BY <3>2, <3>3 DEF HasOwner
  <2>2. CASE Owners = {}
    <3>1. PICK u \in Users : Owner(u) \in Kept
      BY <1>2 DEF AuthzInv, Complete, HasOwner
    <3>2. Owner(u) \in Restorable
      BY <2>2, <3>1 DEF Owners, Kept
    <3>3. QED
      BY <3>2 DEF HasOwner
  <2>3. QED
    BY <2>1, <2>2
<1> HIDE DEF w, gone
<1>6. QED
  BY <1>2, <1>3, <1>4, <1>5, ReadyMembers

LEMMA ReadyUpsert ==
  ASSUME TypeOK, LockInv, AuthzInv, NEW r \in Requests, ~clash,
         NEW u \in Users, NEW role \in Roles, UpsertMember(r, u, role)
  PROVE  Ready(r)'
<1> DEFINE asked == Role(u, role)
           present == rels \cap RolesOf(u)
           w == [touch |-> {asked} \ present, delete |-> present \ {asked}]
           new == After(rels, w)
<1>1. asked \in RolesOf(u) /\ RolesOf(u) \subseteq MemberRels
  BY RelTypes
<1>2. MembersRead(r, w)
  BY DEF UpsertMember
<1>3. w \in Write /\ Atoms(w) \subseteq MemberRels
  BY <1>1, RelTypes DEF Write, Atoms
<1>4. \A a : a \in new <=> a = asked \/ (a \in rels /\ a \notin RolesOf(u))
  BY DEF After
<1>5. OneRole(rels)
  BY DEF AuthzInv
<1>6. OneRole(new)
  <2>1. ASSUME NEW v \in Users, Role(v, "owner") \in new, Role(v, "viewer") \in new
        PROVE  FALSE
    <3>1. Role(v, "owner") # Role(v, "viewer")
      BY DEF Role
    <3>2. CASE v = u
      <4>1. Role(v, "owner") \in RolesOf(u) /\ Role(v, "viewer") \in RolesOf(u)
        BY <3>2, RelTypes DEF Roles
      <4>2. QED
        BY <1>4, <2>1, <3>1, <4>1
    <3>3. CASE v # u
      <4>1. asked # Role(v, "owner") /\ asked # Role(v, "viewer")
        BY <3>3 DEF Role
      <4>2. Role(v, "owner") \in rels /\ Role(v, "viewer") \in rels
        BY <1>4, <2>1, <4>1
      <4>3. QED
        BY <1>5, <4>2 DEF OneRole
    <3>4. QED
      BY <3>2, <3>3
  <2>2. QED
    BY <2>1 DEF OneRole
<1>7. HasOwner(new)
  <2>1. ASSUME NEW v \in Owners, v # u PROVE HasOwner(new)
    <3>1. v \in Users /\ Owner(v) \in rels
      BY <2>1 DEF Owners
    <3>2. Owner(v) \notin RolesOf(u)
      BY <2>1, <3>1, OwnRoles, OwnerRole
    <3>3. Owner(v) \in new
      BY <1>4, <3>1, <3>2
    <3>4. QED
      BY <3>1, <3>3 DEF HasOwner
  <2>2. CASE asked = Owner(u)
    BY <1>4, <2>2 DEF HasOwner
  <2>3. CASE asked # Owner(u)
    <3>1. role = "viewer"
      BY <2>3 DEF Roles, Role, Owner
    <3>2. ASSUME asked \in present PROVE u \notin Owners
      BY <1>5, <3>1, <3>2, OwnerRole DEF OneRole, Owners
    <3>3. \E v \in Owners : v # u
      BY <2>3, <3>2 DEF UpsertMember
    <3>4. QED
      BY <2>1, <3>3
  <2>4. QED
    BY <2>2, <2>3
<1>8. HasOwner(new \cup Restorable)
  BY <1>7 DEF HasOwner
<1> HIDE DEF w
<1>9. QED
  BY <1>2, <1>3, <1>6, <1>8, ReadyMembers

LEMMA ReadyMover ==
  ASSUME TypeOK, LockInv, AuthzInv, NEW r \in Requests, Step(r), ~clash'
  PROVE  Ready(r)'
<1>1. ~clash
  BY ClashGrows
<1>2. CASE Create(r) \/ Look(r) \/ Patch(r) \/ PatchNothing(r) \/ Delete(r)
  BY <1>1, <1>2, ReadyFresh
<1>3. CASE Fail(r) \/ CommitFails(r) \/ Rollback(r)
  BY <1>1, <1>3, ReadyFailed
<1>4. CASE DecideCreate(r) \/ DecideDelete(r) \/ DecideUpdate(r)
  BY <1>1, <1>4, ReadyDecided
<1>5. CASE Apply(r) \/ ApplyFails(r)
  BY <1>5, ReadyApplied
<1>6. CASE Commit(r) \/ Undo(r) \/ Die(r) \/ WriteMembers(r)
  <2>1. req'[r] = Ended
    BY <1>6 DEF Commit, Undo, Die, WriteMembers, TypeOK
  <2>2. QED
    BY <2>1, ReadyEnded
<1>7. CASE DecideOutdated(r) \/ CommitLost(r) \/ UndoFails(r)
  BY <1>7 DEF DecideOutdated, CommitLost, UndoFails
<1>8. CASE \E S \in SUBSET Users \ {{}} : RemoveMembers(r, S)
  BY <1>1, <1>8, ReadyRemove
<1>9. CASE \E u \in Users, role \in Roles : UpsertMember(r, u, role)
  BY <1>1, <1>9, ReadyUpsert
<1>10. QED
  BY <1>2, <1>3, <1>4, <1>5, <1>6, <1>7, <1>8, <1>9 DEF Step

-----------------------------------------------------------------------------
(* The repair task.                                                        *)

(* What the task writes leaves the members and the platform alone, and the *)
(* namespace of a row that it has compared with.                           *)
LEMMA CorrectionOK ==
  ASSUME NEW S \in SUBSET ByGroup, NEW p \in Row
  PROVE  LET w == Correction(S, p) IN
         /\ Atoms(w) \subseteq NamespaceRels
         /\ p.exists => \A T : HasNamespace(p, T) => HasNamespace(p, After(T, w))
<1> DEFINE w == Correction(S, p)
<1>1. CASE ~p.exists
  BY <1>1, RelTypes DEF Correction, Atoms
<1>2. CASE p.exists /\ (p.ns \in UserNamespaces \/ S = {RightNamespace(p.ns)})
  <2>1. w = NoWrite
    BY <1>2 DEF Correction
  <2>2. \A T : After(T, w) = T
    BY <2>1 DEF After, NoWrite
  <2>3. Atoms(w) = {}
    BY <2>1 DEF Atoms, NoWrite
  <2>4. QED
    BY <2>2, <2>3
<1>3. CASE p.exists /\ ~(p.ns \in UserNamespaces \/ S = {RightNamespace(p.ns)})
  <2>1. w = [touch |-> {RightNamespace(p.ns)}, delete |-> S]
    BY <1>3 DEF Correction
  <2>2. RightNamespace(p.ns) \in NamespaceRels
    BY <1>3, RowKinds, RelTypes
  <2>3. \E id \in {"group", "namespace"} :
           RightNamespace(p.ns) = InNamespace(p.ns, id)
    BY DEF RightNamespace
  <2>4. \A T : HasNamespace(p, After(T, w))
    BY <2>1, <2>3 DEF HasNamespace, After
  <2>5. QED
    BY <2>1, <2>2, <2>4, RelTypes DEF Atoms
<1>4. QED
  BY <1>1, <1>2, <1>3

(* What the invariant depends on.                                          *)
LEMMA AuthzFrame ==
  ASSUME AuthzInv, UNCHANGED <<db, rels, req, stale, clash>>
  PROVE  AuthzInv'
<1>1. Restorable' = Restorable
  BY DEF Restorable, MayRestore
<1>2. ASSUME NEW r \in Requests, Ready(r) PROVE Ready(r)'
  <2>1. ChangeOK(req'[r]) /\ Created(r)' /\ Gone(r)'
    BY <1>2 DEF Ready, Created, Gone
  <2>2. CreateReady(r)' /\ DeleteReady(r)'
    BY <1>2 DEF Ready, CreateReady, DeleteReady, InFlight
  <2>3. UpdateReady(r)' /\ MembersReady(r)'
    BY <1>1, <1>2 DEF Ready, UpdateReady, MembersReady, NamespaceDiffers
  <2>4. QED
    BY <2>1, <2>2, <2>3 DEF Ready
<1>3. Kept' = Kept
  BY <1>1 DEF Kept
<1>4. QED
  BY <1>2, <1>3 DEF AuthzInv

LEMMA RepairKeeps ==
  ASSUME TypeOK, LockInv, AuthzInv, RepairStep
  PROVE  AuthzInv'
<1>1. db' = db /\ req' = req
  BY DEF RepairStep, RepairFind, RepairLook, RepairWrite
<1>2. CASE RepairFind \/ RepairLook
  <2>1. rels' = rels /\ stale' = stale /\ clash' = clash
    BY <1>2 DEF RepairFind, RepairLook
  <2>2. QED
    BY <1>1, <2>1, AuthzFrame
<1>3. CASE RepairWrite
  <2> DEFINE w == repair.write
  <2>1. SUFFICES ASSUME ~clash' PROVE AuthzInv'
    BY DEF AuthzInv
  <2>2. ~clash /\ w = Correction(repair.found, db)
    BY <1>3, <2>1 DEF RepairWrite
  <2>3. repair.found \in SUBSET ByGroup /\ db \in Row
    BY DEF TypeOK, Repair
  <2>4. /\ Atoms(w) \subseteq NamespaceRels
        /\ db.exists => \A T : HasNamespace(db, T) => HasNamespace(db, After(T, w))
    BY <2>2, <2>3, CorrectionOK
  <2>5. /\ rels' = After(rels, w)
        /\ stale' = [s \in Requests |-> IF s \in {t \in Requests : InFlight(t)}
                                        THEN stale[s] \cup Atoms(w) ELSE stale[s]]
    BY <1>3 DEF RepairWrite, Written
  <2> HIDE DEF w
  <2>6. \A s \in Requests : /\ stale[s] \subseteq stale'[s]
                            /\ InFlight(s) => Atoms(w) \subseteq stale'[s]
    BY <2>5
  <2>7. \A a : a \in NamespaceRels \/ (a \in rels' <=> a \in rels)
    BY <2>4, <2>5 DEF After, Atoms
  <2>8. \A a \in MemberRels \cup {Platform} : a \in rels' <=> a \in rels
    BY <2>7, RelKinds
  <2>9. OneRole(rels) /\ (db.exists => Complete(db, Kept)) /\ \A r \in Requests : Ready(r)
    BY <2>2 DEF AuthzInv
  <2>10. \A u \in Users, role \in Roles : Role(u, role) \in MemberRels
    BY RelTypes
  <2>11. \A u \in Users : Owner(u) \in MemberRels
    BY RelTypes
  <2>12. OneRole(rels')
    BY <2>8, <2>9, <2>10 DEF OneRole, Roles
  <2>13. Restorable' = Restorable
    BY <1>1 DEF Restorable, MayRestore
  <2>14. ASSUME db'.exists PROVE Complete(db', Kept')
    <3>1. Complete(db, Kept)
      BY <1>1, <2>9, <2>14
    <3>2. Platform \in Kept'
      BY <2>8, <2>13, <3>1 DEF Complete, Kept
    <3>3. HasOwner(Kept')
      BY <2>8, <2>11, <2>13, <3>1 DEF Complete, Kept, HasOwner
    <3>4. HasNamespace(db, Kept')
      <4>1. HasNamespace(db, After(Kept, w))
        BY <1>1, <2>4, <2>14, <3>1 DEF Complete
      <4>2. After(Kept, w) \subseteq Kept'
        BY <2>5, <2>13 DEF After, Kept
      <4>3. QED
        BY <4>1, <4>2 DEF HasNamespace
    <3>5. QED
      BY <1>1, <3>2, <3>3, <3>4 DEF Complete
  <2>15. ASSUME NEW r \in Requests PROVE Ready(r)'
    <3> DEFINE q == req[r]
    <3>1. req'[r] = q /\ InFlight(r)' = InFlight(r)
          /\ NamespaceDiffers(r)' = NamespaceDiffers(r)
      BY <1>1 DEF InFlight, NamespaceDiffers
    <3>2. Ready(r)
      BY <2>9
    <3>3. ChangeOK(req'[r]) /\ Created(r)' /\ Gone(r)'
      BY <1>1, <3>2 DEF Ready, Created, Gone
    <3>4. CreateReady(r)'
      <4>1. CASE q.kind # "create"
        BY <3>1, <4>1 DEF CreateReady
      <4>2. CASE q.kind = "create"
        <5>1. rels \cap MemberRels = {} => rels' \cap MemberRels = {}
          BY <2>8
        <5>2. CASE q.pc # "applied"
          BY <3>1, <3>2, <4>2, <5>1, <5>2 DEF Ready, CreateReady
        <5>3. CASE q.pc = "applied"
          <6>1. SUFFICES ASSUME stale'[r] = {} PROVE Complete(q.new, rels')
            BY <3>1, <4>2, <5>3 DEF CreateReady
          <6>2. stale[r] = {} /\ Atoms(w) = {}
            BY <2>6, <5>3, <6>1 DEF InFlight
          <6>3. rels' = rels
            BY <2>5, <6>2 DEF After, Atoms
          <6>4. QED
            BY <3>2, <4>2, <5>3, <6>2, <6>3 DEF Ready, CreateReady
        <5>4. QED
          BY <5>2, <5>3
      <4>3. QED
        BY <4>1, <4>2
    <3>5. UpdateReady(r)'
      <4> DEFINE moved == InNamespace(q.new.ns, "namespace")
      <4>1. SUFFICES ASSUME q.kind = "update", q.wrote, NamespaceDiffers(r),
                            q.pc \in {"changed", "applied"},
                            stale'[r] \cap NamespaceRels = {}
                     PROVE  /\ q.pc = "changed" =>
                                 moved \in rels' \cup q.change.apply.touch
                            /\ q.pc = "applied" => moved \in rels'
        BY <3>1 DEF UpdateReady
      <4>2. stale[r] \cap NamespaceRels = {} /\ Atoms(w) = {}
        BY <2>4, <2>6, <4>1 DEF InFlight
      <4>3. rels' = rels
        BY <2>5, <4>2 DEF After, Atoms
      <4>4. QED
        BY <3>2, <4>1, <4>2, <4>3 DEF Ready, UpdateReady
    <3>6. DeleteReady(r)'
      <4>1. SUFFICES ASSUME q.kind = "delete", InFlight(r), stale'[r] = {}
                     PROVE  OneRole(rels' \cup q.change.undo.touch)
        BY <3>1 DEF DeleteReady
      <4>2. stale[r] = {} /\ Atoms(w) = {}
        BY <2>6, <4>1
      <4>3. rels' = rels
        BY <2>5, <4>2 DEF After, Atoms
      <4>4. QED
        BY <3>2, <4>1, <4>2, <4>3 DEF Ready, DeleteReady
    <3>7. MembersReady(r)'
      <4> DEFINE S == After(rels, q.change.apply)
                 T == After(rels', q.change.apply)
      <4>1. SUFFICES ASSUME q.pc = "members", stale'[r] \cap MemberRels = {}
                     PROVE  /\ db'.exists => HasOwner(T \cup Restorable')
                            /\ OneRole(T)
        BY <3>1 DEF MembersReady
      <4>2. stale[r] \cap MemberRels = {}
        BY <2>6, <4>1
      <4>3. (db.exists => HasOwner(S \cup Restorable)) /\ OneRole(S)
        BY <3>2, <4>1, <4>2 DEF Ready, MembersReady
      <4>4. \A a \in MemberRels : a \in T <=> a \in S
        BY <2>8 DEF After
      <4> HIDE DEF S, T
      <4>5. OneRole(T)
        BY <2>10, <4>3, <4>4 DEF OneRole, Roles
      <4>6. db.exists => HasOwner(T \cup Restorable)
        BY <2>11, <4>3, <4>4 DEF HasOwner
      <4>7. QED
        BY <1>1, <2>13, <4>5, <4>6
    <3>8. QED
      BY <3>3, <3>4, <3>5, <3>6, <3>7 DEF Ready
  <2>16. QED
    BY <2>12, <2>14, <2>15 DEF AuthzInv
<1>4. QED
  BY <1>2, <1>3 DEF RepairStep

-----------------------------------------------------------------------------
(* The invariant and what follows.                                         *)

LEMMA InitAuthzInv == Init => AuthzInv
<1> SUFFICES ASSUME Init PROVE AuthzInv
  OBVIOUS
<1>1. ASSUME NEW r \in Requests PROVE Ready(r)
  <2>1. /\ req[r].kind = "none" /\ req[r].pc = "new"
        /\ req[r].change = NoChange /\ ~req[r].wrote
    BY DEF Init, NewRequest
  <2>2. ChangeOK(req[r])
    BY <2>1 DEF ChangeOK, NoChange, NoWrite, Atoms
  <2>3. QED
    BY <2>1, <2>2 DEF Ready, Created, Gone, CreateReady, UpdateReady,
       DeleteReady, MembersReady
<1>2. CASE db = NoProject /\ rels = {}
  BY <1>1, <1>2, RowKinds DEF AuthzInv, OneRole
<1>3. ASSUME NEW p \in Project, NEW u \in Users,
             db = p, rels = Added(u, p).apply.touch
      PROVE  AuthzInv
  <2>1. Complete(p, rels) /\ OneRole(rels)
    BY <1>3, AddedOK
  <2>2. Complete(p, Kept)
    BY <2>1 DEF Complete, HasNamespace, HasOwner, Kept
  <2>3. QED
    BY <1>1, <1>3, <2>1, <2>2 DEF AuthzInv
<1>4. QED
  BY <1>2, <1>3 DEF Init

LEMMA AuthzStep == TypeOK /\ LockInv /\ AuthzInv /\ [Next]_vars => AuthzInv'
<1> SUFFICES ASSUME TypeOK, LockInv, AuthzInv, [Next]_vars PROVE AuthzInv'
  OBVIOUS
<1>1. ASSUME NEW r \in Requests, Step(r) PROVE AuthzInv'
  <2>1. SUFFICES ASSUME ~clash' PROVE AuthzInv'
    BY DEF AuthzInv
  <2>2. OneRole(rels')
    BY <1>1, <2>1, OneRoleStep
  <2>3. db'.exists => Complete(db', Kept')
    BY <1>1, <2>1, WholeStep
  <2>4. \A s \in Requests : Ready(s)'
    BY <1>1, <2>1, ReadyMover, ReadyFrame
  <2>5. QED
    BY <2>2, <2>3, <2>4 DEF AuthzInv
<1>2. CASE RepairStep
  BY <1>2, RepairKeeps
<1>3. CASE UNCHANGED vars
  BY <1>3, AuthzFrame DEF vars
<1>4. QED
  BY <1>1, <1>2, <1>3 DEF Next

(* Until two writers disturb each other or one of them vanishes, what a    *)
(* committed project needs is in SpiceDB or in the inverse of a deletion   *)
(* that is under way, and every request is ready for its next step.        *)
THEOREM AuthzInvariant == Spec => [](TypeOK /\ LockInv /\ AuthzInv)
<1>1. Init => TypeOK /\ LockInv /\ AuthzInv
  BY InitLockInv, InitAuthzInv
<1>2. TypeOK /\ LockInv /\ AuthzInv /\ [Next]_vars
        => (TypeOK /\ LockInv /\ AuthzInv)'
  BY TypeStep, LockStep, AuthzStep DEF LockInv
<1>3. QED
  BY <1>1, <1>2, PTL DEF Spec

LEMMA NothingToRestore == ~Deleting => Kept = rels
<1>1. ~Deleting => Restorable = {}
  BY DEF Deleting, Restorable, MayRestore
<1>2. QED
  BY <1>1 DEF Kept

(* A committed project has its platform and its namespace in SpiceDB,      *)
(* through failures and undoing (authz_change: write, then commit).        *)
THEOREM AuthzKept == Spec => []HasAuthz
<1>1. AuthzInv => HasAuthz
  BY NothingToRestore DEF AuthzInv, HasAuthz, Complete, HasNamespace
<1>2. QED
  BY <1>1, AuthzInvariant, PTL

(* A committed project keeps an owner, through any changes of its members  *)
(* by remove_project_members and upsert_project_members.                   *)
THEOREM OwnerKept == Spec => []KeepsOwner
<1>1. AuthzInv => KeepsOwner
  BY NothingToRestore DEF AuthzInv, KeepsOwner, Complete, HasOwner, Owners
<1>2. QED
  BY <1>1, AuthzInvariant, PTL

=============================================================================
