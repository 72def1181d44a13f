----------------------- MODULE ProjectAuthzQuietProofs -----------------------
(***************************************************************************)
(* More proofs about ProjectAuthz for any sets of requests, users and      *)
(* namespaces and any bounds: what is left when nothing is under way, and  *)
(* what an inverse restores.                                               *)
(***************************************************************************)
EXTENDS ProjectAuthzProofs

-----------------------------------------------------------------------------
(* The inductive invariants.                                               *)

(* There is nothing about a project before its creation writes.            *)
Unborn ==
    /\ ~db.exists /\ (\A r \in Requests : req[r].pc = "new") =>
          rels = {} /\ repair = Idle
    /\ \A r \in Requests :
          req[r].kind = "create" /\ req[r].pc \in {"written", "changed"} =>
             rels = {} /\ repair = Idle

(* An inverse writes something only if its change does.                    *)
Mirrored(q) ==
    /\ Atoms(q.change.apply) = {} => Atoms(q.change.undo) = {}
    /\ PublicViewers \in Atoms(q.change.apply) <=>
          PublicViewers \in Atoms(q.change.undo)
    /\ q.kind = "create" => q.change.apply.touch = q.change.undo.delete

PlanInv == Unborn /\ \A r \in Requests : Mirrored(req[r])

(* Who changes relationships and has not written the row clashes.          *)
LeftAlone(r) ==
    ~req[r].wrote /\ req[r].pc \in {"applied", "failed", "undo"} =>
       Atoms(req[r].change.undo) = {}

(* r writes the public viewers, or may write them again to undo it.        *)
Pending(r) ==
    /\ req[r].wrote
    /\ req[r].pc \in {"changed", "applied", "failed", "undo"}
    /\ PublicViewers \in Atoms(req[r].change.undo)

(* The visibility that r commits is its own.                               *)
Decides(r) ==
    /\ req[r].wrote
    /\ req[r].pc \in {"changed", "applied"}
    /\ req[r].kind = "update" => VisibilityDiffers(r)

Shown(S, p) == PublicViewers \in S <=> p.vis = "public"

VisibilityReady(r) ==
    /\ Pending(r) \/ Decides(r) => \A s \in Requests \ {r} : ~Pending(s)
    /\ Pending(r) /\ db.exists => Shown(req[r].change.undo.touch, db)
    /\ Decides(r) /\ req[r].kind # "delete" =>
          /\ req[r].pc = "changed" =>
                Shown(After(rels, req[r].change.apply), req[r].new)
          /\ req[r].pc = "applied" => Shown(rels, req[r].new)
    /\ req[r].kind = "update" /\ ~VisibilityDiffers(r) =>
          PublicViewers \notin Atoms(req[r].change.undo)

(* The relationships show the visibility of the row, or the one request    *)
(* that has changed it is to commit or to undo it.                         *)
VisibilityInv ==
    clash \/ /\ \A r \in Requests : LeftAlone(r) /\ VisibilityReady(r)
             /\ db.exists => \/ Shown(rels, db)
                             \/ \E r \in Requests :
                                   Pending(r) /\ req[r].pc # "changed"

(* A deletion removes everything, unless others write: then it is told.    *)
(* Whoever read the members before it removed them is told as well.        *)
DeletionReady(r) ==
    req[r].kind = "delete" /\ req[r].wrote =>
       /\ req[r].pc = "changed" =>
             /\ HasOwner(req[r].change.apply.delete)
             /\ rels \subseteq req[r].change.apply.delete \/ stale[r] # {}
       /\ req[r].pc = "applied" =>
             \/ stale[r] # {}
             \/ /\ rels = {}
                /\ \A m \in Requests :
                      req[m].pc = "members" => stale[m] \cap MemberRels # {}
       /\ req[r].pc \in {"changed", "applied"} =>
             \A s \in Requests \ {r} :
                req[s].pc = "undo" => Atoms(req[s].change.undo) = {}

(* What a creation under way has written, its inverse removes.             *)
Taken(r) ==
    /\ req[r].kind = "create" /\ req[r].wrote
    /\ req[r].pc \in {"applied", "failed", "undo"}
    /\ rels \subseteq req[r].change.undo.delete

(* r adds no relationship to a project that does not exist.                *)
Harmless(r) ==
    /\ req[r].pc = "members" =>
          req[r].change.apply.touch = {} \/ stale[r] \cap MemberRels # {}
    /\ req[r].pc = "undo" => req[r].change.undo.touch = {}

AbsenceInv ==
    clash \/ /\ \A r \in Requests : DeletionReady(r)
             /\ ~db.exists => /\ rels = {} \/ \E r \in Requests : Taken(r)
                              /\ \A r \in Requests : Harmless(r)

-----------------------------------------------------------------------------
(* What a step of a request does to the request.                           *)

(* It has no change yet.                                                   *)
Starts(r) ==
    /\ Create(r) \/ Look(r) \/ Patch(r) \/ PatchNothing(r) \/ Delete(r)
    /\ req'[r].pc \in {"read", "written"}
    /\ req'[r].change = NoChange
    /\ req'[r].kind = "create" => Create(r)

(* It gets a change.                                                       *)
Computes(r, c) ==
    /\ DecideCreate(r) \/ DecideDelete(r) \/ DecideUpdate(r) \/ DecideOutdated(r)
    /\ Decided(r, c)
    /\ req[r].pc = "written" /\ req'[r].pc = "changed"
    /\ SamePlan(r) /\ req'[r].change = c

(* It gets a change of the members.                                        *)
Asks(r, w) ==
    /\ MembersRead(r, w)
    /\ Atoms(w) \subseteq MemberRels
    /\ req'[r].pc = "members" /\ req'[r].kind = "members" /\ ~req'[r].wrote
    /\ req'[r].change = [apply |-> w, undo |-> NoWrite]

(* It goes on with its change.                                             *)
Moves(r) ==
    /\ \/ Fail(r) /\ req'[r].pc = "failed" /\ req[r].change = NoChange
       \/ Apply(r) /\ req[r].pc = "changed" /\ req'[r].pc = "applied"
       \/ ApplyFails(r) /\ req[r].pc = "changed" /\ req'[r].pc = "failed"
       \/ CommitFails(r) /\ req[r].pc = "applied" /\ req'[r].pc = "failed"
       \/ Rollback(r) /\ req[r].pc = "failed" /\ req'[r].pc = "undo"
    /\ SamePlan(r) /\ req'[r].change = req[r].change

(* It is over.                                                             *)
Ends(r) ==
    /\ Commit(r) \/ Undo(r) \/ UndoFails(r) \/ Die(r) \/ WriteMembers(r)
    /\ req'[r].pc = "done" /\ req'[r].kind = "none" /\ ~req'[r].wrote
    /\ req'[r].change = NoChange

LEMMA Course ==
  ASSUME TypeOK, Shape, NEW r \in Requests, Step(r)
  PROVE  \/ Starts(r)
         \/ \E c : Computes(r, c)
         \/ \E w : Asks(r, w)
         \/ Moves(r)
         \/ CommitLost(r)
         \/ Ends(r)
<1> DEFINE q == req[r]
<1>1. req \in [Requests -> Request] /\ q \in Request /\ ShapeOf(q)
  BY RequestTypes DEF TypeOK, Shape
<1>2. CASE Create(r)
  <2>1. PICK p \in Project :
           req'[r] = [NewRequest EXCEPT !.pc = "written", !.kind = "create",
                                        !.new = p, !.wrote = TRUE]
    BY <1>1, <1>2 DEF Create
  <2>2. QED
    BY <1>2, <2>1 DEF Starts, NewRequest
<1>3. CASE Look(r)
  <2>1. PICK kind \in {"update", "delete"}, p \in Project, other \in BOOLEAN :
           req'[r] = [NewRequest EXCEPT !.pc = "read", !.kind = kind,
                        !.old = db, !.want = p, !.other = other]
    BY <1>1, <1>3 DEF Look
  <2>2. QED
    BY <1>3, <2>1 DEF Starts, NewRequest
<1>4. CASE Patch(r) \/ PatchNothing(r) \/ Delete(r)
  <2>1. q.pc = "read" /\ q.change = NoChange /\ q.kind \in {"update", "delete"}
    BY <1>1, <1>4 DEF Patch, PatchNothing, Delete, ShapeOf
  <2>2. \E n, b : req'[r] = [q EXCEPT !.pc = "written", !.wrote = b, !.new = n]
    <3>1. q.wrote = FALSE
      BY <1>1, <2>1 DEF ShapeOf, Request
    <3>2. CASE Patch(r)
      BY <1>1, <3>2, Zenon DEF Patch
    <3>3. CASE PatchNothing(r)
      <4>1. req'[r] = [q EXCEPT !.pc = "written", !.new = db]
        BY <1>1, <3>3 DEF PatchNothing
      <4>2. req'[r] = [q EXCEPT !.pc = "written", !.wrote = FALSE, !.new = db]
        BY <1>1, <3>1, <4>1 DEF Request
      <4>3. QED
        BY <4>2
    <3>4. CASE Delete(r)
      <4>1. req'[r] = [q EXCEPT !.pc = "written", !.wrote = db.exists]
        BY <1>1, <3>4 DEF Delete
      <4>2. req'[r] = [q EXCEPT !.pc = "written", !.wrote = db.exists, !.new = q.new]
        BY <1>1, <4>1 DEF Request
      <4>3. QED
        BY <4>2
    <3>5. QED
      BY <1>4, <3>2, <3>3, <3>4
  <2>3. PICK n, b : req'[r] = [q EXCEPT !.pc = "written", !.wrote = b, !.new = n]
    BY <2>2
  <2>4. req'[r].pc = "written" /\ req'[r].change = q.change /\ req'[r].kind = q.kind
    <3> HIDE DEF q
    <3>1. QED
      BY <1>1, <2>3 DEF Request
  <2>5. QED
    BY <1>4, <2>1, <2>4 DEF Starts
<1>5. CASE DecideCreate(r) \/ DecideDelete(r) \/ DecideUpdate(r) \/ DecideOutdated(r)
  <2>1. \E c : Decided(r, c)
    BY <1>5 DEF DecideCreate, DecideDelete, DecideUpdate, DecideOutdated
  <2>2. PICK c : Decided(r, c)
    BY <2>1
  <2>3. q.pc = "written"
    BY <1>5 DEF DecideCreate, DecideDelete, DecideUpdate, DecideOutdated
  <2>4. req'[r] = [q EXCEPT !.pc = "changed", !.change = c]
    BY <1>1, <2>2 DEF Decided
  <2>5. SamePlan(r) /\ req'[r].pc = "changed" /\ req'[r].change = c
    BY <1>1, <2>4 DEF Request, SamePlan
  <2>6. QED
    BY <1>5, <2>2, <2>3, <2>5 DEF Computes
<1>6. ASSUME NEW w, MembersRead(r, w), Atoms(w) \subseteq MemberRels
      PROVE  Asks(r, w)
  BY <1>1, <1>6 DEF MembersRead, Asks, NewRequest
<1>7. CASE \E S \in SUBSET Users \ {{}} : RemoveMembers(r, S)
  <2>1. PICK S \in SUBSET Users : RemoveMembers(r, S)
    BY <1>7
  <2> DEFINE w == [touch |-> {},
                   delete |-> rels \cap UNION {RolesOf(u) : u \in S}]
  <2>2. MembersRead(r, w)
    BY <2>1 DEF RemoveMembers
  <2>3. Atoms(w) \subseteq MemberRels
    BY RelTypes DEF Atoms
  <2>4. QED
    BY <1>6, <2>2, <2>3
<1>8. CASE \E u \in Users, role \in Roles : UpsertMember(r, u, role)
  <2>1. PICK u \in Users, role \in Roles : UpsertMember(r, u, role)
    BY <1>8
  <2> DEFINE w == [touch |-> {Role(u, role)} \ (rels \cap RolesOf(u)),
                   delete |-> (rels \cap RolesOf(u)) \ {Role(u, role)}]
  <2>2. MembersRead(r, w)
    BY <2>1 DEF UpsertMember
  <2>3. Atoms(w) \subseteq MemberRels
    BY RelTypes DEF Atoms
  <2>4. QED
    BY <1>6, <2>2, <2>3
<1>9. CASE Fail(r) \/ Apply(r) \/ ApplyFails(r) \/ CommitFails(r) \/ Rollback(r)
  <2>1. PICK p : req' = [req EXCEPT ![r].pc = p]
    BY <1>9 DEF Fail, Apply, ApplyFails, CommitFails, Rollback
  <2>2. SamePlan(r) /\ req'[r].pc = p /\ req'[r].change = q.change
    BY <2>1, PcOnly
  <2>3. \/ Fail(r) /\ req'[r].pc = "failed" /\ q.pc \in {"read", "written"}
        \/ Apply(r) /\ q.pc = "changed" /\ req'[r].pc = "applied"
        \/ ApplyFails(r) /\ q.pc = "changed" /\ req'[r].pc = "failed"
        \/ CommitFails(r) /\ q.pc = "applied" /\ req'[r].pc = "failed"
        \/ Rollback(r) /\ q.pc = "failed" /\ req'[r].pc = "undo"
    BY <1>9, PcOnly DEF Fail, Apply, ApplyFails, CommitFails, Rollback
  <2>4. q.pc \in {"read", "written"} => q.change = NoChange
    BY <1>1 DEF ShapeOf
  <2>5. QED
    BY <2>2, <2>3, <2>4 DEF Moves
<1>10. CASE Commit(r) \/ Undo(r) \/ UndoFails(r) \/ Die(r) \/ WriteMembers(r)
  <2>1. req'[r] = Ended
    BY <1>1, <1>10 DEF Commit, Undo, UndoFails, Die, WriteMembers
  <2>2. QED
    BY <1>10, <2>1 DEF Ends, Ended, NewRequest
<1>11. QED
  BY <1>2, <1>3, <1>4, <1>5, <1>7, <1>8, <1>9, <1>10 DEF Step

-----------------------------------------------------------------------------
(* Changes and their inverses.                                             *)

LEMMA MirroredAdded ==
  ASSUME NEW u, NEW p
  PROVE  LET c == Added(u, p) IN
         /\ c.apply.touch = c.undo.delete
         /\ c.apply.delete = {} /\ c.undo.touch = {}
         /\ Atoms(c.apply) = Atoms(c.undo)
         /\ Shown(c.apply.touch, p)
<1> DEFINE S == {Owner(u), Platform, RightNamespace(p.ns)}
                   \cup (IF p.vis = "public" THEN {PublicViewers} ELSE {})
<1>1. Added(u, p) = [apply |-> [touch |-> S, delete |-> {}],
                     undo |-> [touch |-> {}, delete |-> S]]
  BY DEF Added
<1>2. /\ PublicViewers # Owner(u) /\ PublicViewers # Platform
      /\ PublicViewers # RightNamespace(p.ns)
  BY DEF PublicViewers, Owner, Platform, RightNamespace, InNamespace
<1>3. PublicViewers \in S <=> p.vis = "public"
  BY <1>2
<1> HIDE DEF S
<1>4. QED
  BY <1>1, <1>3 DEF Atoms, Shown

LEMMA MirroredRemoved ==
  /\ Removed.apply.touch = {} /\ Removed.apply.delete = rels
  /\ Removed.undo.touch = rels /\ Removed.undo.delete = {}
  /\ Atoms(Removed.apply) = rels /\ Atoms(Removed.undo) = rels
BY DEF Removed, Atoms

(* The parts of a change of visibility and of namespace.                   *)
LEMMA VisibilityParts ==
  ASSUME NEW r \in Requests, NEW public \in BOOLEAN,
         req[r].new \in Project,
         NEW v \in VisibilityChanges(r, public)
  PROVE  /\ Atoms(v.apply) \subseteq {PublicViewers}
         /\ Atoms(v.apply) = Atoms(v.undo)
         /\ ~VisibilityDiffers(r) => v = NoChange
         /\ VisibilityDiffers(r) =>
              /\ PublicViewers \in v.apply.touch <=>
                    req[r].new.vis = "public" /\ ~public
              /\ PublicViewers \in v.apply.delete <=>
                    req[r].new.vis # "public" /\ public
              /\ PublicViewers \in v.undo.touch <=>
                    req[r].new.vis # "public" /\ public
<1>1. CASE ~VisibilityDiffers(r)
  <2>1. v = NoChange
    BY <1>1 DEF VisibilityChanges
  <2>2. QED
    BY <1>1, <2>1 DEF NoChange, NoWrite, Atoms
<1>2. CASE VisibilityDiffers(r)
  <2>1. v = VisibilityChange(req[r].new.vis, public)
    BY <1>2 DEF VisibilityChanges
  <2>2. req[r].new.vis = "public" \/ req[r].new.vis = "private"
    BY RowKinds DEF Visibilities
  <2>3. CASE req[r].new.vis = "public" /\ ~public
    <3>1. v = [apply |-> [touch |-> {PublicViewers}, delete |-> {}],
               undo |-> [touch |-> {}, delete |-> {PublicViewers}]]
      BY <2>1, <2>3 DEF VisibilityChange
    <3>2. QED
      BY <1>2, <2>3, <3>1 DEF Atoms
  <2>4. CASE req[r].new.vis = "private" /\ public
    <3>1. v = [apply |-> [touch |-> {}, delete |-> {PublicViewers}],
               undo |-> [touch |-> {PublicViewers}, delete |-> {}]]
      BY <2>1, <2>4 DEF VisibilityChange
    <3>2. QED
      BY <1>2, <2>4, <3>1 DEF Atoms
  <2>5. CASE /\ ~(req[r].new.vis = "public" /\ ~public)
             /\ ~(req[r].new.vis = "private" /\ public)
    <3>1. v = NoChange
      BY <2>1, <2>5 DEF VisibilityChange
    <3>2. QED
      BY <1>2, <2>2, <2>5, <3>1 DEF Atoms, NoChange, NoWrite
  <2>6. QED
    BY <2>3, <2>4, <2>5
<1>3. QED
  BY <1>1, <1>2

LEMMA NamespaceParts ==
  ASSUME NEW r \in Requests, req[r].new \in Project,
         NEW n \in NamespaceChanges(r)
  PROVE  /\ Atoms(n.apply) \subseteq NamespaceRels
         /\ Atoms(n.undo) \subseteq NamespaceRels
         /\ Atoms(n.apply) = {} => Atoms(n.undo) = {}
         /\ ~NamespaceDiffers(r) => n = NoChange
<1>1. CASE n = NoChange
  BY <1>1 DEF NoChange, NoWrite, Atoms
<1>2. ASSUME n # NoChange
      PROVE  /\ NamespaceDiffers(r)
             /\ \E a \in NamespaceRels :
                   n = [apply |-> [touch |-> {InNamespace(req[r].new.ns, "namespace")},
                                   delete |-> {}],
                        undo |-> [touch |-> {a}, delete |-> {}]]
  BY <1>2 DEF NamespaceChanges, NamespaceChange
<1>3. CASE n # NoChange
  <2>1. InNamespace(req[r].new.ns, "namespace") \in NamespaceRels
    BY RowKinds, RelTypes
  <2>2. PICK a \in NamespaceRels :
           n = [apply |-> [touch |-> {InNamespace(req[r].new.ns, "namespace")},
                           delete |-> {}],
                undo |-> [touch |-> {a}, delete |-> {}]]
    BY <1>2, <1>3
  <2>3. /\ Atoms(n.apply) = {InNamespace(req[r].new.ns, "namespace")}
        /\ Atoms(n.undo) = {a}
    BY <2>2 DEF Atoms
  <2>4. QED
    BY <1>2, <1>3, <2>1, <2>3
<1>4. QED
  BY <1>1, <1>3

LEMMA MergedParts ==
  ASSUME NEW c, NEW d
  PROVE  /\ Merged(c, d).apply.touch = c.apply.touch \cup d.apply.touch
         /\ Merged(c, d).apply.delete = c.apply.delete \cup d.apply.delete
         /\ Merged(c, d).undo.touch = c.undo.touch \cup d.undo.touch
         /\ Merged(c, d).undo.delete = c.undo.delete \cup d.undo.delete
         /\ Atoms(Merged(c, d).apply) = Atoms(c.apply) \cup Atoms(d.apply)
         /\ Atoms(Merged(c, d).undo) = Atoms(c.undo) \cup Atoms(d.undo)
BY DEF Merged, Atoms

(* The change of an update, as far as the public viewers are concerned.    *)
LEMMA UpdateParts ==
  ASSUME NEW r \in Requests, NEW public \in BOOLEAN,
         req[r].new \in Project,
         NEW v \in VisibilityChanges(r, public), NEW n \in NamespaceChanges(r)
  PROVE  LET c == Merged(v, n) IN
         /\ Atoms(c.apply) = {} => Atoms(c.undo) = {}
         /\ PublicViewers \in Atoms(c.apply) <=> PublicViewers \in Atoms(c.undo)
         /\ ~VisibilityDiffers(r) => PublicViewers \notin Atoms(c.undo)
         /\ VisibilityDiffers(r) =>
              /\ PublicViewers \in c.apply.touch <=>
                    req[r].new.vis = "public" /\ ~public
              /\ PublicViewers \in c.apply.delete <=>
                    req[r].new.vis # "public" /\ public
              /\ PublicViewers \in c.undo.touch <=>
                    req[r].new.vis # "public" /\ public
<1>1. PublicViewers \notin NamespaceRels
  BY RelKinds
<1>2. PublicViewers \notin Atoms(n.apply) /\ PublicViewers \notin Atoms(n.undo)
  BY <1>1, NamespaceParts
<1>3. /\ PublicViewers \notin n.apply.touch /\ PublicViewers \notin n.apply.delete
      /\ PublicViewers \notin n.undo.touch
  BY <1>2 DEF Atoms
<1>4. ~VisibilityDiffers(r) => PublicViewers \notin Atoms(v.undo)
  BY VisibilityParts DEF NoChange, NoWrite, Atoms
<1>5. Atoms(n.apply) = {} => Atoms(n.undo) = {}
  BY NamespaceParts
<1>6. Atoms(v.apply) = Atoms(v.undo)
  BY VisibilityParts
<1>7. VisibilityDiffers(r) =>
        /\ PublicViewers \in v.apply.touch <=>
              req[r].new.vis = "public" /\ ~public
        /\ PublicViewers \in v.apply.delete <=>
              req[r].new.vis # "public" /\ public
        /\ PublicViewers \in v.undo.touch <=>
              req[r].new.vis # "public" /\ public
  BY VisibilityParts
<1> DEFINE c == Merged(v, n)
<1>8. /\ c.apply.touch = v.apply.touch \cup n.apply.touch
      /\ c.apply.delete = v.apply.delete \cup n.apply.delete
      /\ c.undo.touch = v.undo.touch \cup n.undo.touch
      /\ Atoms(c.apply) = Atoms(v.apply) \cup Atoms(n.apply)
      /\ Atoms(c.undo) = Atoms(v.undo) \cup Atoms(n.undo)
  BY MergedParts
<1> HIDE DEF c
<1>9. QED
  BY <1>2, <1>3, <1>4, <1>5, <1>6, <1>7, <1>8 DEF c

-----------------------------------------------------------------------------
(* Plans and inverses.                                                     *)

(* The change that a request gets.                                         *)
LEMMA ComputedIs ==
  ASSUME TypeOK, Shape, NEW r \in Requests, NEW c, Computes(r, c)
  PROVE  /\ req[r].kind = "create" =>
               \E u \in Users : c = Added(u, req[r].new)
         /\ req[r].kind = "delete" => c = Removed
         /\ req[r].kind = "update" =>
               /\ req[r].new \in Project
               /\ \E public \in BOOLEAN :
                  \E v \in VisibilityChanges(r, public), n \in NamespaceChanges(r) :
                     /\ c = Merged(v, n)
                     /\ ~clash' => public = (PublicViewers \in rels)
         /\ req[r].kind \in {"create", "update", "delete"}
<1>1. req[r] \in Request /\ ShapeOf(req[r]) /\ req[r].pc = "written"
  BY RequestTypes DEF Shape, Computes
<1>2. ASSUME NEW d, Decided(r, d) PROVE d = c
  <2>1. /\ req' = [req EXCEPT ![r].pc = "changed", ![r].change = d]
    BY <1>2 DEF Decided
  <2>2. req'[r] = [req[r] EXCEPT !.pc = "changed", !.change = d]
    BY <2>1 DEF TypeOK
  <2>3. req'[r].change = d
    BY <1>1, <2>2 DEF Request
  <2>4. QED
    BY <2>3 DEF Computes
<1>3. CASE DecideCreate(r)
  <2>1. PICK u \in Users : Decided(r, Added(u, req[r].new))
    BY <1>3 DEF DecideCreate
  <2>2. c = Added(u, req[r].new) /\ req[r].kind = "create"
    BY <1>2, <1>3, <2>1 DEF DecideCreate
  <2>3. QED
    BY <2>2
<1>4. CASE DecideDelete(r)
  BY <1>2, <1>4 DEF DecideDelete
<1>5. CASE DecideUpdate(r)
  <2>1. PICK v \in VisibilityChanges(r, PublicViewers \in rels),
             n \in NamespaceChanges(r) : Decided(r, Merged(v, n))
    BY <1>5 DEF DecideUpdate
  <2>2. c = Merged(v, n) /\ req[r].kind = "update" /\ req[r].new \in Project
    BY <1>1, <1>2, <1>5, <2>1 DEF DecideUpdate, ShapeOf
  <2>3. (PublicViewers \in rels) \in BOOLEAN
    OBVIOUS
  <2>4. QED
    BY <2>1, <2>2, <2>3
<1>6. CASE DecideOutdated(r)
  <2>1. PICK v \in VisibilityChanges(r, PublicViewers \notin rels),
             n \in NamespaceChanges(r) : Decided(r, Merged(v, n))
    BY <1>6 DEF DecideOutdated
  <2>2. /\ c = Merged(v, n) /\ req[r].kind = "update" /\ req[r].new \in Project
        /\ clash'
    BY <1>1, <1>2, <1>6, <2>1 DEF DecideOutdated, ShapeOf
  <2>3. (PublicViewers \notin rels) \in BOOLEAN
    OBVIOUS
  <2>4. QED
    BY <2>1, <2>2, <2>3
<1>7. QED
  BY <1>3, <1>4, <1>5, <1>6 DEF Computes

LEMMA MirroredStep ==
  ASSUME TypeOK, LockInv, PlanInv, NEW r \in Requests, Step(r), NEW s \in Requests
  PROVE  Mirrored(req'[s])
<1>1. Shape /\ Mirrored(req[s])
  BY DEF LockInv, PlanInv
<1>2. CASE s # r
  BY <1>1, <1>2, OthersKeep
<1>3. CASE s = r
  <2>1. ASSUME req'[r].change = NoChange PROVE Mirrored(req'[r])
    BY <2>1 DEF Mirrored, NoChange, NoWrite, Atoms
  <2>2. ASSUME req'[r].change = req[r].change, req'[r].kind = req[r].kind
        PROVE  Mirrored(req'[r])
    BY <1>1, <1>3, <2>2 DEF Mirrored
  <2>3. CASE Starts(r) \/ Ends(r)
    BY <1>3, <2>1, <2>3 DEF Starts, Ends
  <2>4. CASE Moves(r)
    BY <1>3, <2>2, <2>4 DEF Moves, SamePlan
  <2>5. CASE CommitLost(r)
    <3>1. req'[r] = [req[r] EXCEPT !.pc = "failed", !.wrote = FALSE]
      BY <2>5 DEF CommitLost, TypeOK
    <3>2. req'[r].change = req[r].change /\ req'[r].kind = req[r].kind
      BY <3>1, RequestTypes DEF Request
    <3>3. QED
      BY <1>3, <2>2, <3>2
  <2>6. ASSUME NEW w, Asks(r, w) PROVE Mirrored(req'[r])
    <3>1. req'[r].change.undo = NoWrite /\ req'[r].change.apply = w
          /\ req'[r].kind = "members"
      BY <2>6 DEF Asks
    <3>2. PublicViewers \notin Atoms(w)
      BY <2>6, RelKinds DEF Asks
    <3>3. QED
      BY <3>1, <3>2 DEF Mirrored, NoWrite, Atoms
  <2>7. ASSUME NEW c, Computes(r, c) PROVE Mirrored(req'[r])
    <3>1. req'[r].change = c /\ req'[r].kind = req[r].kind
      BY <2>7 DEF Computes, SamePlan
    <3>2. CASE req[r].kind = "create"
      <4>1. PICK u \in Users : c = Added(u, req[r].new)
        BY <1>1, <2>7, <3>2, ComputedIs
      <4>2. QED
        BY <3>1, <4>1, MirroredAdded DEF Mirrored
    <3>3. CASE req[r].kind = "delete"
      <4>1. c = Removed
        BY <1>1, <2>7, <3>3, ComputedIs
      <4>2. QED
        BY <3>1, <3>3, <4>1, MirroredRemoved DEF Mirrored
    <3>4. CASE req[r].kind = "update"
      <4>1. req[r].new \in Project
        BY <1>1, <2>7, <3>4, ComputedIs
      <4>2. PICK public \in BOOLEAN :
              \E v \in VisibilityChanges(r, public), n \in NamespaceChanges(r) :
                 c = Merged(v, n)
        BY <1>1, <2>7, <3>4, ComputedIs
      <4>3. PICK v \in VisibilityChanges(r, public), n \in NamespaceChanges(r) :
                 c = Merged(v, n)
        BY <4>2
      <4>4. /\ Atoms(c.apply) = {} => Atoms(c.undo) = {}
            /\ PublicViewers \in Atoms(c.apply) <=> PublicViewers \in Atoms(c.undo)
        BY <4>1, <4>3, UpdateParts
      <4>5. QED
        BY <3>1, <3>4, <4>4 DEF Mirrored
    <3>5. QED
      BY <1>1, <2>7, <3>2, <3>3, <3>4, ComputedIs
  <2>8. QED
    BY <1>1, <1>3, <2>3, <2>4, <2>5, <2>6, <2>7, Course
<1>4. QED
  BY <1>2, <1>3

LEMMA UnbornStep ==
  ASSUME TypeOK, LockInv, PlanInv, NEW r \in Requests, Step(r)
  PROVE  Unborn'
<1>1. Shape /\ Alone /\ Unborn
  BY DEF LockInv, PlanInv
<1>2. req'[r].pc # "new"
  <2>1. CASE CommitLost(r)
    <3>1. req'[r] = [req[r] EXCEPT !.pc = "failed", !.wrote = FALSE]
      BY <2>1 DEF CommitLost, TypeOK
    <3>2. QED
      BY <3>1, RequestTypes DEF Request
  <2>2. QED
    BY <1>1, <2>1, Course DEF Starts, Computes, Asks, Moves, Ends
<1>3. ASSUME NEW s \in Requests,
             req'[s].kind = "create", req'[s].pc \in {"written", "changed"}
      PROVE  rels' = {} /\ repair' = Idle
  <2>1. CASE s = r
    <3>1. CASE Starts(r)
      <4>1. Create(r)
        BY <1>3, <2>1, <3>1 DEF Starts
      <4>2. rels = {} /\ repair = Idle
        BY <1>1, <4>1, RowKinds DEF Create, Unborn
      <4>3. QED
        BY <4>1, <4>2 DEF Create, repairVars
    <3>2. ASSUME NEW c, Computes(r, c) PROVE rels' = {} /\ repair' = Idle
      <4>1. req[r].kind = "create" /\ req[r].pc = "written"
        BY <1>3, <2>1, <3>2 DEF Computes, SamePlan
      <4>2. QED
        BY <1>1, <3>2, <4>1 DEF Unborn, Computes, Decided, repairVars
    <3>3. CASE CommitLost(r)
      <4>1. req'[r] = [req[r] EXCEPT !.pc = "failed", !.wrote = FALSE]
        BY <3>3 DEF CommitLost, TypeOK
      <4>2. req'[r].pc = "failed"
        BY <4>1, RequestTypes DEF Request
      <4>3. QED
        BY <1>3, <2>1, <4>2
    <3>4. QED
      BY <1>1, <1>3, <2>1, <3>1, <3>2, <3>3, Course DEF Asks, Moves, Ends
  <2>2. CASE s # r
    <3>1. req[s].kind = "create" /\ req[s].pc \in {"written", "changed"}
      BY <1>3, <2>2, OthersKeep
    <3>2. req[s].wrote
      BY <1>1, <3>1 DEF Shape, ShapeOf
    <3>3. db = NoProject /\ req[r].pc = "new"
      BY <1>1, <2>2, <3>1, <3>2 DEF Alone
    <3>4. Create(r)
      BY <1>1, <3>3, OnlyCreate
    <3>5. req[s].pc = "new"
      BY <3>4 DEF Create
    <3>6. QED
      BY <3>1, <3>5
  <2>3. QED
    BY <2>1, <2>2
<1>4. QED
  BY <1>2, <1>3 DEF Unborn

LEMMA PlanStep == TypeOK /\ LockInv /\ PlanInv /\ [Next]_vars => PlanInv'
<1> SUFFICES ASSUME TypeOK, LockInv, PlanInv, [Next]_vars PROVE PlanInv'
  OBVIOUS
<1>1. ASSUME NEW r \in Requests, Step(r) PROVE PlanInv'
  <2>1. \A s \in Requests : Mirrored(req'[s])
    BY <1>1, MirroredStep
  <2>2. Unborn'
    BY <1>1, UnbornStep
  <2>3. QED
    BY <2>1, <2>2 DEF PlanInv
<1>2. CASE RepairStep
  <2>1. req' = req /\ db' = db
    BY <1>2 DEF RepairStep, RepairFind, RepairLook, RepairWrite
  <2>2. rels = {} /\ repair = Idle => FALSE
    BY <1>2 DEF RepairStep, RepairFind, RepairLook, RepairWrite, Idle
  <2>3. QED
    BY <2>1, <2>2 DEF PlanInv, Unborn, Mirrored
<1>3. CASE UNCHANGED vars
  BY <1>3 DEF vars, repairVars, PlanInv, Unborn, Mirrored
<1>4. QED
  BY <1>1, <1>2, <1>3 DEF Next

LEMMA InitPlanInv == Init => PlanInv
<1> SUFFICES ASSUME Init PROVE PlanInv
  OBVIOUS
<1>1. \A r \in Requests : /\ req[r].kind = "none" /\ req[r].pc = "new"
                          /\ req[r].change = NoChange
  BY DEF Init, NewRequest
<1>2. \A r \in Requests : Mirrored(req[r])
  BY <1>1 DEF Mirrored, NoChange, NoWrite, Atoms
<1>3. ~db.exists => rels = {} /\ repair = Idle
  BY RowKinds DEF Init
<1>4. QED
  BY <1>1, <1>2, <1>3 DEF PlanInv, Unborn

-----------------------------------------------------------------------------
(* What an inverse restores.                                               *)

LEMMA UndoneAdded ==
  ASSUME NEW c, NEW S, c.apply.delete = {}, c.undo.touch = {},
         c.apply.touch = c.undo.delete, S = {}
  PROVE  After(After(S, c.apply), c.undo) = S
BY DEF After

LEMMA UndoneRemoved == After(After(rels, Removed.apply), Removed.undo) = rels
BY MirroredRemoved DEF After

(* A change of visibility, computed from what SpiceDB has.                 *)
LEMMA UndoneUpdate ==
  ASSUME NEW r \in Requests, req[r].new \in Project, ~NamespaceDiffers(r),
         NEW v \in VisibilityChanges(r, PublicViewers \in rels),
         NEW n \in NamespaceChanges(r)
  PROVE  LET c == Merged(v, n) IN After(After(rels, c.apply), c.undo) = rels
<1> DEFINE c == Merged(v, n)
<1>1. n = NoChange
  BY NamespaceParts
<1>2. /\ n.apply.touch = {} /\ n.apply.delete = {}
      /\ n.undo.touch = {} /\ n.undo.delete = {}
  BY <1>1 DEF NoChange, NoWrite
<1>3. /\ c.apply.touch = v.apply.touch /\ c.apply.delete = v.apply.delete
      /\ c.undo.touch = v.undo.touch /\ c.undo.delete = v.undo.delete
  <2>1. /\ c.apply.touch = v.apply.touch \cup n.apply.touch
        /\ c.apply.delete = v.apply.delete \cup n.apply.delete
        /\ c.undo.touch = v.undo.touch \cup n.undo.touch
        /\ c.undo.delete = v.undo.delete \cup n.undo.delete
    BY MergedParts
  <2> HIDE DEF c
  <2>2. QED
    BY <1>2, <2>1
<1>4. v = NoChange \/ v = VisibilityChange(req[r].new.vis, PublicViewers \in rels)
  BY DEF VisibilityChanges
<1> HIDE DEF c
<1>5. CASE v = NoChange
  <2>1. /\ c.apply.touch = {} /\ c.apply.delete = {}
        /\ c.undo.touch = {} /\ c.undo.delete = {}
    BY <1>3, <1>5 DEF NoChange, NoWrite
  <2>2. QED
    BY <2>1 DEF After, c
<1>6. CASE v # NoChange
  <2>1. v = VisibilityChange(req[r].new.vis, PublicViewers \in rels)
    BY <1>4, <1>6
  <2>2. CASE req[r].new.vis = "public" /\ PublicViewers \notin rels
    <3>1. v = [apply |-> [touch |-> {PublicViewers}, delete |-> {}],
               undo |-> [touch |-> {}, delete |-> {PublicViewers}]]
      BY <2>1, <2>2 DEF VisibilityChange
    <3>2. QED
      BY <1>3, <2>2, <3>1 DEF After, c
  <2>3. CASE req[r].new.vis = "private" /\ PublicViewers \in rels
    <3>1. v = [apply |-> [touch |-> {}, delete |-> {PublicViewers}],
               undo |-> [touch |-> {PublicViewers}, delete |-> {}]]
      BY <2>1, <2>3 DEF VisibilityChange
    <3>2. QED
      BY <1>3, <2>3, <3>1 DEF After, c
  <2>4. CASE /\ ~(req[r].new.vis = "public" /\ PublicViewers \notin rels)
             /\ ~(req[r].new.vis = "private" /\ PublicViewers \in rels)
    BY <1>6, <2>1, <2>4 DEF VisibilityChange
  <2>5. QED
    BY <2>2, <2>3, <2>4
<1>7. QED
  BY <1>5, <1>6 DEF c

LEMMA UndoStep ==
  ASSUME TypeOK, LockInv, PlanInv, UndoRestores, [Next]_vars
  PROVE  UndoRestores'
<1>1. SUFFICES ASSUME NEW s \in Requests, req'[s].pc = "changed",
                      stale'[s] = {}, ~clash', ~NamespaceDiffers(s)'
               PROVE  After(After(rels', req'[s].change.apply), req'[s].change.undo)
                         = rels'
  BY DEF UndoRestores, Undone
<1>2. Shape /\ OneLock /\ Unborn
  BY DEF LockInv, PlanInv
<1>3. ASSUME req'[s] = req[s], NEW w, rels' = After(rels, w), ~clash,
             stale[s] \subseteq stale'[s],
             InFlight(s) => Atoms(w) \subseteq stale'[s]
      PROVE  After(After(rels', req'[s].change.apply), req'[s].change.undo) = rels'
  <2>1. stale[s] = {} /\ Atoms(w) = {}
    BY <1>1, <1>3 DEF InFlight
  <2>2. rels' = rels
    BY <1>3, <2>1 DEF After, Atoms
  <2>3. ~NamespaceDiffers(s)
    BY <1>1, <1>3 DEF NamespaceDiffers
  <2>4. Undone(req[s].change)
    BY <1>1, <1>3, <2>1, <2>3 DEF UndoRestores
  <2>5. QED
    BY <1>3, <2>2, <2>4 DEF Undone
<1>4. ASSUME NEW r \in Requests, Step(r), s # r
      PROVE  After(After(rels', req'[s].change.apply), req'[s].change.undo) = rels'
  <2>1. req'[s] = req[s] /\ ~clash
    BY <1>1, <1>4, OthersKeep, ClashGrows
  <2>2. \E w : Wrote(r, w)
    BY <1>1, <1>2, <1>4, Effects
  <2>3. PICK w : Wrote(r, w)
    BY <2>2
  <2>4. QED
    BY <1>3, <1>4, <2>1, <2>3 DEF Wrote
<1>5. ASSUME NEW r \in Requests, Step(r), s = r
      PROVE  After(After(rels', req'[s].change.apply), req'[s].change.undo) = rels'
  <2>1. \E c : Computes(r, c)
    <3>1. ~CommitLost(r)
      BY <1>1 DEF CommitLost
    <3>2. QED
      BY <1>1, <1>2, <1>5, <3>1, Course DEF Starts, Asks, Moves, Ends
  <2>2. PICK c : Computes(r, c)
    BY <2>1
  <2>3. req'[r].change = c /\ rels' = rels /\ SamePlan(r)
    BY <2>2 DEF Computes, Decided
  <2>4. CASE req[r].kind = "create"
    <3>1. PICK u \in Users : c = Added(u, req[r].new)
      BY <1>2, <2>2, <2>4, ComputedIs
    <3>2. rels = {}
      BY <1>2, <2>2, <2>4 DEF Unborn, Computes
    <3>3. c.apply.delete = {} /\ c.undo.touch = {} /\ c.apply.touch = c.undo.delete
      BY <3>1, MirroredAdded
    <3>4. QED
      BY <1>5, <2>3, <3>2, <3>3, UndoneAdded
  <2>5. CASE req[r].kind = "delete"
    <3>1. c = Removed
      BY <1>2, <2>2, <2>5, ComputedIs
    <3>2. QED
      BY <1>5, <2>3, <3>1, UndoneRemoved
  <2>6. CASE req[r].kind = "update"
    <3>1. req[r].new \in Project
      BY <1>2, <2>2, <2>6, ComputedIs
    <3>2. PICK public \in BOOLEAN :
            \E v \in VisibilityChanges(r, public), n \in NamespaceChanges(r) :
               c = Merged(v, n) /\ public = (PublicViewers \in rels)
      BY <1>1, <1>2, <2>2, <2>6, ComputedIs
    <3>3. PICK v \in VisibilityChanges(r, PublicViewers \in rels),
               n \in NamespaceChanges(r) : c = Merged(v, n)
      BY <3>2
    <3>4. ~NamespaceDiffers(r)
      BY <1>1, <1>5, <2>3 DEF NamespaceDiffers, SamePlan
    <3>5. QED
      BY <1>5, <2>3, <3>1, <3>3, <3>4, UndoneUpdate
  <2>7. QED
    BY <1>2, <2>2, <2>4, <2>5, <2>6, ComputedIs
<1>6. CASE RepairStep
  <2>1. req' = req
    BY <1>6 DEF RepairStep, RepairFind, RepairLook, RepairWrite
  <2>2. CASE RepairFind \/ RepairLook
    <3>1. UNCHANGED <<rels, stale, clash>>
      BY <2>2 DEF RepairFind, RepairLook
    <3>2. rels = After(rels, NoWrite) /\ Atoms(NoWrite) = {}
      BY DEF After, NoWrite, Atoms
    <3>3. QED
      BY <1>1, <1>3, <2>1, <3>1, <3>2
  <2>3. CASE RepairWrite
    <3>1. ~clash
      BY <1>1, <2>3 DEF RepairWrite
    <3>2. rels' = After(rels, repair.write)
      BY <2>3 DEF RepairWrite, Written
    <3>3. stale[s] \subseteq stale'[s]
      BY <2>3 DEF RepairWrite, Written
    <3>4. InFlight(s) => Atoms(repair.write) \subseteq stale'[s]
      BY <2>3 DEF RepairWrite, Written
    <3>5. QED
      BY <1>3, <2>1, <3>1, <3>2, <3>3, <3>4
  <2>4. QED
    BY <1>6, <2>2, <2>3 DEF RepairStep
<1>7. CASE UNCHANGED vars
  <2>1. UNCHANGED <<rels, req, stale, clash>>
    BY <1>7 DEF vars
  <2>2. rels = After(rels, NoWrite) /\ Atoms(NoWrite) = {}
    BY DEF After, NoWrite, Atoms
  <2>3. QED
    BY <1>1, <1>3, <2>1, <2>2
<1>8. QED
  BY <1>4, <1>5, <1>6, <1>7 DEF Next

(* The inverse that authz_change keeps for a creation, a deletion or a     *)
(* change of visibility restores what the change has written, whatever     *)
(* other requests do, until they write what it was computed from.          *)
THEOREM InverseRestores == Spec => []UndoRestores
<1>1. Init => TypeOK /\ LockInv /\ PlanInv /\ UndoRestores
  <2>1. Init => UndoRestores
    BY DEF Init, UndoRestores, NewRequest
  <2>2. QED
    BY <2>1, InitLockInv, InitPlanInv
<1>2. TypeOK /\ LockInv /\ PlanInv /\ UndoRestores /\ [Next]_vars
        => (TypeOK /\ LockInv /\ PlanInv /\ UndoRestores)'
  BY TypeStep, LockStep, PlanStep, UndoStep DEF LockInv
<1>3. QED
  BY <1>1, <1>2, PTL DEF Spec

-----------------------------------------------------------------------------
(* Visibility.                                                             *)

(* Only who commits changes the row.                                       *)
LEMMA CommitOnly ==
  ASSUME TypeOK, LockInv, NEW r \in Requests, Step(r), ~clash', db' # db
  PROVE  /\ Commit(r) /\ req[r].pc = "applied" /\ req[r].wrote /\ Locks(r)
         /\ db' = req[r].new /\ rels' = rels /\ stale' = stale /\ ~Disturbed(r)
         /\ req[r].kind \in {"create", "update", "delete"}
<1>1. Shape
  BY DEF LockInv
<1>2. ~Starts(r)
  BY DEF Starts, Create, Look, Patch, PatchNothing, Delete
<1>3. ASSUME NEW c, Computes(r, c) PROVE FALSE
  BY <1>3 DEF Computes, Decided
<1>4. ASSUME NEW w, Asks(r, w) PROVE FALSE
  BY <1>4 DEF Asks, MembersRead
<1>5. ~Moves(r)
  BY DEF Moves, Fail, Apply, ApplyFails, CommitFails, Rollback
<1>6. ~CommitLost(r)
  BY DEF CommitLost
<1>7. Commit(r)
  BY <1>1, <1>2, <1>3, <1>4, <1>5, <1>6, Course DEF Ends, Undo, UndoFails, Die,
     WriteMembers
<1>8. req[r].wrote
  BY <1>7 DEF Commit, CommittedRow
<1>9. req[r].pc = "applied" /\ db' = req[r].new
  BY <1>7, <1>8 DEF Commit, CommittedRow
<1>10. rels' = rels /\ stale' = stale /\ ~Disturbed(r)
  BY <1>7 DEF Commit
<1>11. QED
  BY <1>1, <1>7, <1>8, <1>9, <1>10 DEF Locks, Shape, ShapeOf

(* A patch that does not change the visibility commits the one it finds.   *)
LEMMA SameVisibility ==
  ASSUME LockInv, NEW r \in Requests, Locks(r), req[r].kind = "update",
         ~VisibilityDiffers(r)
  PROVE  db.exists /\ req[r].new.vis = db.vis
BY DEF LockInv, NoLostPatch, VisibilityDiffers

(* Only a request that is pending writes the public viewers.               *)
LEMMA PublicKept ==
  ASSUME TypeOK, LockInv, AuthzInv, PlanInv, NEW r \in Requests, Step(r),
         ~clash', LeftAlone(r), ~Pending(r)
  PROVE  PublicViewers \in rels' <=> PublicViewers \in rels
<1>1. ~clash /\ Ready(r) /\ Mirrored(req[r]) /\ Shape /\ OneLock
  BY ClashGrows DEF AuthzInv, PlanInv, LockInv
<1>2. ASSUME NEW w, Wrote(r, w), PublicViewers \notin Atoms(w)
      PROVE  PublicViewers \in rels' <=> PublicViewers \in rels
  BY <1>2 DEF Wrote, After, Atoms
<1>3. CASE /\ Apply(r) \/ ApplyFails(r)
           /\ Wrote(r, req[r].change.apply)
  <2>1. req[r].pc = "changed"
    BY <1>3 DEF Apply, ApplyFails
  <2>2. CASE req[r].wrote
    <3>1. PublicViewers \notin Atoms(req[r].change.undo)
      BY <2>1, <2>2 DEF Pending
    <3>2. QED
      BY <1>1, <1>2, <1>3, <3>1 DEF Mirrored
  <2>3. CASE ~req[r].wrote
    <3>1. Atoms(req[r].change.apply) = {}
      BY <1>3, <2>3 DEF Apply, ApplyFails
    <3>2. QED
      BY <1>2, <1>3, <3>1
  <2>4. QED
    BY <2>2, <2>3
<1>4. CASE WriteMembers(r) /\ Wrote(r, req[r].change.apply)
  <2>1. req[r].kind \in {"none", "members"}
    BY <1>1, <1>4 DEF WriteMembers, Shape, ShapeOf
  <2>2. Atoms(req[r].change.apply) \subseteq MemberRels
    BY <1>1, <2>1 DEF Ready, ChangeOK
  <2>3. QED
    BY <1>2, <1>4, <2>2, RelKinds
<1>5. CASE Undo(r) /\ Wrote(r, req[r].change.undo)
  <2>1. req[r].pc = "undo"
    BY <1>5 DEF Undo
  <2>2. PublicViewers \notin Atoms(req[r].change.undo)
    BY <2>1 DEF Pending, LeftAlone
  <2>3. QED
    BY <1>2, <1>5, <2>2
<1>6. QED
  BY <1>1, <1>3, <1>4, <1>5, Effects

LEMMA LeftAloneStep ==
  ASSUME TypeOK, LockInv, PlanInv, NEW r \in Requests, Step(r), ~clash',
         NEW s \in Requests, LeftAlone(s)
  PROVE  LeftAlone(s)'
<1>1. CASE s # r
  BY <1>1, OthersKeep DEF LeftAlone
<1>2. CASE s = r
  <2>1. Shape /\ Mirrored(req[r])
    BY DEF LockInv, PlanInv
  <2>2. CASE Moves(r)
    <3>1. SamePlan(r) /\ req'[r].change = req[r].change
      BY <2>2 DEF Moves
    <3>2. CASE Apply(r) \/ ApplyFails(r)
      <4>1. ~req[r].wrote => Atoms(req[r].change.apply) = {}
        BY <3>2 DEF Apply, ApplyFails
      <4>2. QED
        BY <1>2, <2>1, <3>1, <4>1 DEF Mirrored, LeftAlone, SamePlan
    <3>3. CASE req[r].change = NoChange
      BY <1>2, <3>1, <3>3 DEF LeftAlone, NoChange, NoWrite, Atoms
    <3>4. CASE req[r].pc \in {"applied", "failed"}
      BY <1>2, <3>1, <3>4 DEF LeftAlone, SamePlan
    <3>5. QED
      BY <2>2, <3>2, <3>3, <3>4 DEF Moves
  <2>3. CASE ~Moves(r)
    <3>1. ~CommitLost(r)
      BY DEF CommitLost
    <3>2. req'[r].pc \notin {"applied", "failed", "undo"}
      BY <2>1, <2>3, <3>1, Course DEF Starts, Computes, Asks, Ends
    <3>3. QED
      BY <1>2, <3>2 DEF LeftAlone
  <2>4. QED
    BY <2>2, <2>3
<1>3. QED
  BY <1>1, <1>2

(* Who becomes pending has just computed its change.                       *)
LEMMA PendingStep ==
  ASSUME TypeOK, LockInv, NEW r \in Requests, Step(r), ~clash',
         NEW s \in Requests
  PROVE  /\ Pending(s)' => \/ Pending(s)
                           \/ s = r /\ \E c : Computes(r, c)
         /\ Decides(s)' => \/ Decides(s) /\ (s = r => Apply(r))
                           \/ s = r /\ \E c : Computes(r, c)
<1>1. CASE s # r
  BY <1>1, OthersKeep DEF Pending, Decides, VisibilityDiffers
<1>2. CASE s = r
  <2>1. Shape /\ ~CommitLost(r)
    BY DEF LockInv, CommitLost
  <2>2. CASE Moves(r)
    <3>1. SamePlan(r) /\ req'[r].change = req[r].change
      BY <2>2 DEF Moves
    <3>2. CASE req[r].change = NoChange
      <4>1. ~Pending(r)'
        BY <3>1, <3>2 DEF Pending, NoChange, NoWrite, Atoms
      <4>2. req'[r].pc \in {"changed", "applied"} => Apply(r) /\ req[r].pc = "changed"
        BY <2>2 DEF Moves
      <4>3. QED
        BY <1>2, <3>1, <4>1, <4>2 DEF Decides, SamePlan, VisibilityDiffers
    <3>3. CASE req[r].change # NoChange
      <4>1. req[r].pc \in {"changed", "applied", "failed"}
        BY <2>2, <3>3 DEF Moves
      <4>2. Pending(r)' => Pending(r)
        BY <3>1, <4>1 DEF Pending, SamePlan
      <4>3. req'[r].pc \in {"changed", "applied"} => Apply(r) /\ req[r].pc = "changed"
        BY <2>2 DEF Moves
      <4>4. QED
        BY <1>2, <3>1, <4>2, <4>3 DEF Decides, SamePlan, VisibilityDiffers
    <3>4. QED
      BY <3>2, <3>3
  <2>3. CASE Starts(r)
    <3>1. ~Pending(r)' /\ ~Decides(r)'
      BY <2>3 DEF Starts, Pending, Decides, NoChange, NoWrite, Atoms
    <3>2. QED
      BY <1>2, <3>1
  <2>4. CASE (\E w : Asks(r, w)) \/ Ends(r)
    <3>1. ~req'[r].wrote
      BY <2>4 DEF Asks, Ends
    <3>2. QED
      BY <1>2, <3>1 DEF Pending, Decides
  <2>5. QED
    BY <1>2, <2>1, <2>2, <2>3, <2>4, Course
<1>3. QED
  BY <1>1, <1>2

(* Nobody has the public viewers in hand when they are read.               *)
LEMMA DecidesAlone ==
  ASSUME TypeOK, LockInv, NEW r \in Requests, ~clash', NEW c, Computes(r, c),
         req[r].wrote, req[r].kind = "update" => VisibilityDiffers(r)
  PROVE  \A s \in Requests \ {r} : ~Pending(s)
<1>1. SUFFICES ASSUME NEW s \in Requests \ {r}, Pending(s) PROVE FALSE
  OBVIOUS
<1>2. req[r].pc = "written" /\ Locks(r)
  BY DEF Computes, Locks
<1>3. ~DecideOutdated(r)
  BY DEF DecideOutdated
<1>4. CASE req[r].kind = "create"
  BY <1>1, <1>4 DEF LockInv, Alone, Pending
<1>5. CASE req[r].kind # "create"
  <2>1. CASE req[s].pc # "undo"
    <3>1. Locks(s)
      BY <1>1, <2>1 DEF Pending, Locks
    <3>2. QED
      BY <1>2, <3>1 DEF LockInv, OneLock
  <2>2. CASE req[s].pc = "undo"
    <3>1. PublicViewers \in Uses(r)
      BY RelTypes DEF Uses
    <3>2. AboutToBeUndone(Uses(r))
      BY <1>1, <2>2, <3>1 DEF AboutToBeUndone, Pending
    <3>3. DecideDelete(r) \/ DecideUpdate(r)
      BY <1>3, <1>5 DEF Computes, DecideCreate
    <3>4. clash'
      BY <3>2, <3>3 DEF DecideDelete, DecideUpdate
    <3>5. QED
      BY <3>4
  <2>3. QED
    BY <2>1, <2>2
<1>6. QED
  BY <1>4, <1>5

LEMMA AloneStep ==
  ASSUME TypeOK, LockInv, LockInv', NEW r \in Requests, Step(r), ~clash',
         \A s \in Requests : VisibilityReady(s),
         \A c : Computes(r, c) /\ req[r].kind = "update" /\ ~VisibilityDiffers(r)
            => ~Pending(r)',
         NEW s \in Requests, Pending(s)' \/ Decides(s)',
         NEW t \in Requests \ {s}
  PROVE  ~Pending(t)'
<1>1. SUFFICES ASSUME Pending(t)' PROVE FALSE
  OBVIOUS
<1>2. ASSUME NEW c, Computes(r, c), Pending(r)' \/ Decides(r)'
      PROVE  \A u \in Requests \ {r} : ~Pending(u)
  <2>1. req[r].wrote
    BY <1>2 DEF Computes, SamePlan, Pending, Decides
  <2>2. req[r].kind = "update" => VisibilityDiffers(r)
    <3>1. Decides(r)' => (req[r].kind = "update" => VisibilityDiffers(r))
      BY <1>2 DEF Computes, SamePlan, Decides, VisibilityDiffers
    <3>2. QED
      BY <1>2, <3>1
  <2>3. QED
    BY <1>2, <2>1, <2>2, DecidesAlone
<1>3. CASE Pending(t)
  <2>1. CASE s = r /\ \E c : Computes(r, c)
    BY <1>2, <1>3, <2>1
  <2>2. CASE ~(s = r /\ \E c : Computes(r, c))
    <3>1. Pending(s) \/ Decides(s)
      BY <2>2, PendingStep
    <3>2. QED
      BY <1>3, <3>1 DEF VisibilityReady
  <2>3. QED
    BY <2>1, <2>2
<1>4. CASE ~Pending(t)
  <2>1. t = r /\ \E c : Computes(r, c)
    BY <1>1, <1>4, PendingStep
  <2>2. PICK c : Computes(r, c)
    BY <2>1
  <2>3. s # r
    BY <2>1
  <2>4. Pending(s) \/ Decides(s)
    BY <2>3, PendingStep
  <2>5. ~Pending(s)
    BY <1>1, <1>2, <2>1, <2>2, <2>3
  <2>6. Locks(s)'
    <3>1. Decides(s)'
      BY <2>3, <2>4, <2>5, OthersKeep DEF Decides, VisibilityDiffers
    <3>2. QED
      BY <3>1 DEF Decides, Locks
  <2>7. Locks(r)'
    <3>1. req'[r].wrote /\ req'[r].pc = "changed"
      BY <1>1, <2>1, <2>2 DEF Pending, Computes
    <3>2. QED
      BY <3>1 DEF Locks
  <2>8. OneLock'
    BY DEF LockInv
  <2>9. QED
    BY <2>3, <2>6, <2>7, <2>8 DEF OneLock
<1>5. QED
  BY <1>3, <1>4

(* Nothing is pending: the relationships show the row.                     *)
LEMMA ShownNow ==
  ASSUME TypeOK, LockInv, VisibilityInv, ~clash, NEW r \in Requests, ~clash',
         NEW c, Computes(r, c), req[r].wrote, db.exists,
         req[r].kind = "update" => VisibilityDiffers(r)
  PROVE  Shown(rels, db)
<1>1. \A s \in Requests \ {r} : ~Pending(s)
  BY DecidesAlone
<1>2. ~Pending(r)
  BY DEF Computes, Pending
<1>3. QED
  BY <1>1, <1>2 DEF VisibilityInv

(* The inverse of r restores the visibility of the row.                    *)
LEMMA InverseStep ==
  ASSUME TypeOK, LockInv, VisibilityInv, ~clash, NEW r \in Requests, Step(r),
         ~clash', NEW s \in Requests, Pending(s)', db'.exists,
         \A c : Computes(r, c) /\ req[r].kind = "update" /\ ~VisibilityDiffers(r)
            => ~Pending(r)'
  PROVE  Shown(req'[s].change.undo.touch, db')
<1>1. Shape /\ \A t \in Requests : VisibilityReady(t)
  BY DEF LockInv, VisibilityInv
<1>2. CASE Pending(s)
  <2>1. req'[s].change = req[s].change
    <3>1. CASE s # r
      BY <3>1, OthersKeep
    <3>2. CASE s = r
      <4>1. req[r].pc \in {"changed", "applied", "failed", "undo"} /\ ~CommitLost(r)
        BY <1>2, <3>2 DEF Pending, CommitLost
      <4>2. ~Starts(r)
        BY <4>1 DEF Starts, Create, Look, Patch, PatchNothing, Delete
      <4>3. ~(\E c : Computes(r, c)) /\ ~(\E w : Asks(r, w))
        BY <4>1 DEF Computes, Asks, MembersRead
      <4>4. ~Ends(r)
        BY <3>2 DEF Ends, Pending
      <4>5. Moves(r)
        BY <1>1, <4>1, <4>2, <4>3, <4>4, Course
      <4>6. QED
        BY <3>2, <4>5 DEF Moves
    <3>3. QED
      BY <3>1, <3>2
  <2>2. CASE db' = db
    BY <1>1, <1>2, <2>1, <2>2 DEF VisibilityReady
  <2>3. CASE db' # db
    <3>1. /\ Commit(r) /\ req[r].pc = "applied" /\ req[r].wrote /\ Locks(r)
          /\ db' = req[r].new
          /\ req[r].kind \in {"create", "update", "delete"}
      BY <2>3, CommitOnly
    <3>2. s # r
      <4>1. req'[r] = Ended
        BY <3>1 DEF Commit, TypeOK
      <4>2. ~Pending(r)'
        BY <4>1 DEF Pending, Ended, NewRequest
      <4>3. QED
        BY <4>2
    <3>3. req[r].kind # "create"
      <4>1. req[r].kind = "create" => req[s].pc = "new"
        BY <3>1, <3>2 DEF LockInv, Alone
      <4>2. QED
        BY <1>2, <4>1 DEF Pending
    <3>4. req[r].kind # "delete"
      <4>1. req[r].kind = "delete" => db' = NoProject
        BY <1>1, <3>1 DEF Shape, ShapeOf
      <4>2. QED
        BY <4>1, RowKinds
    <3>5. req[r].kind = "update"
      BY <3>1, <3>3, <3>4
    <3>6. ~VisibilityDiffers(r)
      <4>1. VisibilityDiffers(r) => Decides(r)
        BY <3>1 DEF Decides
      <4>2. QED
        BY <1>1, <1>2, <3>2, <4>1 DEF VisibilityReady
    <3>7. db.exists /\ db'.vis = db.vis
      BY <3>1, <3>5, <3>6, SameVisibility
    <3>8. QED
      BY <1>1, <1>2, <2>1, <3>7 DEF VisibilityReady, Shown
  <2>4. QED
    BY <2>2, <2>3
<1>3. CASE ~Pending(s)
  <2>1. s = r /\ \E c : Computes(r, c)
    BY <1>3, PendingStep
  <2>2. PICK c : Computes(r, c)
    BY <2>1
  <2>3. db' = db /\ req'[r].change = c /\ req[r].wrote
    BY <2>1, <2>2 DEF Computes, Decided, SamePlan, Pending
  <2>4. req[r].kind = "update" => VisibilityDiffers(r)
    BY <2>1, <2>2
  <2>5. Shown(rels, db)
    BY <2>2, <2>3, <2>4, ShownNow
  <2>6. CASE req[r].kind = "create"
    <3>1. db = NoProject
      BY <2>3, <2>6 DEF LockInv, Alone
    <3>2. QED
      BY <2>3, <3>1, RowKinds
  <2>7. CASE req[r].kind = "delete"
    <3>1. c = Removed
      BY <1>1, <2>2, <2>7, ComputedIs
    <3>2. c.undo.touch = rels
      BY <3>1, MirroredRemoved
    <3>3. QED
      BY <2>1, <2>3, <2>5, <3>2
  <2>8. CASE req[r].kind = "update"
    <3>1. req[r].new \in Project
      BY <1>1, <2>2, <2>8, ComputedIs
    <3>2. PICK public \in BOOLEAN :
            \E v \in VisibilityChanges(r, public), n \in NamespaceChanges(r) :
               c = Merged(v, n) /\ public = (PublicViewers \in rels)
      BY <1>1, <2>2, <2>8, ComputedIs
    <3>3. PICK v \in VisibilityChanges(r, public), n \in NamespaceChanges(r) :
                 c = Merged(v, n)
      BY <3>2
    <3>4. public <=> PublicViewers \in rels
      BY <3>2
    <3>5. /\ PublicViewers \in Atoms(c.apply) <=> PublicViewers \in Atoms(c.undo)
          /\ PublicViewers \in c.apply.touch <=>
                req[r].new.vis = "public" /\ ~public
          /\ PublicViewers \in c.apply.delete <=>
                req[r].new.vis # "public" /\ public
          /\ PublicViewers \in c.undo.touch <=>
                req[r].new.vis # "public" /\ public
      BY <2>4, <2>8, <3>1, <3>3, UpdateParts
    <3>6. PublicViewers \in Atoms(c.undo)
      BY <2>1, <2>3 DEF Pending
    <3>7. PublicViewers \in c.undo.touch <=> PublicViewers \in rels
      BY <3>4, <3>5, <3>6 DEF Atoms
    <3>8. QED
      BY <2>1, <2>3, <2>5, <3>7 DEF Shown
  <2>9. QED
    BY <1>1, <2>2, <2>6, <2>7, <2>8, ComputedIs
<1>4. QED
  BY <1>2, <1>3

(* What r is to commit is what it writes and has written.                  *)
LEMMA DecisionStep ==
  ASSUME TypeOK, LockInv, AuthzInv, PlanInv, VisibilityInv, ~clash,
         NEW r \in Requests, Step(r), ~clash',
         NEW s \in Requests, Decides(s)', req'[s].kind # "delete"
  PROVE  /\ req'[s].pc = "changed" =>
               Shown(After(rels', req'[s].change.apply), req'[s].new)
         /\ req'[s].pc = "applied" => Shown(rels', req'[s].new)
<1>1. Shape /\ \A t \in Requests : LeftAlone(t) /\ VisibilityReady(t)
  BY DEF LockInv, VisibilityInv
<1>2. CASE s # r
  <2>1. req'[s] = req[s]
    BY <1>2, OthersKeep
  <2>2. Decides(s)
    BY <2>1 DEF Decides, VisibilityDiffers
  <2>3. ~Pending(r)
    BY <1>1, <1>2, <2>2 DEF VisibilityReady
  <2>4. PublicViewers \in rels' <=> PublicViewers \in rels
    BY <1>1, <2>3, PublicKept
  <2>5. /\ req[s].pc = "changed" =>
              Shown(After(rels, req[s].change.apply), req[s].new)
        /\ req[s].pc = "applied" => Shown(rels, req[s].new)
    BY <1>1, <2>1, <2>2 DEF VisibilityReady
  <2>6. QED
    BY <2>1, <2>4, <2>5 DEF Shown, After
<1>3. CASE s = r /\ Decides(r) /\ Apply(r)
  <2>1. req'[r].pc = "applied" /\ SamePlan(r)
    BY <1>3, PcOnly DEF Apply
  <2>2. req[r].pc = "changed" /\ req[r].kind # "delete"
    BY <1>3, <2>1 DEF Apply, SamePlan
  <2>3. Shown(After(rels, req[r].change.apply), req[r].new)
    BY <1>1, <1>3, <2>2 DEF VisibilityReady
  <2>4. rels' = After(rels, req[r].change.apply)
    BY <1>3 DEF Apply, Sent, Written
  <2>5. QED
    BY <1>3, <2>1, <2>3, <2>4 DEF SamePlan
<1>4. ASSUME NEW c, Computes(r, c), s = r
      PROVE  Shown(After(rels', req'[s].change.apply), req'[s].new)
  <2>1. /\ req'[r].change = c /\ req'[r].new = req[r].new /\ rels' = rels
        /\ req[r].kind # "delete"
    BY <1>4 DEF Computes, Decided, SamePlan
  <2>2. CASE req[r].kind = "create"
    <3>1. PICK u \in Users : c = Added(u, req[r].new)
      BY <1>1, <1>4, <2>2, ComputedIs
    <3>2. rels = {}
      BY <1>4, <2>2 DEF PlanInv, Unborn, Computes
    <3>3. Shown(c.apply.touch, req[r].new)
      BY <3>1, MirroredAdded
    <3>4. After(rels, c.apply) = c.apply.touch
      BY <3>2 DEF After
    <3>5. QED
      BY <1>4, <2>1, <3>3, <3>4
  <2>3. CASE req[r].kind = "update"
    <3>1. req[r].new \in Project
      BY <1>1, <1>4, <2>3, ComputedIs
    <3>2. PICK public \in BOOLEAN :
            \E v \in VisibilityChanges(r, public), n \in NamespaceChanges(r) :
               c = Merged(v, n) /\ public = (PublicViewers \in rels)
      BY <1>1, <1>4, <2>3, ComputedIs
    <3>3. PICK v \in VisibilityChanges(r, public), n \in NamespaceChanges(r) :
                 c = Merged(v, n)
      BY <3>2
    <3>4. public <=> PublicViewers \in rels
      BY <3>2
    <3>5. VisibilityDiffers(r)
      BY <1>4, <2>3 DEF Decides, VisibilityDiffers, Computes, SamePlan
    <3>6. /\ PublicViewers \in c.apply.touch <=>
                req[r].new.vis = "public" /\ ~public
          /\ PublicViewers \in c.apply.delete <=>
                req[r].new.vis # "public" /\ public
      BY <3>1, <3>3, <3>5, UpdateParts
    <3>7. QED
      BY <1>4, <2>1, <3>4, <3>6 DEF Shown, After
  <2>4. QED
    BY <1>1, <1>4, <2>1, <2>2, <2>3, ComputedIs
<1>5. (\E c : Computes(r, c)) => req'[r].pc = "changed"
  BY DEF Computes
<1>6. QED
  BY <1>2, <1>3, <1>4, <1>5, PendingStep

(* A change of something else leaves the public viewers alone.             *)
LEMMA OtherStep ==
  ASSUME TypeOK, LockInv, NEW r \in Requests, Step(r), ~clash',
         NEW s \in Requests, VisibilityReady(s),
         req'[s].kind = "update", ~VisibilityDiffers(s)'
  PROVE  PublicViewers \notin Atoms(req'[s].change.undo)
<1>1. Shape
  BY DEF LockInv
<1>2. ASSUME req'[s].change = NoChange
      PROVE  PublicViewers \notin Atoms(req'[s].change.undo)
  BY <1>2 DEF NoChange, NoWrite, Atoms
<1>3. CASE s # r
  BY <1>3, OthersKeep DEF VisibilityReady, VisibilityDiffers
<1>4. CASE s = r
  <2>1. CASE Starts(r) \/ Ends(r)
    BY <1>2, <1>4, <2>1 DEF Starts, Ends
  <2>2. CASE Moves(r)
    BY <1>4, <2>2 DEF Moves, SamePlan, VisibilityReady, VisibilityDiffers
  <2>3. ASSUME NEW c, Computes(r, c)
        PROVE  PublicViewers \notin Atoms(req'[r].change.undo)
    <3>1. req'[r].change = c /\ req[r].kind = "update" /\ ~VisibilityDiffers(r)
      BY <1>4, <2>3 DEF Computes, SamePlan, VisibilityDiffers
    <3>2. req[r].new \in Project
      BY <1>1, <2>3, <3>1, ComputedIs
    <3>3. PICK public \in BOOLEAN :
            \E v \in VisibilityChanges(r, public), n \in NamespaceChanges(r) :
               c = Merged(v, n)
      BY <1>1, <2>3, <3>1, ComputedIs
    <3>4. PICK v \in VisibilityChanges(r, public), n \in NamespaceChanges(r) :
                 c = Merged(v, n)
      BY <3>3
    <3>5. QED
      BY <3>1, <3>2, <3>4, UpdateParts
  <2>4. (\E w : Asks(r, w)) => req'[r].kind = "members"
    BY DEF Asks
  <2>5. ~CommitLost(r)
    BY DEF CommitLost
  <2>6. QED
    BY <1>1, <1>4, <2>1, <2>2, <2>3, <2>4, <2>5, Course
<1>5. QED
  BY <1>3, <1>4

(* The relationships show the row, or somebody is about to make them.      *)
LEMMA ShownStep ==
  ASSUME TypeOK, LockInv, AuthzInv, PlanInv, VisibilityInv, ~clash,
         NEW r \in Requests, Step(r), ~clash', db'.exists
  PROVE  \/ Shown(rels', db')
         \/ \E s \in Requests : Pending(s)' /\ req'[s].pc # "changed"
<1>1. /\ Shape /\ \A t \in Requests : LeftAlone(t) /\ VisibilityReady(t)
      /\ db.exists => \/ Shown(rels, db)
                      \/ \E t \in Requests : Pending(t) /\ req[t].pc # "changed"
  BY DEF LockInv, VisibilityInv
<1>2. ASSUME NEW t \in Requests \ {r}, Pending(t), req[t].pc # "changed"
      PROVE  Pending(t)' /\ req'[t].pc # "changed"
  BY <1>2, OthersKeep DEF Pending
<1>3. CASE db' # db
  <2>1. /\ Commit(r) /\ req[r].pc = "applied" /\ req[r].wrote /\ Locks(r)
        /\ db' = req[r].new /\ rels' = rels
        /\ req[r].kind \in {"create", "update", "delete"}
    BY <1>3, CommitOnly
  <2>2. req[r].kind # "delete"
    <3>1. req[r].kind = "delete" => db' = NoProject
      BY <1>1, <2>1 DEF Shape, ShapeOf
    <3>2. QED
      BY <3>1, RowKinds
  <2>3. CASE Decides(r)
    BY <1>1, <2>1, <2>2, <2>3 DEF VisibilityReady
  <2>4. CASE ~Decides(r)
    <3>1. req[r].kind = "update" /\ ~VisibilityDiffers(r)
      BY <2>1, <2>4 DEF Decides
    <3>2. db.exists /\ db'.vis = db.vis
      BY <2>1, <3>1, SameVisibility
    <3>3. ~Pending(r)
      BY <1>1, <3>1 DEF VisibilityReady, Pending
    <3>4. QED
      BY <1>1, <1>2, <2>1, <3>2, <3>3 DEF Shown
  <2>5. QED
    BY <2>3, <2>4
<1>4. CASE db' = db
  <2>1. CASE ~Pending(r)
    <3>1. PublicViewers \in rels' <=> PublicViewers \in rels
      BY <1>1, <2>1, PublicKept
    <3>2. QED
      BY <1>1, <1>2, <1>4, <2>1, <3>1 DEF Shown
  <2>2. CASE Pending(r)
    <3>1. /\ req[r].pc \in {"changed", "applied", "failed", "undo"}
          /\ req[r].wrote /\ req[r].change # NoChange /\ ~CommitLost(r)
      BY <2>2 DEF Pending, NoChange, NoWrite, Atoms, CommitLost
    <3>2. CASE Moves(r)
      <4>1. /\ SamePlan(r) /\ req'[r].change = req[r].change
            /\ req'[r].pc \in {"applied", "failed", "undo"}
        BY <3>2 DEF Moves
      <4>2. Pending(r)' /\ req'[r].pc # "changed"
        BY <2>2, <4>1 DEF Pending, SamePlan
      <4>3. QED
        BY <4>2
    <3>3. CASE Undo(r)
      <4>1. rels' = After(rels, req[r].change.undo)
        BY <3>3 DEF Undo, Sent, Written
      <4>2. Shown(req[r].change.undo.touch, db)
        BY <1>1, <1>4, <2>2 DEF VisibilityReady
      <4>3. PublicViewers \in Atoms(req[r].change.undo)
        BY <2>2 DEF Pending
      <4>4. PublicViewers \in rels' <=> PublicViewers \in req[r].change.undo.touch
        BY <4>1, <4>3 DEF After, Atoms
      <4>5. QED
        BY <1>4, <4>2, <4>4 DEF Shown
    <3>4. CASE Commit(r)
      <4>1. req[r].pc = "applied" /\ db' = req[r].new /\ rels' = rels
        BY <3>1, <3>4 DEF Commit, CommittedRow
      <4>2. req[r].kind \in {"create", "update", "delete"}
        BY <1>1, <4>1 DEF Shape, ShapeOf
      <4>3. req[r].kind # "delete"
        <5>1. req[r].kind = "delete" => db' = NoProject
          BY <1>1, <4>1 DEF Shape, ShapeOf
        <5>2. QED
          BY <5>1, RowKinds
      <4>4. Decides(r)
        BY <1>1, <2>2, <3>1, <4>1 DEF Decides, VisibilityReady, Pending
      <4>5. QED
        BY <1>1, <4>1, <4>3, <4>4 DEF VisibilityReady
    <3>5. ~UndoFails(r) /\ ~Die(r) /\ ~WriteMembers(r)
      BY <3>1 DEF UndoFails, Die, WriteMembers
    <3>6. ~Starts(r)
      BY <3>1 DEF Starts, Create, Look, Patch, PatchNothing, Delete
    <3>7. ~(\E c : Computes(r, c)) /\ ~(\E w : Asks(r, w))
      BY <3>1 DEF Computes, Asks, MembersRead
    <3>8. QED
      BY <1>1, <3>1, <3>2, <3>3, <3>4, <3>5, <3>6, <3>7, Course DEF Ends
  <2>3. QED
    BY <2>1, <2>2
<1>5. QED
  BY <1>3, <1>4

(* What the invariant depends on.                                          *)
LEMMA VisibilityFrame ==
  ASSUME VisibilityInv, req' = req, db' = db, clash' <=> clash,
         PublicViewers \in rels' <=> PublicViewers \in rels
  PROVE  VisibilityInv'
<1>1. CASE clash
  BY <1>1 DEF VisibilityInv
<1>2. CASE ~clash
  <2>1. \A s \in Requests : /\ Pending(s)' = Pending(s) /\ Decides(s)' = Decides(s)
                            /\ VisibilityDiffers(s)' = VisibilityDiffers(s)
                            /\ LeftAlone(s)' = LeftAlone(s)
    BY DEF Pending, Decides, VisibilityDiffers, LeftAlone
  <2>2. \A p : Shown(rels', p) <=> Shown(rels, p)
    BY DEF Shown
  <2>3. \A p, w : Shown(After(rels', w), p) <=> Shown(After(rels, w), p)
    BY DEF Shown, After
  <2>4. ASSUME NEW s \in Requests PROVE LeftAlone(s)' /\ VisibilityReady(s)'
    <3>1. LeftAlone(s) /\ VisibilityReady(s)
      BY <1>2 DEF VisibilityInv
    <3>2. QED
      BY <2>1, <2>2, <2>3, <3>1 DEF VisibilityReady
  <2>5. db'.exists => \/ Shown(rels', db')
                      \/ \E s \in Requests : Pending(s)' /\ req'[s].pc # "changed"
    BY <1>2, <2>1, <2>2 DEF VisibilityInv
  <2>6. QED
    BY <2>4, <2>5 DEF VisibilityInv
<1>3. QED
  BY <1>1, <1>2

LEMMA VisibilityStep ==
  ASSUME TypeOK, LockInv, LockInv', AuthzInv, PlanInv, VisibilityInv, [Next]_vars
  PROVE  VisibilityInv'
<1>1. SUFFICES ASSUME ~clash' PROVE VisibilityInv'
  BY DEF VisibilityInv
<1>2. ASSUME NEW r \in Requests, Step(r) PROVE VisibilityInv'
  <2>1. ~clash
    BY <1>1, <1>2, ClashGrows
  <2>2. \A s \in Requests : LeftAlone(s) /\ VisibilityReady(s)
    BY <2>1 DEF VisibilityInv
  <2>3. \A s \in Requests : LeftAlone(s)'
    BY <1>1, <1>2, <2>2, LeftAloneStep
  <2>4. \A s \in Requests : req'[s].kind = "update" /\ ~VisibilityDiffers(s)'
                               => PublicViewers \notin Atoms(req'[s].change.undo)
    BY <1>1, <1>2, <2>2, OtherStep
  <2>5. \A c : Computes(r, c) /\ req[r].kind = "update" /\ ~VisibilityDiffers(r)
           => ~Pending(r)'
    BY <2>4 DEF Computes, SamePlan, VisibilityDiffers, Pending
  <2>6. ASSUME NEW s \in Requests PROVE VisibilityReady(s)'
    <3>1. Pending(s)' \/ Decides(s)' => \A t \in Requests \ {s} : ~Pending(t)'
      BY <1>1, <1>2, <2>2, <2>5, AloneStep
    <3>2. Pending(s)' /\ db'.exists => Shown(req'[s].change.undo.touch, db')
      BY <1>1, <1>2, <2>1, <2>5, InverseStep
    <3>3. Decides(s)' /\ req'[s].kind # "delete" =>
            /\ req'[s].pc = "changed" =>
                  Shown(After(rels', req'[s].change.apply), req'[s].new)
            /\ req'[s].pc = "applied" => Shown(rels', req'[s].new)
      BY <1>1, <1>2, <2>1, DecisionStep
    <3>4. QED
      BY <2>4, <3>1, <3>2, <3>3 DEF VisibilityReady
  <2>7. db'.exists => \/ Shown(rels', db')
                      \/ \E s \in Requests : Pending(s)' /\ req'[s].pc # "changed"
    BY <1>1, <1>2, <2>1, ShownStep
  <2>8. QED
    BY <2>3, <2>6, <2>7 DEF VisibilityInv
<1>3. CASE RepairFind \/ RepairLook
  <2>1. UNCHANGED <<rels, req, db, clash>>
    BY <1>3 DEF RepairFind, RepairLook
  <2>2. QED
    BY <2>1, VisibilityFrame
<1>4. CASE RepairWrite
  <2>1. /\ repair.write = Correction(repair.found, db) /\ ~clash
        /\ req' = req /\ db' = db /\ rels' = After(rels, repair.write)
    BY <1>1, <1>4 DEF RepairWrite, Written
  <2>2. repair.found \in SUBSET ByGroup /\ db \in Row
    BY DEF TypeOK, Repair
  <2>3. Atoms(repair.write) \subseteq NamespaceRels
    BY <2>1, <2>2, CorrectionOK
  <2>4. PublicViewers \in rels' <=> PublicViewers \in rels
    BY <2>1, <2>3, RelKinds DEF After, Atoms
  <2>5. QED
    BY <1>1, <2>1, <2>4, VisibilityFrame
<1>5. CASE UNCHANGED vars
  <2>1. UNCHANGED <<rels, req, db, clash>>
    BY <1>5 DEF vars
  <2>2. QED
    BY <2>1, VisibilityFrame
<1>6. QED
  BY <1>2, <1>3, <1>4, <1>5 DEF Next, RepairStep

LEMMA InitVisibilityInv == Init => VisibilityInv
<1> SUFFICES ASSUME Init PROVE VisibilityInv
  OBVIOUS
<1>1. ASSUME NEW r \in Requests PROVE LeftAlone(r) /\ VisibilityReady(r)
  <2>1. /\ req[r].kind = "none" /\ req[r].pc = "new"
        /\ req[r].change = NoChange /\ ~req[r].wrote
    BY DEF Init, NewRequest
  <2>2. ~Pending(r) /\ ~Decides(r)
    BY <2>1 DEF Pending, Decides
  <2>3. QED
    BY <2>1, <2>2 DEF LeftAlone, VisibilityReady
<1>2. CASE db = NoProject
  BY <1>1, <1>2, RowKinds DEF VisibilityInv
<1>3. ASSUME NEW p \in Project, NEW u \in Users,
             db = p, rels = Added(u, p).apply.touch
      PROVE  VisibilityInv
  BY <1>1, <1>3, MirroredAdded DEF VisibilityInv
<1>4. QED
  BY <1>2, <1>3 DEF Init

-----------------------------------------------------------------------------
(* Nothing is left.                                                        *)

LEMMA NoAtoms ==
  ASSUME NEW S, NEW w, Atoms(w) = {}
  PROVE  After(S, w) = S
BY DEF After, Atoms

(* A deletion finds the relationships of a project that nobody else is     *)
(* about to change.                                                        *)
LEMMA DeletionFinds ==
  ASSUME TypeOK, LockInv, AuthzInv, \A s \in Requests : LeftAlone(s), ~clash,
         NEW r \in Requests, req[r].pc = "written", req[r].kind = "delete",
         req[r].wrote, ~AboutToBeUndone(Rels)
  PROVE  /\ HasOwner(rels)
         /\ \A s \in Requests : req[s].pc = "undo" =>
                                  Atoms(req[s].change.undo) = {}
<1>1. Locks(r) /\ db.exists
  BY DEF LockInv, FoundRow, Locks
<1>2. ASSUME NEW s \in Requests, req[s].pc = "undo"
      PROVE  Atoms(req[s].change.undo) = {}
  <2>1. Atoms(req[s].change.undo) \subseteq Rels
    BY RequestTypes DEF Atoms, Write
  <2>2. QED
    BY <1>2, <2>1 DEF AboutToBeUndone
<1>3. ASSUME NEW s \in Requests, MayRestore(s)
      PROVE  req[s].change.undo.touch = {}
  <2>1. s # r
    BY <1>3 DEF MayRestore
  <2>2. CASE req[s].pc = "undo"
    BY <1>2, <2>2 DEF Atoms
  <2>3. CASE req[s].pc # "undo"
    <3>1. ~Locks(s)
      BY <1>1, <2>1 DEF LockInv, OneLock
    <3>2. ~req[s].wrote
      BY <1>3, <2>3, <3>1 DEF MayRestore, Locks
    <3>3. Atoms(req[s].change.undo) = {}
      BY <1>3, <3>2 DEF MayRestore, LeftAlone
    <3>4. QED
      BY <3>3 DEF Atoms
  <2>4. QED
    BY <2>2, <2>3
<1>4. Restorable = {}
  BY <1>3 DEF Restorable
<1>5. HasOwner(Kept)
  BY <1>1 DEF AuthzInv, Complete
<1>6. Kept = rels
  BY <1>4 DEF Kept
<1>7. QED
  BY <1>2, <1>5, <1>6

(* A step of another request leaves a deletion as it is, or tells it.      *)
LEMMA DeletionFrame ==
  ASSUME TypeOK, LockInv, AuthzInv, PlanInv,
         \A t \in Requests : LeftAlone(t) /\ DeletionReady(t),
         NEW r \in Requests, Step(r), ~clash', NEW s \in Requests \ {r}
  PROVE  DeletionReady(s)'
<1>1. Shape /\ OneLock
  BY DEF LockInv
<1>2. req'[s] = req[s]
  BY OthersKeep
<1>3. SUFFICES ASSUME req[s].kind = "delete", req[s].wrote,
                      req[s].pc \in {"changed", "applied"}
               PROVE  DeletionReady(s)'
  BY <1>2 DEF DeletionReady
<1>4. Locks(s) /\ InFlight(s) /\ DeletionReady(s) /\ ~Locks(r)
  BY <1>1, <1>3 DEF Locks, InFlight, OneLock
<1>5. \E w : Wrote(r, w)
  BY <1>1, Effects
<1>6. PICK w : Wrote(r, w)
  BY <1>5
<1>7. stale[s] # {} \/ Atoms(w) # {} => stale'[s] # {}
  BY <1>4, <1>6 DEF Wrote
<1>8. Atoms(w) = {} => rels' = rels
  BY <1>6, NoAtoms DEF Wrote
<1>9. ASSUME stale'[s] = {}
      PROVE  stale[s] = {} /\ rels' = rels
  BY <1>7, <1>8, <1>9
<1>10. ASSUME rels = {}, NEW m \in Requests, req'[m].pc = "members",
              \A n \in Requests :
                 req[n].pc = "members" => stale[n] \cap MemberRels # {}
       PROVE  stale'[m] \cap MemberRels # {}
  <2>1. CASE m # r
    <3>1. req[m].pc = "members"
      BY <1>10, <2>1, OthersKeep
    <3>2. stale[m] \cap MemberRels # {}
      BY <1>10, <3>1
    <3>3. stale[m] \subseteq stale'[m]
      BY <1>6, <2>1 DEF Wrote
    <3>4. QED
      BY <3>2, <3>3
  <2>2. CASE m = r
    <3>1. ~CommitLost(r)
      BY DEF CommitLost
    <3>2. \E v : Asks(r, v)
      BY <1>1, <1>10, <2>2, <3>1, Course DEF Starts, Computes, Moves, Ends
    <3>3. Allowed
      BY <3>2 DEF Asks, MembersRead
    <3>4. QED
      BY <1>10, <3>3 DEF Allowed
  <2>3. QED
    BY <2>1, <2>2
<1>11. ASSUME NEW t \in Requests \ {s}, req'[t].pc = "undo"
       PROVE  Atoms(req'[t].change.undo) = {}
  <2>1. CASE t # r
    <3>1. req'[t] = req[t]
      BY <2>1, OthersKeep
    <3>2. QED
      BY <1>3, <1>4, <1>11, <3>1 DEF DeletionReady
  <2>2. CASE t = r
    <3>1. ~CommitLost(r)
      BY DEF CommitLost
    <3>2. Moves(r)
      BY <1>1, <1>11, <2>2, <3>1, Course DEF Starts, Computes, Asks, Ends
    <3>3. req[r].pc = "failed" /\ req'[r].change = req[r].change
      BY <1>11, <2>2, <3>2 DEF Moves
    <3>4. ~req[r].wrote
      BY <1>4, <3>3 DEF Locks
    <3>5. Atoms(req[r].change.undo) = {}
      BY <3>3, <3>4 DEF LeftAlone
    <3>6. QED
      BY <2>2, <3>3, <3>5
  <2>3. QED
    BY <2>1, <2>2
<1>12. /\ req[s].pc = "changed" =>
             /\ HasOwner(req[s].change.apply.delete)
             /\ rels' \subseteq req[s].change.apply.delete \/ stale'[s] # {}
       /\ req[s].pc = "applied" =>
             \/ stale'[s] # {}
             \/ /\ rels' = {}
                /\ \A m \in Requests :
                      req'[m].pc = "members" => stale'[m] \cap MemberRels # {}
  <2>1. CASE stale'[s] # {}
    BY <1>3, <1>4, <2>1 DEF DeletionReady
  <2>2. CASE stale'[s] = {}
    BY <1>3, <1>4, <1>9, <1>10, <2>2 DEF DeletionReady
  <2>3. QED
    BY <2>1, <2>2
<1>13. QED
  BY <1>2, <1>11, <1>12 DEF DeletionReady

LEMMA DeletionMover ==
  ASSUME TypeOK, LockInv, AuthzInv, PlanInv,
         \A t \in Requests : LeftAlone(t) /\ DeletionReady(t),
         NEW r \in Requests, Step(r), ~clash'
  PROVE  DeletionReady(r)'
<1>1. Shape /\ OneLock /\ ~clash /\ Ready(r) /\ ~CommitLost(r)
  BY ClashGrows DEF LockInv, AuthzInv, CommitLost
<1>2. SUFFICES ASSUME req'[r].kind = "delete", req'[r].wrote,
                      req'[r].pc \in {"changed", "applied"}
               PROVE  DeletionReady(r)'
  BY DEF DeletionReady
<1>3. ASSUME NEW c, Computes(r, c) PROVE DeletionReady(r)'
  <2>1. /\ req[r].kind = "delete" /\ req[r].wrote /\ req[r].pc = "written"
        /\ req'[r].change = c /\ req'[r].pc = "changed" /\ rels' = rels
    BY <1>2, <1>3 DEF Computes, SamePlan, Decided
  <2>2. c = Removed
    BY <1>1, <1>3, <2>1, ComputedIs
  <2>3. DecideDelete(r)
    BY <1>3, <2>1 DEF Computes, DecideCreate, DecideUpdate, DecideOutdated
  <2>4. ~AboutToBeUndone(Rels)
    BY <2>1, <2>3 DEF DecideDelete, Uses
  <2>5. /\ HasOwner(rels)
        /\ \A s \in Requests : req[s].pc = "undo" =>
                                 Atoms(req[s].change.undo) = {}
    BY <1>1, <2>1, <2>4, DeletionFinds
  <2>6. req'[r].change.apply.delete = rels
    BY <2>1, <2>2, MirroredRemoved
  <2>7. \A s \in Requests \ {r} : req'[s] = req[s]
    BY OthersKeep
  <2>8. QED
    BY <2>1, <2>5, <2>6, <2>7 DEF DeletionReady
<1>4. CASE Apply(r)
  <2>1. /\ SamePlan(r) /\ req'[r].pc = "applied"
        /\ req'[r].change = req[r].change
    BY <1>4, PcOnly DEF Apply
  <2>2. /\ req[r].kind = "delete" /\ req[r].wrote /\ req[r].pc = "changed"
        /\ ~Disturbed(r)
    BY <1>2, <1>4, <2>1 DEF SamePlan, Apply
  <2>3. stale[r] = {}
    BY <2>2, NotDisturbed
  <2>4. /\ HasOwner(req[r].change.apply.delete)
        /\ rels \subseteq req[r].change.apply.delete
        /\ \A s \in Requests \ {r} :
              req[s].pc = "undo" => Atoms(req[s].change.undo) = {}
    BY <2>2, <2>3 DEF DeletionReady
  <2>5. req[r].change.apply.touch = {}
    BY <1>1, <2>2 DEF Ready, ChangeOK
  <2>6. Wrote(r, req[r].change.apply)
    BY <1>1, <1>4, RequestTypes, SentWrote DEF Apply
  <2>7. rels' = {}
    BY <2>4, <2>5, <2>6 DEF Wrote, After
  <2>8. ASSUME NEW m \in Requests, req'[m].pc = "members"
        PROVE  stale'[m] \cap MemberRels # {}
    <3>1. m # r
      BY <2>1, <2>8
    <3>2. InFlight(m)
      BY <2>8, <3>1, OthersKeep DEF InFlight
    <3>3. Atoms(req[r].change.apply) \subseteq stale'[m]
      BY <2>6, <3>1, <3>2 DEF Wrote
    <3>4. PICK u \in Users : Owner(u) \in req[r].change.apply.delete
      BY <2>4 DEF HasOwner
    <3>5. Owner(u) \in MemberRels
      BY RelTypes
    <3>6. QED
      BY <3>3, <3>4, <3>5 DEF Atoms
  <2>9. \A s \in Requests \ {r} : req'[s] = req[s]
    BY OthersKeep
  <2>10. QED
    BY <2>1, <2>4, <2>7, <2>8, <2>9 DEF DeletionReady
<1>5. QED
  <2>1. ~Starts(r)
    BY <1>2 DEF Starts
  <2>2. Moves(r) => Apply(r)
    BY <1>2 DEF Moves
  <2>3. QED
    BY <1>1, <1>2, <1>3, <1>4, <2>1, <2>2, Course DEF Asks, Ends

(* A request that has written the row of a project that does not exist is  *)
(* its creation.                                                           *)
LEMMA NoRow ==
  ASSUME LockInv, NEW r \in Requests, Locks(r), ~db.exists
  PROVE  req[r].kind = "create"
<1>1. req[r].kind \in {"create", "update", "delete"}
  BY DEF LockInv, Shape, ShapeOf, Locks
<1>2. QED
  BY <1>1 DEF LockInv, FoundRow, NoLostPatch

(* The deletion is committed.                                              *)
LEMMA Vanishes ==
  ASSUME TypeOK, LockInv, AuthzInv,
         \A t \in Requests : LeftAlone(t) /\ DeletionReady(t),
         NEW r \in Requests, Step(r), ~clash', db.exists, ~db'.exists
  PROVE  /\ rels' = {}
         /\ \A s \in Requests : Harmless(s)'
<1>1. /\ Commit(r) /\ req[r].pc = "applied" /\ req[r].wrote /\ Locks(r)
      /\ db' = req[r].new /\ rels' = rels /\ stale' = stale /\ ~Disturbed(r)
      /\ req[r].kind \in {"create", "update", "delete"}
  BY CommitOnly
<1>2. req[r].kind = "delete"
  <2>1. req[r].kind \in {"create", "update"} => req[r].new \in Project
    BY <1>1 DEF LockInv, Shape, ShapeOf
  <2>2. QED
    BY <1>1, <2>1, RowKinds
<1>3. stale[r] = {}
  BY <1>1, <1>2, NotDisturbed
<1>4. /\ rels = {}
      /\ \A m \in Requests :
            req[m].pc = "members" => stale[m] \cap MemberRels # {}
      /\ \A s \in Requests \ {r} :
            req[s].pc = "undo" => Atoms(req[s].change.undo) = {}
  BY <1>1, <1>2, <1>3 DEF DeletionReady
<1>5. req'[r] = Ended
  BY <1>1 DEF Commit, TypeOK
<1>6. ASSUME NEW s \in Requests PROVE Harmless(s)'
  <2>1. CASE s = r
    BY <1>5, <2>1 DEF Harmless, Ended, NewRequest
  <2>2. CASE s # r
    <3>1. req'[s] = req[s]
      BY <2>2, OthersKeep
    <3>2. QED
      BY <1>1, <1>4, <2>2, <3>1 DEF Harmless, Atoms
  <2>3. QED
    BY <2>1, <2>2
<1>7. QED
  BY <1>1, <1>4, <1>6

(* What is written while there is no project is removed again.             *)
LEMMA StaysTaken ==
  ASSUME TypeOK, LockInv, AuthzInv, PlanInv, NEW r \in Requests, Step(r),
         ~clash', ~db.exists, ~db'.exists, Harmless(r),
         rels = {} \/ \E s \in Requests : Taken(s)
  PROVE  rels' = {} \/ \E s \in Requests : Taken(s)'
<1>1. /\ Shape /\ OneLock /\ Alone /\ ~clash /\ Ready(r) /\ ~CommitLost(r)
      /\ Mirrored(req[r])
  BY ClashGrows DEF LockInv, AuthzInv, CommitLost, PlanInv
<1>2. CASE rels = {}
  <2>1. CASE /\ Apply(r) \/ ApplyFails(r)
             /\ Wrote(r, req[r].change.apply)
    <3>1. /\ \E p \in {"applied", "failed"} : req' = [req EXCEPT ![r].pc = p]
          /\ req[r].pc = "changed"
          /\ ~req[r].wrote => Atoms(req[r].change.apply) = {}
      BY <2>1 DEF Apply, ApplyFails
    <3>2. CASE ~req[r].wrote
      BY <1>2, <2>1, <3>1, <3>2, NoAtoms DEF Wrote
    <3>3. CASE req[r].wrote
      <4>1. req[r].kind = "create"
        BY <3>1, <3>3, NoRow DEF Locks
      <4>2. req[r].change.apply.touch = req[r].change.undo.delete
        BY <1>1, <4>1 DEF Mirrored
      <4>3. rels' \subseteq req[r].change.undo.delete
        BY <1>2, <2>1, <4>2 DEF Wrote, After
      <4>4. /\ SamePlan(r) /\ req'[r].pc \in {"applied", "failed"}
            /\ req'[r].change = req[r].change
        BY <3>1, PcOnly
      <4>5. Taken(r)'
        BY <3>3, <4>1, <4>3, <4>4 DEF Taken, SamePlan
      <4>6. QED
        BY <4>5
    <3>4. QED
      BY <3>2, <3>3
  <2>2. CASE WriteMembers(r) /\ Wrote(r, req[r].change.apply)
    <3>1. req[r].pc = "members" /\ ~Disturbed(r)
      BY <2>2 DEF WriteMembers
    <3>2. req[r].kind # "update"
      BY <1>1, <3>1 DEF Shape, ShapeOf
    <3>3. stale[r] \cap MemberRels = {}
      BY <3>1, <3>2, NotDisturbed
    <3>4. req[r].change.apply.touch = {}
      BY <3>1, <3>3 DEF Harmless
    <3>5. QED
      BY <1>2, <2>2, <3>4 DEF Wrote, After
  <2>3. CASE Undo(r) /\ Wrote(r, req[r].change.undo)
    <3>1. req[r].change.undo.touch = {}
      BY <2>3 DEF Undo, Harmless
    <3>2. QED
      BY <1>2, <2>3, <3>1 DEF Wrote, After
  <2>4. QED
    BY <1>1, <1>2, <2>1, <2>2, <2>3, Effects
<1>3. CASE rels # {}
  <2>1. PICK s \in Requests : Taken(s)
    BY <1>3
  <2>2. s = r
    <3>1. SUFFICES ASSUME s # r PROVE FALSE
      OBVIOUS
    <3>2. db = NoProject /\ req[r].pc = "new"
      BY <1>1, <2>1, <3>1 DEF Alone, Taken
    <3>3. Create(r)
      BY <1>1, <3>2, OnlyCreate
    <3>4. req[s].pc = "new"
      BY <3>3 DEF Create
    <3>5. QED
      BY <2>1, <3>4 DEF Taken
  <2>3. /\ req[r].kind = "create" /\ req[r].wrote
        /\ req[r].pc \in {"applied", "failed", "undo"}
        /\ rels \subseteq req[r].change.undo.delete
        /\ req[r].change.undo.touch = {}
    BY <1>1, <2>1, <2>2 DEF Taken, Ready, ChangeOK
  <2>4. req[r].change # NoChange
    BY <1>3, <2>3 DEF NoChange, NoWrite
  <2>5. CASE Undo(r)
    <3>1. rels' = After(rels, req[r].change.undo)
      BY <2>5 DEF Undo, Sent, Written
    <3>2. QED
      BY <2>3, <3>1 DEF After
  <2>6. CASE CommitFails(r) \/ Rollback(r)
    <3>1. rels' = rels /\ \E p \in {"failed", "undo"} : req' = [req EXCEPT ![r].pc = p]
      BY <2>6 DEF CommitFails, Rollback
    <3>2. /\ SamePlan(r) /\ req'[r].pc \in {"failed", "undo"}
          /\ req'[r].change = req[r].change
      BY <3>1, PcOnly
    <3>3. Taken(r)'
      BY <2>3, <3>1, <3>2 DEF Taken, SamePlan
    <3>4. QED
      BY <3>3
  <2>7. ~Commit(r)
    <3>1. Commit(r) => db' = req[r].new
      BY <2>3 DEF Commit, CommittedRow
    <3>2. req[r].new \in Project
      BY <1>1, <2>3 DEF Shape, ShapeOf
    <3>3. QED
      BY <3>1, <3>2, RowKinds
  <2>8. ~Die(r) /\ ~UndoFails(r) /\ ~WriteMembers(r)
    BY <2>3, <2>4 DEF Die, UndoFails, WriteMembers
  <2>9. ~Starts(r)
    BY <2>3 DEF Starts, Create, Look, Patch, PatchNothing, Delete
  <2>10. ~(\E c : Computes(r, c)) /\ ~(\E w : Asks(r, w))
    BY <2>3 DEF Computes, Asks, MembersRead
  <2>11. Moves(r) => CommitFails(r) \/ Rollback(r)
    BY <2>3, <2>4 DEF Moves
  <2>12. QED
    BY <1>1, <2>5, <2>6, <2>7, <2>8, <2>9, <2>10, <2>11, Course DEF Ends
<1>4. QED
  BY <1>2, <1>3

LEMMA HarmlessStep ==
  ASSUME TypeOK, LockInv, AuthzInv, NEW r \in Requests, Step(r), ~clash',
         ~db.exists, NEW s \in Requests, Harmless(s), LeftAlone(s)
  PROVE  Harmless(s)'
<1>1. Shape /\ OneLock /\ ~clash /\ Ready(r) /\ ~CommitLost(r)
  BY ClashGrows DEF LockInv, AuthzInv, CommitLost
<1>2. CASE s # r
  <2>1. req'[s] = req[s]
    BY <1>2, OthersKeep
  <2>2. \E w : Wrote(r, w)
    BY <1>1, Effects
  <2>3. stale[s] \subseteq stale'[s]
    BY <1>2, <2>2 DEF Wrote
  <2>4. QED
    BY <2>1, <2>3 DEF Harmless
<1>3. CASE s = r
  <2>1. ~(\E w : Asks(r, w))
    BY DEF Asks, MembersRead
  <2>2. CASE Rollback(r)
    <3>1. req[r].pc = "failed" /\ req' = [req EXCEPT ![r].pc = "undo"]
      BY <2>2 DEF Rollback
    <3>2. req'[r].pc = "undo" /\ req'[r].change = req[r].change
      BY <3>1, PcOnly
    <3>3. req[r].change.undo.touch = {}
      <4>1. CASE req[r].wrote
        <5>1. req[r].kind = "create"
          BY <3>1, <4>1, NoRow DEF Locks
        <5>2. QED
          BY <1>1, <5>1 DEF Ready, ChangeOK
      <4>2. CASE ~req[r].wrote
        BY <1>3, <3>1, <4>2 DEF LeftAlone, Atoms
      <4>3. QED
        BY <4>1, <4>2
    <3>4. QED
      BY <1>3, <3>2, <3>3 DEF Harmless
  <2>3. CASE ~Rollback(r)
    <3>1. req'[r].pc # "undo" /\ req'[r].pc # "members"
      BY <1>1, <2>1, <2>3, Course DEF Starts, Computes, Moves, Ends
    <3>2. QED
      BY <1>3, <3>1 DEF Harmless
  <2>4. QED
    BY <2>2, <2>3
<1>4. QED
  BY <1>2, <1>3

(* The repair task removes relationships of a project that does not exist, *)
(* and tells everybody what it has written.                                *)
LEMMA AbsenceRepair ==
  ASSUME TypeOK, LockInv, AbsenceInv, ~clash', RepairWrite
  PROVE  AbsenceInv'
<1> DEFINE w == repair.write
<1>1. /\ ~clash /\ w = Correction(repair.found, db)
      /\ req' = req /\ db' = db /\ rels' = After(rels, w)
  BY DEF RepairWrite, Written
<1>2. \A s \in Requests : /\ stale[s] \subseteq stale'[s]
                          /\ InFlight(s) => Atoms(w) \subseteq stale'[s]
  BY DEF RepairWrite, Written
<1>3. ~db.exists => rels' \subseteq rels
  BY <1>1 DEF Correction, After
<1> HIDE DEF w
<1>4. ASSUME NEW s \in Requests, DeletionReady(s) PROVE DeletionReady(s)'
  <2>1. SUFFICES ASSUME req[s].kind = "delete", req[s].wrote,
                        req[s].pc \in {"changed", "applied"}
                 PROVE  DeletionReady(s)'
    BY <1>1 DEF DeletionReady
  <2>2. stale[s] # {} \/ Atoms(w) # {} => stale'[s] # {}
    BY <1>2, <2>1 DEF InFlight
  <2>3. stale'[s] = {} => stale[s] = {} /\ rels' = rels
    <3>1. Atoms(w) = {} => rels' = rels
      BY <1>1, NoAtoms
    <3>2. QED
      BY <2>2, <3>1
  <2>4. \A m \in Requests : stale[m] \cap MemberRels # {}
                               => stale'[m] \cap MemberRels # {}
    BY <1>2
  <2>5. QED
    BY <1>1, <1>4, <2>1, <2>3, <2>4 DEF DeletionReady
<1>5. ASSUME NEW s \in Requests, Harmless(s) PROVE Harmless(s)'
  BY <1>1, <1>2, <1>5 DEF Harmless
<1>6. ASSUME ~db.exists, NEW s \in Requests, Taken(s) PROVE Taken(s)'
  BY <1>1, <1>3, <1>6 DEF Taken
<1>7. QED
  BY <1>1, <1>3, <1>4, <1>5, <1>6 DEF AbsenceInv

LEMMA AbsenceFrame ==
  ASSUME AbsenceInv, UNCHANGED <<db, rels, req, stale, clash>>
  PROVE  AbsenceInv'
BY DEF AbsenceInv, DeletionReady, Taken, Harmless

LEMMA AbsenceStep ==
  ASSUME TypeOK, LockInv, AuthzInv, PlanInv, VisibilityInv, AbsenceInv, [Next]_vars
  PROVE  AbsenceInv'
<1>1. SUFFICES ASSUME ~clash' PROVE AbsenceInv'
  BY DEF AbsenceInv
<1>2. ASSUME NEW r \in Requests, Step(r) PROVE AbsenceInv'
  <2>1. ~clash
    BY <1>1, <1>2, ClashGrows
  <2>2. \A s \in Requests : LeftAlone(s) /\ DeletionReady(s)
    BY <2>1 DEF VisibilityInv, AbsenceInv
  <2>3. \A s \in Requests : DeletionReady(s)'
    BY <1>1, <1>2, <2>2, DeletionFrame, DeletionMover
  <2>4. CASE db'.exists
    BY <2>3, <2>4 DEF AbsenceInv
  <2>5. CASE ~db'.exists /\ db.exists
    BY <1>1, <1>2, <2>2, <2>3, <2>5, Vanishes DEF AbsenceInv
  <2>6. CASE ~db'.exists /\ ~db.exists
    <3>1. /\ rels = {} \/ \E s \in Requests : Taken(s)
          /\ \A s \in Requests : Harmless(s)
      BY <2>1, <2>6 DEF AbsenceInv
    <3>2. rels' = {} \/ \E s \in Requests : Taken(s)'
      BY <1>1, <1>2, <2>6, <3>1, StaysTaken
    <3>3. \A s \in Requests : Harmless(s)'
      BY <1>1, <1>2, <2>2, <2>6, <3>1, HarmlessStep
    <3>4. QED
      BY <2>3, <3>2, <3>3 DEF AbsenceInv
  <2>7. QED
    BY <2>4, <2>5, <2>6
<1>3. CASE RepairFind \/ RepairLook
  <2>1. UNCHANGED <<db, rels, req, stale, clash>>
    BY <1>3 DEF RepairFind, RepairLook
  <2>2. QED
    BY <2>1, AbsenceFrame
<1>4. CASE RepairWrite
  BY <1>1, <1>4, AbsenceRepair
<1>5. CASE UNCHANGED vars
  BY <1>5, AbsenceFrame DEF vars
<1>6. QED
  BY <1>2, <1>3, <1>4, <1>5 DEF Next, RepairStep

LEMMA InitAbsenceInv == Init => AbsenceInv
<1> SUFFICES ASSUME Init PROVE AbsenceInv
  OBVIOUS
<1>1. \A r \in Requests : req[r].kind = "none" /\ req[r].pc = "new"
  BY DEF Init, NewRequest
<1>2. ~db.exists => rels = {}
  BY RowKinds DEF Init
<1>3. QED
  BY <1>1, <1>2 DEF AbsenceInv, DeletionReady, Harmless

-----------------------------------------------------------------------------
(* The invariant and what follows.                                         *)

QuietInv == PlanInv /\ VisibilityInv /\ AbsenceInv

(* Until two writers disturb each other or one of them vanishes, the one   *)
(* request that has changed the visibility is to commit or to undo it, and *)
(* whatever is left of a project that does not exist is to be removed by   *)
(* the inverse of its creation.                                            *)
THEOREM QuietInvariant == Spec => []QuietInv
<1>1. Init => TypeOK /\ LockInv /\ AuthzInv /\ QuietInv
  BY InitLockInv, InitAuthzInv, InitPlanInv, InitVisibilityInv, InitAbsenceInv
     DEF QuietInv
<1>2. TypeOK /\ LockInv /\ AuthzInv /\ QuietInv /\ [Next]_vars
        => (TypeOK /\ LockInv /\ AuthzInv /\ QuietInv)'
  <2> SUFFICES ASSUME TypeOK, LockInv, AuthzInv, QuietInv, [Next]_vars
               PROVE  (TypeOK /\ LockInv /\ AuthzInv /\ QuietInv)'
    OBVIOUS
  <2>1. TypeOK' /\ LockInv' /\ AuthzInv'
    BY TypeStep, LockStep, AuthzStep DEF LockInv
  <2>2. PlanInv'
    BY PlanStep DEF QuietInv
  <2>3. VisibilityInv'
    BY <2>1, VisibilityStep DEF QuietInv
  <2>4. AbsenceInv'
    BY AbsenceStep DEF QuietInv
  <2>5. QED
    BY <2>1, <2>2, <2>3, <2>4 DEF QuietInv
<1>3. QED
  BY <1>1, <1>2, PTL DEF Spec

(* When nothing is under way SpiceDB shows the project to everybody if and *)
(* only if its row is public: update_project and its inverse leave the two *)
(* databases in agreement.                                                 *)
THEOREM VisibilityKept == Spec => []VisibilityAgrees
<1>1. QuietInv => VisibilityAgrees
  <2>1. \A r \in Requests : Pending(r) /\ req[r].pc # "changed" => InFlight(r)
    BY DEF Pending, InFlight
  <2>2. QED
    BY <2>1 DEF QuietInv, VisibilityInv, VisibilityAgrees, Quiet, Shown
<1>2. QED
  BY <1>1, QuietInvariant, PTL

(* Neither a failed creation nor a deletion leaves a relationship of the   *)
(* project in SpiceDB.                                                     *)
THEOREM NothingStays == Spec => []NothingLeft
<1>1. QuietInv => NothingLeft
  <2>1. \A r \in Requests : Taken(r) => InFlight(r)
    BY DEF Taken, InFlight
  <2>2. QED
    BY <2>1 DEF QuietInv, AbsenceInv, NothingLeft, Quiet
<1>2. QED
  BY <1>1, QuietInvariant, PTL

=============================================================================
