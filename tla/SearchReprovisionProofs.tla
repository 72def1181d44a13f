----------------------- MODULE SearchReprovisionProofs -----------------------
(***************************************************************************)
(* Proofs about SearchReprovision for any sets of entities, workers and    *)
(* runs and any values of the bounds.  A run truncates the staging table   *)
(* under the workers, so ClaimExclusive of SearchSync does not hold here;  *)
(* what replaces it is that ids are not used again (IdsOK): a claim from   *)
(* before the truncation never matches a row of after it.                  *)
(***************************************************************************)
EXTENDS SearchReprovision, SearchSyncProofs

(* The ids of rows and of copies of rows have been given out.              *)
IdsOK ==
    \A e \in Entities :
       /\ row[e].id < nextId
       /\ \A w \in Workers : batch[w][e].id < nextId

(* At most one run is under way, and never without the lock.               *)
OneRun == \A r, s \in Runs : Active(r) /\ Active(s) => r = s

LockOK ==
    kills = 0 => OneRun /\ \A r \in Runs : Active(r) => lock

(* Only a run that copies has read something, and it is still to insert it.*)
SnapOK ==
    \A r \in Runs, e \in Entities :
       snap[r][e] # NoDoc => run[r] = "copy" /\ e \in todo[r]

NoRunAt(p) == \A r \in Runs : run[r] # p

(* Whatever is under way for e is its committed document: workers have     *)
(* copied nothing else, and its row, which is not failed, says nothing else.*)
CopiesCommitted(e) ==
    /\ \A w \in Workers : e \in Claimed(w) => batch[w][e].doc = db[e]
    /\ row[e].id # 0 =>
          /\ row[e].doc = db[e]
          /\ db[e].kind = "live"
          /\ row[e].state \in {"open", "locked"}

(* A worker that will mark the row of e has sent it, or is about to, and   *)
(* the index has no document of an entity that is not there.               *)
HolderHasSent(e) ==
    /\ db[e].kind # "live" => index[e].kind # "live"
    /\ \A w \in Workers :
          batch[w][e].id # 0 /\ batch[w][e].id = row[e].id =>
             /\ pc[w] \in {"upsert", "processed"}
             /\ pc[w] = "processed" => index[e] = db[e]

Passed(e) == \A r \in Runs : run[r] = "copy" => e \notin todo[r]

(* What a quiet entity can rely on, phase by phase of the run.             *)
QuietOK(e) ==
    /\ OneRun
    /\ NoRunAt("clear") => CopiesCommitted(e)
    /\ NoRunAt("wipe") \/ row[e].id = 0
    /\ NoRunAt("clear") /\ NoRunAt("wipe") =>
          HolderHasSent(e) /\ (Passed(e) => Rebuilt(e))
    /\ \A r \in Runs :
          snap[r][e] # NoDoc => snap[r][e] = db[e] /\ db[e].kind = "live"

QuietInv == \A e \in Entities : quiet[e] => QuietOK(e)

RInv ==
    /\ RTypeOK
    /\ RowsOK
    /\ IdsOK
    /\ LockOK
    /\ SnapOK
    /\ QuietInv

-----------------------------------------------------------------------------

LEMMA InitRInv == RInit => RInv
<1> SUFFICES ASSUME RInit PROVE RInv
  OBVIOUS
<1>1. TypeOK /\ RowsOK
  BY InitIInv DEF RInit, IInv
<1>2. RTypeOK
  BY <1>1, SearchReprovisionAssumption DEF RInit, RTypeOK, Doc, NoDoc
<1>3. IdsOK
  BY DEF RInit, Init, IdsOK, NoRow, NoClaims
<1>4. LockOK /\ SnapOK
  BY DEF RInit, LockOK, OneRun, Active, SnapOK
<1>5. QuietInv
  BY DEF RInit, QuietInv
<1>6. QED
  BY <1>1, <1>2, <1>3, <1>4, <1>5 DEF RInv

-----------------------------------------------------------------------------
(* Types, rows and ids.                                                    *)

(* An insertion by a run is an upsert, or nothing.                         *)
LEMMA InsertRow ==
  ASSUME RTypeOK, NEW r \in Runs, NEW e \in Entities, InsertEntity(r, e)
  PROVE  \/ row[e].id = 0 /\ Upserted(e, snap[r][e])
         \/ row[e].id # 0 /\ UNCHANGED <<row, nextId>>
BY DEF InsertEntity

LEMMA RunTypes ==
  ASSUME RTypeOK, NEW r \in Runs, RunStep(r)
  PROVE  RTypeOK'
<1> USE DEF RTypeOK, requestVars, syncVars, vars
<1>1. CASE Start(r)
  <2>1. TypeOK'
    BY <1>1 DEF Start, TypeOK
  <2>2. quiet' \in [Entities -> BOOLEAN]
    BY <1>1 DEF Start
  <2>3. QED
    BY <1>1, <2>1, <2>2 DEF Start
<1>2. CASE ClearAll(r)
  <2>1. TypeOK'
    BY <1>2 DEF ClearAll, TypeOK, NoRow, NoDoc, Row, Doc
  <2>2. quiet' \in [Entities -> BOOLEAN]
    BY <1>2 DEF ClearAll
  <2>3. QED
    BY <1>2, <2>1, <2>2 DEF ClearAll
<1>3. CASE Wipe(r)
  BY <1>3 DEF Wipe, TypeOK, NoDoc, Doc
<1>4. CASE WipeRefused(r)
  BY <1>4 DEF WipeRefused, TypeOK
<1>5. ASSUME NEW e \in Entities, ReadEntity(r, e) PROVE RTypeOK'
  <2>1. db[e] \in Doc
    BY DEF TypeOK
  <2>2. snap' \in [Runs -> [Entities -> Doc]] /\ todo' \in [Runs -> SUBSET Entities]
    <3>1. CASE db[e].kind = "live"
      <4>1. snap' = [snap EXCEPT ![r][e] = db[e]] /\ todo' = todo
        BY <1>5, <3>1 DEF ReadEntity
      <4>2. [snap[r] EXCEPT ![e] = db[e]] \in [Entities -> Doc]
        BY <2>1
      <4>3. QED
        BY <4>1, <4>2
    <3>2. CASE db[e].kind # "live"
      BY <1>5, <3>2 DEF ReadEntity
    <3>3. QED
      BY <3>1, <3>2
  <2>3. QED
    BY <1>5, <2>2 DEF ReadEntity, TypeOK
<1>6. ASSUME NEW e \in Entities, InsertEntity(r, e) PROVE RTypeOK'
  <2>1. row' \in [Entities -> Row] /\ nextId' \in Nat \ {0}
    <3>1. CASE row[e].id = 0
      <4>1. Upserted(e, snap[r][e]) /\ snap[r][e] \in Doc
        BY <1>6, <3>1 DEF InsertEntity
      <4>2. QED
        BY <4>1, UpsertedType
    <3>2. CASE row[e].id # 0
      BY <1>6, <3>2 DEF InsertEntity, TypeOK
    <3>3. QED
      BY <3>1, <3>2
  <2>2. snap' \in [Runs -> [Entities -> Doc]] /\ todo' \in [Runs -> SUBSET Entities]
    BY <1>6 DEF InsertEntity, NoDoc, Doc
  <2>3. QED
    BY <1>6, <2>1, <2>2 DEF InsertEntity, TypeOK
<1>7. ASSUME NEW S \in SUBSET todo[r], SkipEntities(r, S) PROVE RTypeOK'
  <2>1. snap' \in [Runs -> [Entities -> Doc]] /\ todo' \in [Runs -> SUBSET Entities]
    BY <1>7 DEF SkipEntities, NoDoc, Doc
  <2>2. quiet' \in [Entities -> BOOLEAN]
    BY <1>7 DEF SkipEntities
  <2>3. QED
    BY <1>7, <2>1, <2>2 DEF SkipEntities, TypeOK
<1>8. CASE Copied(r)
  BY <1>8 DEF Copied, TypeOK
<1>9. CASE RunFails(r)
  BY <1>9 DEF RunFails, TypeOK
<1>10. CASE Stop(r)
  BY <1>10 DEF Stop, TypeOK
<1>11. CASE RunCrashes(r)
  <2>1. [e \in Entities |-> NoDoc] \in [Entities -> Doc]
    BY DEF NoDoc, Doc
  <2>2. QED
    BY <1>11, <2>1 DEF RunCrashes, TypeOK
<1>12. QED
  BY <1>1, <1>2, <1>3, <1>4, <1>5, <1>6, <1>7, <1>8, <1>9, <1>10, <1>11
     DEF RunStep

(* A step is one of a request, of a worker, of a run, or the removal of    *)
(* the lock; the first two are steps of SearchSync.                        *)
LEMMA RTypeStep == RTypeOK /\ [RNext]_rvars => RTypeOK'
<1> SUFFICES ASSUME RTypeOK, [RNext]_rvars PROVE RTypeOK'
  OBVIOUS
<1>1. ASSUME [Next]_vars, UNCHANGED reprovisionVars,
             quiet' \in [Entities -> BOOLEAN]
      PROVE  RTypeOK'
  BY <1>1, TypeStep DEF RTypeOK, reprovisionVars
<1>2. ASSUME NEW e \in Entities, Request(e), UNCHANGED reprovisionVars,
             quiet' = [quiet EXCEPT ![e] = FALSE]
      PROVE  RTypeOK'
  BY <1>1, <1>2 DEF Next, RTypeOK
<1>3. ASSUME NEW w \in Workers, Round(w), UNCHANGED <<reprovisionVars, quiet>>
      PROVE  RTypeOK'
  BY <1>1, <1>3 DEF Next, RTypeOK
<1>4. ASSUME NEW w \in Workers, Fault(w), UNCHANGED reprovisionVars,
             quiet' = [e \in Entities |-> FALSE]
      PROVE  RTypeOK'
  BY <1>1, <1>4 DEF Next
<1>5. CASE KillLock
  <2>1. [Next]_vars
    BY <1>5 DEF KillLock, syncVars
  <2>2. TypeOK'
    BY <2>1, TypeStep DEF RTypeOK
  <2>3. kills' = kills + 1 /\ lock' = FALSE /\ UNCHANGED <<run, todo, snap, quiet>>
    BY <1>5 DEF KillLock
  <2>4. kills' \in Nat
    BY <2>3 DEF RTypeOK
  <2>5. lock' \in BOOLEAN
    BY <2>3
  <2>6. QED
    BY <2>2, <2>3, <2>4, <2>5 DEF RTypeOK
<1>6. CASE UNCHANGED rvars
  BY <1>1, <1>6 DEF rvars, RTypeOK
<1>7. QED
  BY <1>2, <1>3, <1>4, <1>5, <1>6, RunTypes DEF RNext

(* The type invariant of the composition.                                  *)
THEOREM ReprovisionTypeCorrect == RSpec => []RTypeOK
<1>1. RInit => RTypeOK
  BY InitRInv DEF RInv
<1>2. QED
  BY <1>1, RTypeStep, PTL DEF RSpec

-----------------------------------------------------------------------------

LEMMA UpsertedIds ==
  ASSUME TypeOK, NEW e \in Entities, NEW d \in Doc, Upserted(e, d)
  PROVE  /\ nextId' >= nextId
         /\ row[e].id = 0 => row'[e].id = nextId
         /\ IdsOK => \A f \in Entities : row'[f].id < nextId'
<1>1. nextId \in Nat
  BY DEF TypeOK
<1>2. CASE row[e].id = 0
  <2>1. /\ row' = [row EXCEPT ![e] = [id |-> nextId, doc |-> d, state |-> "open"]]
        /\ nextId' = nextId + 1
    BY <1>2 DEF Upserted
  <2>2. QED
    BY <1>1, <2>1 DEF TypeOK, Row, IdsOK
<1>3. CASE row[e].id # 0
  <2>1. /\ nextId' = nextId
        /\ \A f \in Entities : row'[f].id = row[f].id
    BY <1>3, UpsertedRow DEF Upserted
  <2>2. QED
    BY <1>1, <1>3, <2>1 DEF IdsOK
<1>4. QED
  BY <1>2, <1>3

(* No id is given out twice, and a run neither makes rows without a state. *)
LEMMA IdsStep == RTypeOK /\ RowsOK /\ IdsOK /\ [RNext]_rvars => IdsOK' /\ RowsOK'
<1> SUFFICES ASSUME RTypeOK, RowsOK, IdsOK, [RNext]_rvars
             PROVE  IdsOK' /\ RowsOK'
  OBVIOUS
<1> USE DEF requestVars, syncVars
<1>1. TypeOK /\ nextId \in Nat \ {0}
  BY DEF RTypeOK, TypeOK
<1>2. ASSUME UNCHANGED <<row, nextId, batch>> PROVE IdsOK' /\ RowsOK'
  BY <1>2 DEF IdsOK, RowsOK
<1>3. ASSUME NEW e \in Entities, NEW d \in Doc, Upserted(e, d), UNCHANGED batch
      PROVE  IdsOK'
  <2>1. nextId' >= nextId /\ \A f \in Entities : row'[f].id < nextId'
    BY <1>1, <1>3, UpsertedIds
  <2>2. nextId' \in Nat
    BY <1>1, <1>3, UpsertedType
  <2>3. QED
    BY <1>1, <1>3, <2>1, <2>2, IdTypes DEF IdsOK
<1>4. ASSUME NEW e \in Entities, Request(e) PROVE IdsOK' /\ RowsOK'
  <2>1. [kind |-> tx[e].kind, ver |-> next[e]] \in Doc /\ echo[e] \in Doc
    BY <1>1 DEF TypeOK, Doc, Tx
  <2>2. IdsOK'
    BY <1>2, <1>3, <1>4, <2>1
       DEF Request, Begin, Stage, Commit, Abort, Read, StageRead
  <2>3. RowsOK'
    BY <1>1, <1>4, RowsStep DEF Next
  <2>4. QED
    BY <2>2, <2>3
<1>5. ASSUME NEW w \in Workers, Round(w) \/ Fault(w) PROVE IdsOK' /\ RowsOK'
  <2>1. IdsOK'
    <3>1. WorkerIds
      BY <1>1, <1>5, WorkerKeepsIds
    <3>2. QED
      BY <1>1, <3>1, IdTypes DEF WorkerIds, IdsOK
  <2>2. RowsOK'
    BY <1>1, <1>5, RowsStep DEF Next
  <2>3. QED
    BY <2>1, <2>2
<1>6. ASSUME NEW r \in Runs, RunStep(r) PROVE IdsOK' /\ RowsOK'
  <2>1. CASE ClearAll(r)
    BY <1>1, <2>1 DEF ClearAll, IdsOK, RowsOK, NoRow
  <2>2. ASSUME NEW e \in Entities, InsertEntity(r, e) PROVE IdsOK' /\ RowsOK'
    <3>1. CASE row[e].id = 0
      <4>1. Upserted(e, snap[r][e]) /\ snap[r][e] \in Doc /\ UNCHANGED batch
        BY <2>2, <3>1 DEF InsertEntity, RTypeOK
      <4>2. IdsOK'
        BY <1>3, <4>1
      <4>3. RowsOK'
        <5>1. row' = [row EXCEPT ![e] = [id |-> nextId, doc |-> snap[r][e],
                                         state |-> "open"]]
          BY <3>1, <4>1 DEF Upserted
        <5>2. QED
          BY <1>1, <5>1 DEF RowsOK, TypeOK
      <4>4. QED
        BY <4>2, <4>3
    <3>2. CASE row[e].id # 0
      BY <1>2, <2>2, <3>2 DEF InsertEntity
    <3>3. QED
      BY <3>1, <3>2
  <2>3. CASE UNCHANGED <<row, nextId, batch>>
    BY <1>2, <2>3
  <2>4. QED
    BY <1>6, <2>1, <2>2, <2>3
       DEF RunStep, Start, Wipe, WipeRefused, ReadEntity, SkipEntities, Copied,
           RunFails, Stop, RunCrashes, vars
<1>7. CASE KillLock \/ UNCHANGED rvars
  BY <1>2, <1>7 DEF KillLock, rvars, vars
<1>8. QED
  BY <1>4, <1>5, <1>6, <1>7 DEF RNext

-----------------------------------------------------------------------------
(* The lock.                                                               *)

(* Only Start takes the lock, when it is free; a run that fails or dies    *)
(* leaves it, and the one that drops it ends by doing so.                  *)
LEMMA LockStep == RTypeOK /\ LockOK /\ [RNext]_rvars => LockOK'
<1> SUFFICES ASSUME RTypeOK, LockOK, [RNext]_rvars PROVE LockOK'
  OBVIOUS
<1> USE DEF LockOK, OneRun, Active, RTypeOK
<1>1. ASSUME UNCHANGED <<lock, run, kills>> PROVE LockOK'
  BY <1>1
<1>2. ASSUME NEW r \in Runs, RunStep(r) PROVE LockOK'
  <2>1. CASE Start(r)
    BY <2>1 DEF Start
  <2>2. ASSUME NEW p \in {"clear", "wipe", "copy", "stop", "done", "dead"},
               Active(r), run' = [run EXCEPT ![r] = p], UNCHANGED <<lock, kills>>
        PROVE  LockOK'
    BY <2>2
  <2>3. CASE Stop(r)
    BY <2>3 DEF Stop
  <2>4. CASE ClearAll(r) \/ Wipe(r) \/ WipeRefused(r) \/ Copied(r) \/ RunFails(r)
             \/ RunCrashes(r)
    BY <2>2, <2>4 DEF ClearAll, Wipe, WipeRefused, Copied, RunFails, RunCrashes
  <2>5. ASSUME NEW e \in Entities, ReadEntity(r, e) \/ InsertEntity(r, e)
        PROVE  LockOK'
    BY <1>1, <2>5 DEF ReadEntity, InsertEntity
  <2>6. ASSUME NEW S \in SUBSET todo[r], SkipEntities(r, S) PROVE LockOK'
    BY <1>1, <2>6 DEF SkipEntities
  <2>7. QED
    BY <1>2, <2>1, <2>3, <2>4, <2>5, <2>6 DEF RunStep
<1>3. CASE KillLock
  BY <1>3 DEF KillLock
<1>4. QED
  BY <1>1, <1>2, <1>3 DEF RNext, rvars, reprovisionVars

(* One run at a time, for any number of runs that start, fail, crash and   *)
(* stop, as long as nobody removes the lock.                               *)
THEOREM OneRunAtATime == RSpec => []SingleUnlessKilled
<1>1. RInit => RTypeOK /\ LockOK
  BY InitRInv DEF RInv
<1>2. RTypeOK /\ LockOK /\ [RNext]_rvars => RTypeOK' /\ LockOK'
  BY RTypeStep, LockStep
<1>3. LockOK => SingleUnlessKilled
  BY DEF LockOK, OneRun, SingleUnlessKilled
<1>4. QED
  BY <1>1, <1>2, <1>3, PTL DEF RSpec

-----------------------------------------------------------------------------
(* What runs have read.                                                    *)

LEMMA SnapStep == RTypeOK /\ SnapOK /\ [RNext]_rvars => SnapOK'
<1> SUFFICES ASSUME RTypeOK, SnapOK, [RNext]_rvars PROVE SnapOK'
  OBVIOUS
<1> USE DEF SnapOK, RTypeOK
<1>1. ASSUME UNCHANGED <<run, todo, snap>> PROVE SnapOK'
  BY <1>1
<1>2. ASSUME NEW r \in Runs, RunStep(r) PROVE SnapOK'
  <2>1. ASSUME run[r] # "copy", NEW p, run' = [run EXCEPT ![r] = p],
               UNCHANGED snap, \A s \in Runs \ {r} : todo'[s] = todo[s]
        PROVE  SnapOK'
    BY <2>1
  <2>2. CASE Start(r) \/ ClearAll(r) \/ Wipe(r) \/ WipeRefused(r) \/ RunFails(r)
             \/ Stop(r)
    BY <2>1, <2>2 DEF Start, ClearAll, Wipe, WipeRefused, RunFails, Stop
  <2>3. CASE RunCrashes(r)
    BY <2>3 DEF RunCrashes
  <2>4. CASE Copied(r)
    <3>1. \A e \in Entities : snap[r][e] = NoDoc
      BY <2>4 DEF Copied
    <3>2. QED
      BY <2>4, <3>1 DEF Copied
  <2>5. ASSUME NEW e \in Entities, ReadEntity(r, e) PROVE SnapOK'
    <3>1. CASE db[e].kind = "live"
      <4>1. snap' = [snap EXCEPT ![r][e] = db[e]] /\ UNCHANGED <<todo, run>>
        BY <2>5, <3>1 DEF ReadEntity
      <4>2. run[r] = "copy" /\ e \in todo[r]
        BY <2>5 DEF ReadEntity
      <4>3. QED
        BY <4>1, <4>2
    <3>2. CASE db[e].kind # "live"
      BY <2>5, <3>2 DEF ReadEntity
    <3>3. QED
      BY <3>1, <3>2
  <2>6. ASSUME NEW e \in Entities, InsertEntity(r, e) PROVE SnapOK'
    BY <2>6 DEF InsertEntity
  <2>7. ASSUME NEW S \in SUBSET todo[r], SkipEntities(r, S) PROVE SnapOK'
    BY <2>7 DEF SkipEntities
  <2>8. QED
    BY <1>2, <2>2, <2>3, <2>4, <2>5, <2>6, <2>7 DEF RunStep
<1>3. QED
  BY <1>1, <1>2 DEF RNext, KillLock, rvars, reprovisionVars

-----------------------------------------------------------------------------
(* Quiet entities: steps of others.                                        *)

(* A request for another entity leaves e as it is.                         *)
LEMMA RequestElsewhere ==
  ASSUME TypeOK, NEW e \in Entities, NEW f \in Entities \ {e}, Request(f)
  PROVE  /\ UNCHANGED <<index, pc, batch>>
         /\ db'[e] = db[e] /\ row'[e] = row[e]
<1>1. [kind |-> tx[f].kind, ver |-> next[f]] \in Doc /\ echo[f] \in Doc
  BY DEF TypeOK, Doc, Tx
<1>2. ASSUME NEW d \in Doc, Upserted(f, d) PROVE row'[e] = row[e]
  BY <1>2, UpsertedRow
<1>3. CASE Stage(f) \/ StageRead(f)
  BY <1>1, <1>2, <1>3 DEF Stage, StageRead
<1>4. CASE Commit(f)
  BY <1>4 DEF Commit, TypeOK
<1>5. QED
  BY <1>3, <1>4 DEF Request, Begin, Abort, Read

(* What QuietOK(e) says of the pipeline, if neither runs nor e change.     *)
LEMMA QuietFrame ==
  ASSUME NEW e \in Entities, QuietOK(e),
         UNCHANGED <<index, pc, batch, run, todo, snap>>,
         db'[e] = db[e], row'[e] = row[e]
  PROVE  QuietOK(e)'
BY DEF QuietOK, OneRun, Active, NoRunAt, CopiesCommitted, HolderHasSent,
       Passed, Rebuilt, Claimed

(* What a round of a worker, without a fault, does to e: its row and its   *)
(* document in the index, and the copies of the workers.                   *)
Holds(w, e) == batch[w][e].id # 0 /\ batch[w][e].id = row[e].id

Selected(w, e) ==
    /\ pc[w] = "idle"
    /\ index'[e] = index[e]
    /\ pc'[w] = "upsert"
    /\ \/ /\ row[e].id # 0
          /\ row[e].state = "open"
          /\ row'[e] = [row[e] EXCEPT !.state = "locked"]
          /\ batch'[w][e] = row[e]
       \/ row'[e] = row[e] /\ batch'[w][e].id = 0

Sent(w, e) ==
    /\ pc[w] = "upsert"
    /\ pc'[w] = "processed"
    /\ row'[e] = row[e] /\ batch'[w][e] = batch[w][e]
    /\ index'[e] = IF e \in Claimed(w) THEN batch[w][e].doc ELSE index[e]

Marked(w, e) ==
    /\ pc[w] \in {"processed", "reset", "failed"}
    /\ index'[e] = index[e]
    /\ batch'[w][e].id = 0
    /\ \/ row'[e] = row[e]
       \/ Holds(w, e) /\ pc[w] = "processed" /\ row'[e] = NoRow
       \/ Holds(w, e) /\ pc[w] \in {"reset", "failed"}

Purged(w, e) ==
    /\ pc[w] = "purge"
    /\ row'[e] = row[e] /\ batch'[w][e] = batch[w][e]
    /\ pc'[w] = "idle"
    /\ index'[e] = IF index[e].kind = "deleted"
                   THEN [index[e] EXCEPT !.kind = "none"] ELSE index[e]

LEMMA RoundAt ==
  ASSUME TypeOK, RowsOK, NEW w \in Workers, Round(w), NEW e \in Entities
  PROVE  /\ UNCHANGED db
         /\ \A v \in Workers \ {w} : batch'[v] = batch[v] /\ pc'[v] = pc[v]
         /\ Selected(w, e) \/ Sent(w, e) \/ Marked(w, e) \/ Purged(w, e)
<1> USE DEF TypeOK, requestVars
<1>1. CASE SelectNext(w)
  <2>1. PICK C \in SUBSET Open :
           /\ Locked(C)
           /\ batch' = [batch EXCEPT ![w] =
                          [f \in Entities |-> IF f \in C THEN row[f] ELSE NoRow]]
    BY <1>1 DEF SelectNext
  <2>2. pc[w] = "idle" /\ pc' = [pc EXCEPT ![w] = "upsert"] /\ UNCHANGED <<db, index>>
    BY <1>1 DEF SelectNext
  <2>3. row'[e] = IF e \in C THEN [row[e] EXCEPT !.state = "locked"] ELSE row[e]
    BY <2>1 DEF Locked
  <2>4. batch'[w][e] = IF e \in C THEN row[e] ELSE NoRow
    BY <2>1
  <2>5. e \in C => row[e].state = "open" /\ row[e].id # 0
    BY <2>1 DEF Open, RowsOK
  <2>6. Selected(w, e)
    BY <2>2, <2>3, <2>4, <2>5 DEF Selected, NoRow
  <2>7. QED
    BY <2>1, <2>2, <2>6
<1>2. CASE SolrUpsert(w)
  BY <1>2 DEF SolrUpsert, Indexed, Sent
<1>3. ASSUME Released(w)
      PROVE  batch'[w][e].id = 0 /\ \A v \in Workers \ {w} : batch'[v] = batch[v]
  BY <1>3 DEF Released, NoClaims, NoRow
<1>4. CASE MarkProcessed(w)
  <2>1. Marked(w, e)
    BY <1>3, <1>4 DEF MarkProcessed, Marked, Marks, Holds
  <2>2. QED
    BY <1>3, <1>4, <2>1 DEF MarkProcessed
<1>5. CASE MarkReset(w)
  <2>1. Marked(w, e)
    BY <1>3, <1>5 DEF MarkReset, MarkRows, Marked, Marks, Holds
  <2>2. QED
    BY <1>3, <1>5, <2>1 DEF MarkReset
<1>6. CASE MarkFailed(w)
  <2>1. Marked(w, e)
    BY <1>3, <1>6 DEF MarkFailed, MarkRows, Marked, Marks, Holds
  <2>2. QED
    BY <1>3, <1>6, <2>1 DEF MarkFailed
<1>7. CASE Purge(w)
  BY <1>7 DEF Purge, Purged
<1>8. QED
  BY <1>1, <1>2, <1>4, <1>5, <1>6, <1>7 DEF Round

(* The part of QuietOK(e) that is about the pipeline survives a round.     *)
LEMMA QuietRound ==
  ASSUME TypeOK, RowsOK, NEW w \in Workers, Round(w), UNCHANGED reprovisionVars,
         NEW e \in Entities, QuietOK(e)
  PROVE  QuietOK(e)'
<1> USE DEF reprovisionVars
<1>1. /\ UNCHANGED <<db, run, todo, snap>>
      /\ \A v \in Workers \ {w} : batch'[v] = batch[v] /\ pc'[v] = pc[v]
      /\ Selected(w, e) \/ Sent(w, e) \/ Marked(w, e) \/ Purged(w, e)
  BY RoundAt
<1>2. /\ row[e] \in Row /\ batch[w][e] \in Row
      /\ db[e] \in Doc /\ index[e] \in Doc
      /\ row[e].state = "none" <=> row[e].id = 0
  BY DEF TypeOK, RowsOK
<1>3. row[e].id = 0 => row'[e].id = 0
  BY <1>1, <1>2 DEF Selected, Sent, Marked, Purged, Holds
<1>4. CopiesCommitted(e) /\ HolderHasSent(e) /\ Marked(w, e) =>
         row'[e] \in {row[e], NoRow}
  BY <1>1 DEF Marked, Holds, HolderHasSent
<1>5. ASSUME CopiesCommitted(e), HolderHasSent(e) \/ row[e].id = 0
      PROVE  CopiesCommitted(e)'
  <2>1. row'[e].id # 0 =>
           /\ row'[e].doc = db[e]
           /\ db[e].kind = "live"
           /\ row'[e].state \in {"open", "locked"}
    BY <1>1, <1>2, <1>3, <1>4, <1>5
       DEF CopiesCommitted, Selected, Sent, Marked, Purged, NoRow, Row, Holds
  <2>2. ASSUME NEW v \in Workers, batch'[v][e].id # 0 PROVE batch'[v][e].doc = db[e]
    BY <1>1, <1>2, <1>5, <2>2
       DEF CopiesCommitted, Claimed, Selected, Sent, Marked, Purged
  <2>3. QED
    BY <1>1, <2>1, <2>2 DEF CopiesCommitted, Claimed
<1>6. ASSUME CopiesCommitted(e), HolderHasSent(e)
      PROVE  HolderHasSent(e)'
  <2>1. db[e].kind # "live" => index'[e].kind # "live"
    BY <1>1, <1>2, <1>6
       DEF CopiesCommitted, HolderHasSent, Claimed, Selected, Sent, Marked,
           Purged, Doc
  <2>2. ASSUME NEW v \in Workers, batch'[v][e].id # 0, batch'[v][e].id = row'[e].id
        PROVE  /\ pc'[v] \in {"upsert", "processed"}
               /\ pc'[v] = "processed" => index'[e] = db[e]
    <3>1. row[e].id # 0 /\ row[e].id = row'[e].id /\ db[e].kind = "live"
      BY <1>1, <1>2, <1>3, <1>4, <1>6, <2>2
         DEF CopiesCommitted, Selected, Sent, Marked, Purged, NoRow, Row
    <3>2. index'[e] = index[e] \/ index'[e] = db[e]
             \/ index[e].kind = "deleted"
      BY <1>1, <1>6 DEF CopiesCommitted, Claimed, Selected, Sent, Marked, Purged
    <3>3. CASE v # w
      <4>1. batch[v][e].id # 0 /\ batch[v][e].id = row[e].id /\ pc'[v] = pc[v]
        BY <1>1, <2>2, <3>1, <3>3
      <4>2. /\ pc[v] \in {"upsert", "processed"}
            /\ pc[v] = "processed" => index[e] = db[e]
        BY <1>6, <4>1 DEF HolderHasSent
      <4>3. QED
        BY <3>1, <3>2, <4>1, <4>2
    <3>4. CASE v = w
      BY <1>1, <1>6, <2>2, <3>1, <3>2, <3>4
         DEF HolderHasSent, CopiesCommitted, Claimed, Selected, Sent, Marked, Purged
    <3>5. QED
      BY <3>3, <3>4
  <2>3. QED
    BY <1>1, <2>1, <2>2 DEF HolderHasSent
<1>7. ASSUME CopiesCommitted(e), HolderHasSent(e), Rebuilt(e)
      PROVE  Rebuilt(e)'
  <2>1. CASE db[e].kind # "live"
    <3>1. row[e].id = 0 /\ row'[e].id = 0
      BY <1>3, <1>7, <2>1 DEF CopiesCommitted
    <3>2. RowsOK'
      BY RowsStep DEF Next
    <3>3. index'[e].kind # "live"
      BY <1>1, <1>6, <1>7, <2>1 DEF HolderHasSent
    <3>4. QED
      BY <1>1, <2>1, <3>1, <3>2, <3>3 DEF Rebuilt, RowsOK
  <2>2. CASE db[e].kind = "live"
    <3>1. CASE index[e] = db[e]
      BY <1>1, <1>2, <1>7, <2>2, <3>1
         DEF Rebuilt, CopiesCommitted, Claimed, Selected, Sent, Marked, Purged
    <3>2. CASE index[e] # db[e] /\ row[e].state \in {"open", "locked"} /\ row[e].doc = db[e]
      BY <1>1, <1>2, <1>7, <2>2, <3>2
         DEF Rebuilt, CopiesCommitted, HolderHasSent, Claimed, Selected, Sent,
             Marked, Purged, Holds, Row
    <3>3. QED
      BY <1>7, <2>2, <3>1, <3>2 DEF Rebuilt
  <2>3. QED
    BY <2>1, <2>2
<1>8. OneRun' /\ (NoRunAt("clear")' <=> NoRunAt("clear"))
      /\ (NoRunAt("wipe")' <=> NoRunAt("wipe")) /\ (Passed(e)' <=> Passed(e))
  BY <1>1 DEF QuietOK, OneRun, Active, NoRunAt, Passed
<1>9. QED
  BY <1>1, <1>3, <1>5, <1>6, <1>7, <1>8 DEF QuietOK

-----------------------------------------------------------------------------
(* Quiet entities: steps of runs.                                          *)

(* A run that starts alone is the only one, and has not cleared yet.       *)
LEMMA QuietStart ==
  ASSUME RTypeOK, SnapOK, NEW r \in Runs, Start(r), NEW e \in Entities, quiet'[e]
  PROVE  QuietOK(e)'
<1>1. \A s \in Runs : ~Active(s)
  BY DEF Start
<1>2. run' = [run EXCEPT ![r] = "clear"] /\ UNCHANGED <<todo, snap>>
  BY DEF Start
<1>3. OneRun'
  BY <1>1, <1>2 DEF OneRun, Active, RTypeOK
<1>4. run'[r] = "clear" /\ \A s \in Runs : run'[s] # "wipe"
  BY <1>1, <1>2 DEF Active, RTypeOK
<1>5. \A s \in Runs : snap'[s][e] = NoDoc
  BY <1>1, <1>2 DEF Active, SnapOK
<1>6. QED
  BY <1>3, <1>4, <1>5 DEF QuietOK, NoRunAt

(* The truncation leaves workers nothing but copies of what is committed.  *)
LEMMA QuietClear ==
  ASSUME RTypeOK, NEW r \in Runs, ClearAll(r), NEW e \in Entities, quiet'[e], QuietOK(e)
  PROVE  QuietOK(e)'
<1> USE DEF requestVars
<1>1. /\ run' = [run EXCEPT ![r] = "wipe"] /\ run[r] = "clear"
      /\ row' = [f \in Entities |-> NoRow]
      /\ UNCHANGED <<db, batch, todo, snap>>
  BY DEF ClearAll
<1>2. \A w \in Workers : e \in Claimed(w) => batch[w][e].doc = db[e]
  BY DEF ClearAll
<1>3. OneRun'
  BY <1>1 DEF QuietOK, OneRun, Active, RTypeOK
<1>4. row'[e].id = 0
  BY <1>1 DEF NoRow
<1>5. CopiesCommitted(e)'
  BY <1>1, <1>2, <1>4 DEF CopiesCommitted, Claimed
<1>6. ~NoRunAt("wipe")'
  BY <1>1 DEF NoRunAt, RTypeOK
<1>7. \A s \in Runs : snap'[s][e] # NoDoc => snap'[s][e] = db'[e] /\ db'[e].kind = "live"
  BY <1>1 DEF QuietOK
<1>8. QED
  BY <1>3, <1>4, <1>5, <1>6, <1>7 DEF QuietOK

(* After the wipe there is no row and no document, and e is still to come. *)
LEMMA QuietWipe ==
  ASSUME RTypeOK, NEW r \in Runs, Wipe(r), NEW e \in Entities, QuietOK(e)
  PROVE  QuietOK(e)'
<1> USE DEF requestVars
<1>1. /\ run' = [run EXCEPT ![r] = "copy"] /\ run[r] = "wipe"
      /\ index' = [f \in Entities |-> NoDoc]
      /\ todo' = [todo EXCEPT ![r] = Entities]
      /\ UNCHANGED <<db, row, pc, batch, snap>>
  BY DEF Wipe
<1>2. OneRun' /\ \A s \in Runs : run[s] # "clear"
  BY <1>1 DEF QuietOK, OneRun, Active, RTypeOK
<1>3. CopiesCommitted(e)
  BY <1>2 DEF QuietOK, NoRunAt
<1>4. CopiesCommitted(e)'
  BY <1>1, <1>3 DEF CopiesCommitted, Claimed
<1>5. row[e].id = 0
  BY <1>1 DEF QuietOK, NoRunAt
<1>6. HolderHasSent(e)'
  BY <1>1, <1>5 DEF HolderHasSent, NoDoc
<1>7. ~Passed(e)'
  BY <1>1 DEF Passed, RTypeOK
<1>8. \A s \in Runs : run'[s] # "wipe"
  BY <1>1 DEF QuietOK, OneRun, Active, RTypeOK
<1>9. QED
  BY <1>1, <1>2, <1>4, <1>6, <1>7, <1>8 DEF QuietOK, NoRunAt

(* While a run copies nobody clears or wipes.                              *)
LEMMA Copying ==
  ASSUME NEW r \in Runs, run[r] = "copy", NEW e \in Entities, QuietOK(e)
  PROVE  /\ NoRunAt("clear") /\ NoRunAt("wipe")
         /\ CopiesCommitted(e) /\ HolderHasSent(e)
         /\ \A s \in Runs \ {r} : run[s] # "copy"
<1>1. \A s \in Runs \ {r} : ~Active(s)
  BY DEF QuietOK, OneRun, Active
<1>2. NoRunAt("clear") /\ NoRunAt("wipe")
  BY <1>1 DEF NoRunAt, Active
<1>3. QED
  BY <1>1, <1>2 DEF QuietOK, Active

(* The cursor yields e with its committed document, or passes because e    *)
(* does not exist: then nothing of e is on its way.                        *)
LEMMA QuietRead ==
  ASSUME RTypeOK, RowsOK, NEW r \in Runs, NEW f \in Entities, ReadEntity(r, f),
         NEW e \in Entities, QuietOK(e)
  PROVE  QuietOK(e)'
<1> USE DEF syncVars, vars
<1>1. /\ UNCHANGED <<db, row, index, pc, batch, run>>
      /\ run[r] = "copy"
  BY DEF ReadEntity
<1>2. /\ NoRunAt("clear") /\ NoRunAt("wipe")
      /\ CopiesCommitted(e) /\ HolderHasSent(e)
      /\ \A s \in Runs \ {r} : run[s] # "copy"
  BY <1>1, Copying
<1>3. OneRun' /\ CopiesCommitted(e)' /\ HolderHasSent(e)' /\ NoRunAt("wipe")'
  BY <1>1, <1>2 DEF QuietOK, OneRun, Active, CopiesCommitted, HolderHasSent,
                    Claimed, NoRunAt
<1>4. Rebuilt(e)' <=> Rebuilt(e)
  BY <1>1 DEF Rebuilt
<1>5. CASE db[f].kind = "live"
  <2>1. snap' = [snap EXCEPT ![r][f] = db[f]] /\ todo' = todo
    BY <1>5 DEF ReadEntity
  <2>2. Passed(e)' <=> Passed(e)
    BY <1>1, <2>1 DEF Passed
  <2>3. ASSUME NEW s \in Runs, snap'[s][e] # NoDoc
        PROVE  snap'[s][e] = db[e] /\ db[e].kind = "live"
    <3>1. CASE s = r /\ e = f
      <4>1. snap[r] \in [Entities -> Doc] /\ snap \in [Runs -> [Entities -> Doc]]
        BY DEF RTypeOK
      <4>2. snap'[r][f] = db[f]
        BY <2>1, <4>1
      <4>3. QED
        BY <1>5, <3>1, <4>2
    <3>2. CASE ~(s = r /\ e = f)
      <4>1. snap'[s][e] = snap[s][e]
        BY <2>1, <3>2 DEF RTypeOK
      <4>2. QED
        BY <2>3, <4>1 DEF QuietOK
    <3>3. QED
      BY <3>1, <3>2
  <2>5. QED
    BY <1>1, <1>2, <1>3, <1>4, <2>2, <2>3 DEF QuietOK
<1>6. CASE db[f].kind # "live"
  <2>1. todo' = [todo EXCEPT ![r] = @ \ {f}] /\ snap' = snap
    BY <1>6 DEF ReadEntity
  <2>2. Passed(e)' => Passed(e) \/ e = f
    BY <1>1, <2>1 DEF Passed, RTypeOK
  <2>3. CASE e = f
    <3>1. row[e].id = 0 /\ row[e].state = "none"
      BY <1>2, <1>6, <2>3 DEF CopiesCommitted, RowsOK
    <3>2. Rebuilt(e)
      BY <1>2, <1>6, <2>3, <3>1 DEF Rebuilt, HolderHasSent
    <3>3. QED
      BY <1>1, <1>2, <1>3, <1>4, <2>1, <3>2 DEF QuietOK
  <2>4. CASE e # f
    BY <1>1, <1>2, <1>3, <1>4, <2>1, <2>2, <2>4 DEF QuietOK
  <2>5. QED
    BY <2>3, <2>4
<1>7. QED
  BY <1>5, <1>6

(* The insertion stages the committed document, or finds it staged; its id *)
(* is new, so no worker holds the row yet.                                 *)
LEMMA QuietInsert ==
  ASSUME RTypeOK, RowsOK, IdsOK, SnapOK, NEW r \in Runs, NEW f \in Entities,
         InsertEntity(r, f), NEW e \in Entities, QuietOK(e)
  PROVE  QuietOK(e)'
<1> USE DEF requestVars
<1>1. /\ UNCHANGED <<db, index, pc, batch, run>>
      /\ run[r] = "copy" /\ snap[r][f] # NoDoc
      /\ snap' = [snap EXCEPT ![r][f] = NoDoc]
      /\ todo' = [todo EXCEPT ![r] = @ \ {f}]
  BY DEF InsertEntity
<1>2. /\ NoRunAt("clear") /\ NoRunAt("wipe")
      /\ CopiesCommitted(e) /\ HolderHasSent(e)
  BY <1>1, Copying
<1>3. \A s \in Runs : snap'[s][e] \in {snap[s][e], NoDoc}
  BY <1>1 DEF RTypeOK
<1>4. OneRun' /\ NoRunAt("wipe")'
  BY <1>1, <1>2 DEF QuietOK, OneRun, Active, NoRunAt
<1>5. \A s \in Runs : snap'[s][e] # NoDoc => snap'[s][e] = db'[e] /\ db'[e].kind = "live"
  BY <1>1, <1>3 DEF QuietOK
<1>6. Passed(e)' => Passed(e) \/ e = f
  BY <1>1 DEF Passed, RTypeOK
<1>7. CASE row[f].id = 0
  <2>1. Upserted(f, snap[r][f]) /\ snap[r][f] \in Doc /\ TypeOK
    BY <1>7 DEF InsertEntity, RTypeOK
  <2>2. row' = [row EXCEPT ![f] = [id |-> nextId, doc |-> snap[r][f],
                                   state |-> "open"]]
    BY <1>7, <2>1 DEF Upserted
  <2>3. CASE e # f
    <3>1. row'[e] = row[e]
      BY <2>1, <2>2, <2>3 DEF TypeOK
    <3>2. CopiesCommitted(e)' /\ HolderHasSent(e)' /\ (Rebuilt(e)' <=> Rebuilt(e))
      BY <1>1, <1>2, <3>1 DEF CopiesCommitted, HolderHasSent, Claimed, Rebuilt
    <3>3. QED
      BY <1>2, <1>4, <1>5, <1>6, <2>3, <3>2 DEF QuietOK
  <2>4. CASE e = f
    <3>1. snap[r][e] = db[e] /\ db[e].kind = "live"
      BY <1>1, <2>4 DEF QuietOK
    <3>2. row'[e] = [id |-> nextId, doc |-> db[e], state |-> "open"]
      BY <2>1, <2>2, <2>4, <3>1 DEF TypeOK
    <3>3. \A w \in Workers : batch[w][e].id # nextId
      BY <2>1, IdTypes DEF IdsOK
    <3>4. CopiesCommitted(e)'
      BY <1>1, <1>2, <3>1, <3>2 DEF CopiesCommitted, Claimed
    <3>5. HolderHasSent(e)'
      BY <1>1, <1>2, <3>2, <3>3 DEF HolderHasSent
    <3>6. Rebuilt(e)'
      BY <1>1, <3>1, <3>2 DEF Rebuilt
    <3>7. QED
      BY <1>4, <1>5, <3>4, <3>5, <3>6 DEF QuietOK
  <2>5. QED
    BY <2>3, <2>4
<1>8. CASE row[f].id # 0
  <2>1. row' = row
    BY <1>8 DEF InsertEntity
  <2>2. CopiesCommitted(e)' /\ HolderHasSent(e)' /\ (Rebuilt(e)' <=> Rebuilt(e))
    BY <1>1, <1>2, <2>1 DEF CopiesCommitted, HolderHasSent, Claimed, Rebuilt
  <2>3. e = f => Rebuilt(e)
    BY <1>2, <1>8 DEF CopiesCommitted, Rebuilt
  <2>4. QED
    BY <1>2, <1>4, <1>5, <1>6, <2>2, <2>3 DEF QuietOK
<1>9. QED
  BY <1>7, <1>8

(* A run skips other entities, finds nothing left to do, or stops.         *)
LEMMA QuietEnd ==
  ASSUME RTypeOK, SnapOK, NEW r \in Runs, NEW e \in Entities, QuietOK(e), quiet'[e],
         \/ \E S \in SUBSET todo[r] : SkipEntities(r, S)
         \/ Copied(r)
         \/ Stop(r)
  PROVE  QuietOK(e)'
<1> USE DEF requestVars, syncVars, vars
<1>1. ASSUME NEW S \in SUBSET todo[r], SkipEntities(r, S) PROVE QuietOK(e)'
  <2>1. /\ UNCHANGED <<db, row, index, pc, batch, run>>
        /\ e \notin S
        /\ todo' = [todo EXCEPT ![r] = @ \ S]
        /\ snap' = [snap EXCEPT ![r] =
                      [f \in Entities |-> IF f \in S THEN NoDoc ELSE @[f]]]
    BY <1>1 DEF SkipEntities
  <2>2. \A s \in Runs : snap'[s][e] = snap[s][e]
    BY <2>1 DEF RTypeOK
  <2>3. \A s \in Runs : e \in todo'[s] <=> e \in todo[s]
    BY <2>1 DEF RTypeOK
  <2>4. QED
    BY <2>1, <2>2, <2>3
       DEF QuietOK, OneRun, Active, NoRunAt, CopiesCommitted, HolderHasSent,
           Passed, Rebuilt, Claimed
<1>2. ASSUME NEW p \in {"stop", "done"}, run' = [run EXCEPT ![r] = p], Active(r),
             UNCHANGED <<db, row, index, pc, batch, todo, snap>>,
             run[r] = "stop" \/ (run[r] = "copy" /\ todo[r] = {})
      PROVE  QuietOK(e)'
  <2>1. OneRun'
    BY <1>2 DEF QuietOK, OneRun, Active, RTypeOK
  <2>2. (NoRunAt("clear")' <=> NoRunAt("clear")) /\ (NoRunAt("wipe")' <=> NoRunAt("wipe"))
    BY <1>2 DEF NoRunAt, RTypeOK
  <2>3. Passed(e)' <=> Passed(e)
    BY <1>2 DEF Passed, RTypeOK
  <2>4. /\ CopiesCommitted(e)' <=> CopiesCommitted(e)
        /\ HolderHasSent(e)' <=> HolderHasSent(e)
        /\ Rebuilt(e)' <=> Rebuilt(e)
    BY <1>2 DEF CopiesCommitted, HolderHasSent, Rebuilt, Claimed
  <2>5. QED
    BY <1>2, <2>1, <2>2, <2>3, <2>4 DEF QuietOK
<1>3. CASE Copied(r)
  BY <1>2, <1>3 DEF Copied, Active
<1>4. CASE Stop(r)
  <2>1. /\ UNCHANGED <<db, row, index, pc, batch, todo, snap>>
        /\ run[r] = "stop" /\ run' = [run EXCEPT ![r] = "done"]
    BY <1>4 DEF Stop
  <2>2. Active(r) /\ "done" \in {"stop", "done"}
    BY <2>1 DEF Active
  <2>3. QED
    BY <1>2, <2>1, <2>2
<1>5. QED
  BY <1>1, <1>3, <1>4

LEMMA QuietStep == RInv /\ [RNext]_rvars => QuietInv'
<1> SUFFICES ASSUME RInv, [RNext]_rvars, NEW e \in Entities, quiet'[e]
             PROVE  QuietOK(e)'
  BY DEF QuietInv
<1> USE DEF RInv
<1>1. TypeOK /\ quiet \in [Entities -> BOOLEAN] /\ (quiet[e] => QuietOK(e))
  BY DEF RTypeOK, QuietInv
<1>2. ASSUME NEW f \in Entities, Request(f), UNCHANGED reprovisionVars,
             quiet' = [quiet EXCEPT ![f] = FALSE]
      PROVE  QuietOK(e)'
  <2>1. e # f /\ quiet[e]
    BY <1>1, <1>2
  <2>2. UNCHANGED <<index, pc, batch>> /\ db'[e] = db[e] /\ row'[e] = row[e]
    BY <1>1, <1>2, <2>1, RequestElsewhere
  <2>3. QED
    BY <1>1, <1>2, <2>1, <2>2, QuietFrame DEF reprovisionVars
<1>3. ASSUME NEW w \in Workers, Round(w), UNCHANGED <<reprovisionVars, quiet>>
      PROVE  QuietOK(e)'
  BY <1>1, <1>3, QuietRound
<1>4. ASSUME NEW w \in Workers, Fault(w), quiet' = [f \in Entities |-> FALSE]
      PROVE  QuietOK(e)'
  BY <1>4
<1>5. ASSUME NEW r \in Runs, RunStep(r) PROVE QuietOK(e)'
  <2>1. CASE Start(r)
    BY <2>1, QuietStart
  <2>2. CASE ClearAll(r)
    <3>1. quiet[e]
      BY <2>2 DEF ClearAll
    <3>2. QED
      BY <1>1, <2>2, <3>1, QuietClear
  <2>3. CASE Wipe(r)
    BY <1>1, <2>3, QuietWipe DEF Wipe
  <2>4. CASE WipeRefused(r) \/ RunFails(r) \/ RunCrashes(r)
    BY <2>4 DEF WipeRefused, RunFails, RunCrashes
  <2>5. ASSUME NEW f \in Entities, ReadEntity(r, f) PROVE QuietOK(e)'
    BY <1>1, <2>5, QuietRead DEF ReadEntity
  <2>6. ASSUME NEW f \in Entities, InsertEntity(r, f) PROVE QuietOK(e)'
    BY <1>1, <2>6, QuietInsert DEF InsertEntity
  <2>7. ASSUME NEW S \in SUBSET todo[r], SkipEntities(r, S) PROVE QuietOK(e)'
    <3>1. quiet[e]
      BY <2>7 DEF SkipEntities
    <3>2. QED
      BY <1>1, <2>7, <3>1, QuietEnd
  <2>8. CASE Copied(r) \/ Stop(r)
    <3>1. quiet[e]
      BY <2>8 DEF Copied, Stop
    <3>2. QED
      BY <1>1, <2>8, <3>1, QuietEnd
  <2>9. QED
    BY <1>5, <2>1, <2>2, <2>3, <2>4, <2>5, <2>6, <2>7, <2>8 DEF RunStep
<1>6. CASE KillLock
  <2>1. /\ UNCHANGED <<db, row, index, pc, batch, run, todo, snap>>
        /\ quiet' = quiet
    BY <1>6 DEF KillLock, syncVars, vars
  <2>2. QED
    BY <1>1, <2>1, QuietFrame
<1>7. CASE UNCHANGED rvars
  <2>1. /\ UNCHANGED <<db, row, index, pc, batch, run, todo, snap>>
        /\ quiet' = quiet
    BY <1>7 DEF rvars, vars, reprovisionVars
  <2>2. QED
    BY <1>1, <2>1, QuietFrame
<1>8. QED
  BY <1>2, <1>3, <1>4, <1>5, <1>6, <1>7 DEF RNext

(* The inductive invariant of the composition.                             *)
THEOREM ReprovisionInvariant == RSpec => []RInv
<1>1. RInv /\ [RNext]_rvars => RInv'
  BY RTypeStep, IdsStep, LockStep, SnapStep, QuietStep DEF RInv
<1>2. QED
  BY <1>1, InitRInv, PTL DEF RSpec

(* What a run promises of entities that nobody touches: when no run is     *)
(* under way they are in the index or staged where a worker will take      *)
(* them, and what does not exist is in neither.                            *)
THEOREM QuietIsRebuilt == RSpec => []QuietRebuilt
<1>1. RInv => QuietRebuilt
  <2> SUFFICES ASSUME RInv, \A r \in Runs : ~Active(r), NEW e \in Entities, quiet[e]
               PROVE  Rebuilt(e)
    BY DEF QuietRebuilt
  <2>1. QuietOK(e)
    BY DEF RInv, QuietInv
  <2>2. NoRunAt("clear") /\ NoRunAt("wipe") /\ Passed(e)
    BY DEF Active, NoRunAt, Passed
  <2>3. QED
    BY <2>1, <2>2 DEF QuietOK
<1>2. QED
  BY <1>1, ReprovisionInvariant, PTL

-----------------------------------------------------------------------------
(* Who holds which row, although the table is truncated.                   *)

LEMMA UpsertHeld ==
  ASSUME TypeOK, IdsOK, HeldOnce, NEW e \in Entities, NEW d \in Doc,
         Upserted(e, d), UNCHANGED batch
  PROVE  HeldOnce'
<1>1. /\ nextId \in Nat
      /\ \A w \in Workers, f \in Entities : batch[w][f].id \in Nat
      /\ \A w \in Workers, f \in Entities : batch[w][f].id < nextId
  BY IdTypes DEF IdsOK
<1>2. CASE row[e].id = 0
  <2>1. row' = [row EXCEPT ![e] = [id |-> nextId, doc |-> d, state |-> "open"]]
    BY <1>2 DEF Upserted
  <2>2. row'[e].id = nextId /\ \A f \in Entities \ {e} : row'[f] = row[f]
    BY <2>1 DEF TypeOK
  <2>3. \A w \in Workers : batch[w][e].id # nextId
    BY <1>1
  <2>4. QED
    BY <1>2, <2>2, <2>3 DEF HeldOnce
<1>3. CASE row[e].id # 0
  <2>1. \A f \in Entities : row'[f].id = row[f].id /\ row'[f].state = row[f].state
    BY <1>3, UpsertedRow DEF Upserted
  <2>2. QED
    BY <1>3, <2>1 DEF HeldOnce
<1>4. QED
  BY <1>2, <1>3

LEMMA RequestHeld ==
  ASSUME TypeOK, IdsOK, HeldOnce, NEW e \in Entities, Request(e)
  PROVE  HeldOnce'
<1>1. [kind |-> tx[e].kind, ver |-> next[e]] \in Doc /\ echo[e] \in Doc
  BY DEF TypeOK, Doc, Tx
<1>2. CASE Stage(e) \/ StageRead(e)
  BY <1>1, <1>2, UpsertHeld DEF Stage, StageRead
<1>3. CASE UNCHANGED <<row, batch>>
  BY <1>3 DEF HeldOnce
<1>4. QED
  BY <1>2, <1>3 DEF Request, Begin, Commit, Abort, Read

(* A marking touches the rows that the worker holds, and nobody else does. *)
LEMMA MarkingHeld ==
  ASSUME TypeOK, HeldOnce, NEW w \in Workers, Released(w),
         \A e \in Entities : ~Marks(w, e) => row'[e] = row[e],
         \A e \in Entities : row'[e].id \in {row[e].id, 0}
  PROVE  HeldOnce'
<1>1. \A e \in Entities : batch'[w][e].id = 0
  BY DEF Released, TypeOK, NoClaims, NoRow
<1>2. \A v \in Workers \ {w} : batch'[v] = batch[v]
  BY DEF Released, TypeOK
<1> SUFFICES ASSUME NEW v \in Workers, NEW e \in Entities,
                    batch'[v][e].id = row'[e].id, row'[e].id # 0
             PROVE  /\ row'[e].state = "locked"
                    /\ \A u \in Workers \ {v} : batch'[u][e].id # row'[e].id
  BY DEF HeldOnce
<1>3. v # w /\ row'[e].id = row[e].id
  BY <1>1
<1>4. batch[v][e].id = row[e].id /\ row[e].id # 0
  BY <1>2, <1>3
<1>5. row[e].state = "locked" /\ \A u \in Workers \ {v} : batch[u][e].id # row[e].id
  BY <1>4 DEF HeldOnce
<1>6. row'[e] = row[e]
  BY <1>3, <1>5 DEF Marks
<1>7. ASSUME NEW u \in Workers \ {v} PROVE batch'[u][e].id # row'[e].id
  BY <1>1, <1>2, <1>4, <1>5, <1>6
<1>8. QED
  BY <1>5, <1>6, <1>7

LEMMA SelectionHeld ==
  ASSUME TypeOK, HeldOnce, NEW w \in Workers, SelectNext(w)
  PROVE  HeldOnce'
<1>1. PICK C \in SUBSET Open :
         /\ Locked(C)
         /\ batch' = [batch EXCEPT ![w] =
                        [e \in Entities |-> IF e \in C THEN row[e] ELSE NoRow]]
  BY DEF SelectNext
<1>2. /\ \A e \in Entities : /\ row'[e].id = row[e].id
                             /\ e \in C => row'[e].state = "locked"
                             /\ e \notin C => row'[e] = row[e]
      /\ \A e \in C : e \in Entities /\ row[e].state = "open"
  BY <1>1 DEF Locked, Open, TypeOK, Row
<1>3. /\ \A v \in Workers \ {w} : batch'[v] = batch[v]
      /\ \A e \in Entities : batch'[w][e].id = IF e \in C THEN row[e].id ELSE 0
  BY <1>1 DEF TypeOK, NoRow
<1> SUFFICES ASSUME NEW v \in Workers, NEW e \in Entities,
                    batch'[v][e].id = row'[e].id, row'[e].id # 0
             PROVE  /\ row'[e].state = "locked"
                    /\ \A u \in Workers \ {v} : batch'[u][e].id # row'[e].id
  BY DEF HeldOnce
(* Nobody holds an open row.                                               *)
<1>4. CASE e \in C
  <2>1. \A u \in Workers : batch[u][e].id # row[e].id
    BY <1>2, <1>4 DEF HeldOnce
  <2>2. QED
    BY <1>2, <1>3, <1>4, <2>1
<1>5. CASE e \notin C
  <2>1. v # w /\ batch[v][e].id = row[e].id /\ row[e].id # 0
    BY <1>2, <1>3, <1>5
  <2>2. row[e].state = "locked" /\ \A u \in Workers \ {v} : batch[u][e].id # row[e].id
    BY <2>1 DEF HeldOnce
  <2>3. QED
    BY <1>2, <1>3, <1>5, <2>1, <2>2
<1>6. QED
  BY <1>4, <1>5

LEMMA WorkerHeld ==
  ASSUME TypeOK, HeldOnce, NEW w \in Workers, Round(w) \/ Fault(w)
  PROVE  HeldOnce'
<1>1. CASE SelectNext(w)
  BY <1>1, SelectionHeld
<1>2. CASE MarkProcessed(w)
  <2>1. \A e \in Entities : row'[e] = IF Marks(w, e) THEN NoRow ELSE row[e]
    BY <1>2 DEF MarkProcessed
  <2>2. QED
    BY <1>2, <2>1, MarkingHeld DEF MarkProcessed, NoRow
<1>3. ASSUME NEW s, MarkRows(w, s), Released(w) PROVE HeldOnce'
  <2>1. \A e \in Entities : /\ ~Marks(w, e) => row'[e] = row[e]
                            /\ row'[e].id = row[e].id
    BY <1>3 DEF MarkRows, TypeOK, Row
  <2>2. QED
    BY <1>3, <2>1, MarkingHeld
<1>4. CASE MarkReset(w) \/ MarkFailed(w)
  BY <1>3, <1>4 DEF MarkReset, MarkFailed
<1>5. CASE MarkFailedFails(w) \/ Crash(w)
  <2>1. Released(w) /\ row' = row
    BY <1>5 DEF MarkFailedFails, Crash
  <2>2. QED
    BY <2>1, MarkingHeld
<1>6. CASE UNCHANGED <<row, batch>>
  BY <1>6 DEF HeldOnce
<1>7. QED
  BY <1>1, <1>2, <1>4, <1>5, <1>6
     DEF Round, Fault, SolrUpsert, Purge, SolrUpsertFails, MarkFails, PurgeFails

(* What a run does to the staging table: it truncates it or inserts a row. *)
LEMMA RunRows ==
  ASSUME RTypeOK, NEW r \in Runs, RunStep(r)
  PROVE  /\ UNCHANGED batch
         /\ \/ UNCHANGED <<row, nextId>>
            \/ row' = [e \in Entities |-> NoRow] /\ UNCHANGED nextId
            \/ \E e \in Entities, d \in Doc : row[e].id = 0 /\ Upserted(e, d)
<1> USE DEF syncVars, vars
<1>1. CASE ClearAll(r)
  BY <1>1 DEF ClearAll
<1>2. ASSUME NEW e \in Entities, InsertEntity(r, e)
      PROVE  /\ UNCHANGED batch
             /\ \/ UNCHANGED <<row, nextId>>
                \/ \E d \in Doc : row[e].id = 0 /\ Upserted(e, d)
  BY <1>2 DEF InsertEntity, RTypeOK
<1>3. CASE UNCHANGED <<row, nextId, batch>>
  BY <1>3
<1>4. QED
  BY <1>1, <1>2, <1>3
     DEF RunStep, Start, Wipe, WipeRefused, ReadEntity, SkipEntities, Copied,
         RunFails, Stop, RunCrashes

LEMMA HeldStep == RTypeOK /\ IdsOK /\ HeldOnce /\ [RNext]_rvars => HeldOnce'
<1> SUFFICES ASSUME RTypeOK, IdsOK, HeldOnce, [RNext]_rvars PROVE HeldOnce'
  OBVIOUS
<1>1. TypeOK
  BY DEF RTypeOK
<1>2. ASSUME NEW r \in Runs, RunStep(r) PROVE HeldOnce'
  <2>1. CASE UNCHANGED <<row, batch>>
    BY <2>1 DEF HeldOnce
  <2>2. CASE row' = [e \in Entities |-> NoRow]
    BY <2>2 DEF HeldOnce, NoRow
  <2>3. CASE \E e \in Entities, d \in Doc : Upserted(e, d) /\ UNCHANGED batch
    BY <1>1, <2>3, UpsertHeld
  <2>4. QED
    BY <1>2, <2>1, <2>2, <2>3, RunRows
<1>3. CASE KillLock \/ UNCHANGED rvars
  BY <1>3 DEF KillLock, syncVars, rvars, vars, HeldOnce
<1>4. QED
  BY <1>1, <1>2, <1>3, RequestHeld, WorkerHeld DEF RNext

(* No row is in the hands of two workers, and the row that somebody holds  *)
(* is locked, for any number of truncations under any number of workers:   *)
(* ids are not given out again.                                            *)
THEOREM RowsHeldOnce == RSpec => []HeldOnce
<1>1. RInit => HeldOnce
  BY DEF RInit, Init, HeldOnce, NoRow
<1>2. RInv => RTypeOK /\ IdsOK
  BY DEF RInv
<1>3. QED
  BY <1>1, <1>2, HeldStep, ReprovisionInvariant, PTL DEF RSpec

-----------------------------------------------------------------------------

LEMMA RowIdsStep == RTypeOK /\ RowIdsOK /\ [RNext]_rvars => RowIdsOK'
<1> SUFFICES ASSUME RTypeOK, RowIdsOK, [RNext]_rvars PROVE RowIdsOK'
  OBVIOUS
<1>1. TypeOK /\ nextId \in Nat \ {0}
  BY DEF RTypeOK, TypeOK
<1>2. ASSUME NEW r \in Runs, RunStep(r) PROVE RowIdsOK'
  <2>1. CASE UNCHANGED <<row, nextId>>
    BY <2>1 DEF RowIdsOK
  <2>2. CASE row' = [e \in Entities |-> NoRow] /\ UNCHANGED nextId
    BY <1>1, <2>2 DEF RowIdsOK, NoRow
  <2>3. CASE \E e \in Entities, d \in Doc : Upserted(e, d)
    BY <1>1, <2>3, UpsertKeepsIds
  <2>4. QED
    BY <1>2, <2>1, <2>2, <2>3, RunRows
<1>3. CASE KillLock \/ UNCHANGED rvars
  BY <1>3 DEF KillLock, syncVars, rvars, vars, RowIdsOK
<1>4. QED
  BY <1>1, <1>2, <1>3, RequestRowIds, WorkerRowIds DEF RNext

(* Also while runs truncate and fill the table select_next takes one batch *)
(* of the open rows, and which one depends on the rows alone.              *)
THEOREM SelectionIsDefinedInRuns ==
  ASSUME IsFiniteSet(Entities)
  PROVE  RSpec => []SelectsOneBatch
<1>1. RInit => RowIdsOK
  BY DEF RInit, Init, RowIdsOK, NoRow
<1>2. RInv => RTypeOK /\ TypeOK /\ RowsOK
  BY DEF RInv, RTypeOK
<1>3. TypeOK /\ RowsOK /\ RowIdsOK => SelectsOneBatch
  BY OneBatch
<1>4. QED
  BY <1>1, <1>2, <1>3, RowIdsStep, ReprovisionInvariant, PTL DEF RSpec
=============================================================================
