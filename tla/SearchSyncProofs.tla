-------------------------- MODULE SearchSyncProofs --------------------------
(***************************************************************************)
(* Proofs about SearchSync for any sets of entities and workers and any    *)
(* values of the bounds.  The inductive invariant IInv adds to TypeOK and  *)
(* ClaimExclusive what is known of the versions in flight.                 *)
(***************************************************************************)
EXTENDS SearchSync, FiniteSetTheorems, WellFoundedInduction, TLAPS

(* A row has a state exactly when it exists.                               *)
RowsOK ==
    \A e \in Entities : row[e].state = "none" <=> row[e].id = 0

(* Only a worker in the middle of a round holds rows.                      *)
Busy ==
    \A w \in Workers : pc[w] \in {"idle", "purge"} => Claimed(w) = {}

(* A document anywhere in the pipeline carries no version that was not     *)
(* taken, and describes the entity as the write of that version did.       *)
DocOK(e, d) ==
    /\ d.ver <= next[e]
    /\ tx[e].st = "flushed" => d.ver < next[e]
    /\ d.ver = db[e].ver => (d.kind = "live" <=> db[e].kind = "live")
    /\ tx[e].st = "staged" /\ d.ver = next[e] =>
          (d.kind = "live" <=> tx[e].kind = "live")

DocsOK ==
    \A e \in Entities :
       /\ DocOK(e, row[e].doc)
       /\ DocOK(e, index[e])
       /\ DocOK(e, echo[e])
       /\ \A w \in Workers : DocOK(e, batch[w][e].doc)

(* An open transaction has taken a version after the committed one.        *)
TxOK ==
    \A e \in Entities :
       /\ db[e].ver <= next[e]
       /\ db[e].ver = 0 => db[e].kind # "live"
       /\ tx[e].st # "none" => db[e].ver < next[e]

(* Unless e is spoiled, its row is at least as new as the index, what a    *)
(* worker copied is what the row says, and a batch that was indexed is in  *)
(* the index.                                                              *)
Ordered ==
    \A e \in Entities : spoiled[e] \/
       /\ row[e].id # 0 => index[e].ver <= row[e].doc.ver
       /\ \A w \in Workers : e \in Claimed(w) =>
             /\ batch[w][e].doc = row[e].doc
             /\ pc[w] = "processed" => index[e].ver >= row[e].doc.ver

(* Version v of e, or a later one, is in the index or staged.              *)
Reached(e, v) ==
    \/ index[e].ver >= v
    \/ row[e].id # 0 /\ row[e].doc.ver >= v

Reaching ==
    \A e \in Entities : spoiled[e] \/
       /\ Reached(e, db[e].ver)
       /\ tx[e].st = "staged" => Reached(e, next[e])

IInv ==
    /\ TypeOK
    /\ ClaimExclusive
    /\ RowsOK
    /\ Busy
    /\ TxOK
    /\ DocsOK
    /\ Ordered
    /\ Reaching
    /\ OrphansNeedFault

-----------------------------------------------------------------------------

LEMMA InitIInv == Init => IInv
BY SearchSyncAssumption
   DEF Init, IInv, TypeOK, ClaimExclusive, RowsOK, Busy, TxOK, DocsOK, DocOK, Ordered,
       Reaching, Reached, OrphansNeedFault, Claimed, NoClaims, NoRow, NoDoc,
       NoTx, Doc, Row, Tx

(* The operations on the staging table return rows.                        *)
LEMMA UpsertedType ==
  ASSUME TypeOK, NEW e \in Entities, NEW d \in Doc, Upserted(e, d)
  PROVE  row' \in [Entities -> Row] /\ nextId' \in Nat \ {0}
<1>1. CASE row[e].id = 0
  <2>1. [id |-> nextId, doc |-> d, state |-> "open"] \in Row
    BY DEF TypeOK, Row
  <2>2. QED
    BY <1>1, <2>1 DEF TypeOK, Upserted
<1>2. CASE row[e].id # 0
  <2>1. [row[e] EXCEPT !.doc = d] \in Row
    BY DEF TypeOK, Row
  <2>2. row' = [row EXCEPT ![e] = [row[e] EXCEPT !.doc = d]] /\ nextId' = nextId
    BY <1>2 DEF Upserted
  <2>3. QED
    BY <2>1, <2>2 DEF TypeOK
<1>3. QED
  BY <1>1, <1>2

(* An upsert gives e the document d and changes no other row; it leaves    *)
(* the id and the state of an existing row alone, and no new row locked.   *)
LEMMA UpsertedRow ==
  ASSUME TypeOK, NEW e \in Entities, NEW d \in Doc, Upserted(e, d)
  PROVE  /\ row'[e].doc = d
         /\ row'[e].id # 0
         /\ row'[e].state = "locked" => row[e].state = "locked"
         /\ row[e].id # 0 =>
               row'[e].id = row[e].id /\ row'[e].state = row[e].state
         /\ \A f \in Entities \ {e} : row'[f] = row[f]
<1>1. CASE row[e].id = 0
  BY <1>1 DEF TypeOK, Upserted
<1>2. CASE row[e].id # 0
  <2>1. row' = [row EXCEPT ![e] = [row[e] EXCEPT !.doc = d]]
    BY <1>2 DEF Upserted
  <2>2. row[e] \in Row
    BY DEF TypeOK
  <2>3. QED
    BY <1>2, <2>1, <2>2 DEF TypeOK, Row
<1>3. QED
  BY <1>1, <1>2

LEMMA MarkedType ==
  ASSUME TypeOK, NEW e \in Entities, NEW s \in {"open", "locked", "failed"}
  PROVE  [row[e] EXCEPT !.state = s] \in Row
<1>1. row[e] \in Row
  BY DEF TypeOK
<1>2. QED
  BY <1>1 DEF Row

(* Every action keeps the types.                                           *)
LEMMA TypeStep == TypeOK /\ [Next]_vars => TypeOK'
<1> SUFFICES ASSUME TypeOK, [Next]_vars PROVE TypeOK'
  OBVIOUS
<1> USE SearchSyncAssumption
<1> USE DEF TypeOK, Doc, Row, Tx, NoDoc, NoRow, NoTx, requestVars
<1>1. ASSUME NEW e \in Entities, Request(e) PROVE TypeOK'
  <2>1. ASSUME NEW kind \in {"live", "deleted"}, Begin(e, kind) PROVE TypeOK'
    BY <2>1 DEF Begin
  <2>2. CASE Stage(e)
    <3>1. [kind |-> tx[e].kind, ver |-> next[e]] \in Doc
      OBVIOUS
    <3>2. row' \in [Entities -> Row] /\ nextId' \in Nat \ {0}
      BY <2>2, <3>1, UpsertedType DEF Stage
    <3>3. spoiled' \in [Entities -> BOOLEAN]
      <4>1. (row[e].state = "locked") \in BOOLEAN
        OBVIOUS
      <4>2. QED
        BY <2>2, <4>1 DEF Stage
    <3>4. tx' \in [Entities -> Tx]
      <4>1. [tx[e] EXCEPT !.st = "staged"] \in Tx
        BY tx[e] \in Tx DEF Tx
      <4>2. QED
        BY <2>2, <4>1 DEF Stage
    <3>5. QED
      BY <2>2, <3>2, <3>3, <3>4 DEF Stage
  <2>3. CASE Commit(e)
    BY <2>3 DEF Commit
  <2>4. CASE Abort(e)
    BY <2>4 DEF Abort
  <2>5. CASE Read(e)
    BY <2>5 DEF Read
  <2>6. CASE StageRead(e)
    <3>1. row' \in [Entities -> Row] /\ nextId' \in Nat \ {0}
      BY <2>6, UpsertedType DEF StageRead
    <3>2. spoiled' \in [Entities -> BOOLEAN]
      BY <2>6 DEF StageRead
    <3>3. QED
      BY <2>6, <3>1, <3>2 DEF StageRead
  <2>7. QED
    BY <1>1, <2>1, <2>2, <2>3, <2>4, <2>5, <2>6 DEF Request
<1>2. ASSUME NEW w \in Workers, Round(w) PROVE TypeOK'
  <2>1. CASE SelectNext(w)
    <3>1. PICK C \in SUBSET Entities :
             /\ Locked(C)
             /\ batch' = [batch EXCEPT ![w] =
                            [e \in Entities |-> IF e \in C THEN row[e] ELSE NoRow]]
      BY <2>1 DEF SelectNext, Open
    <3>2. row' \in [Entities -> Row]
      BY <3>1, MarkedType DEF Locked
    <3>3. batch' \in [Workers -> [Entities -> Row]]
      BY <3>1
    <3>4. pc' \in [Workers -> {"idle", "upsert", "processed", "reset",
                              "failed", "purge"}]
      BY <2>1 DEF SelectNext
    <3>5. QED
      BY <2>1, <3>2, <3>3, <3>4 DEF SelectNext
  <2>2. CASE SolrUpsert(w)
    BY <2>2 DEF SolrUpsert, Indexed
  <2>3. CASE MarkProcessed(w)
    BY <2>3 DEF MarkProcessed, Released, NoClaims
  <2>4. CASE MarkReset(w)
    <3>1. row' \in [Entities -> Row]
      BY <2>4, MarkedType DEF MarkReset, MarkRows
    <3>2. QED
      BY <2>4, <3>1 DEF MarkReset, Released, NoClaims
  <2>5. CASE MarkFailed(w)
    <3>1. row' \in [Entities -> Row]
      BY <2>5, MarkedType DEF MarkFailed, MarkRows
    <3>2. QED
      BY <2>5, <3>1 DEF MarkFailed, Released, NoClaims
  <2>6. CASE Purge(w)
    BY <2>6 DEF Purge
  <2>7. QED
    BY <1>2, <2>1, <2>2, <2>3, <2>4, <2>5, <2>6 DEF Round
<1>3. ASSUME NEW w \in Workers, Fault(w) PROVE TypeOK'
  <2>1. CASE SolrUpsertFails(w)
    BY <2>1 DEF SolrUpsertFails, Indexed
  <2>2. CASE MarkFails(w)
    BY <2>2 DEF MarkFails
  <2>3. CASE MarkFailedFails(w)
    BY <2>3 DEF MarkFailedFails, Released, NoClaims
  <2>4. CASE PurgeFails(w)
    BY <2>4 DEF PurgeFails
  <2>5. CASE Crash(w)
    BY <2>5 DEF Crash, Indexed, Released, NoClaims
  <2>6. QED
    BY <1>3, <2>1, <2>2, <2>3, <2>4, <2>5 DEF Fault
<1>4. CASE UNCHANGED vars
  BY <1>4 DEF vars
<1>5. QED
  BY <1>1, <1>2, <1>3, <1>4 DEF Next

(* The type invariant: TypeOK holds in every reachable state.              *)
THEOREM TypeCorrect == Spec => []TypeOK
<1>1. Init => TypeOK
  BY InitIInv DEF IInv
<1>2. TypeOK /\ [Next]_vars => TypeOK'
  BY TypeStep
<1>3. QED
  BY <1>1, <1>2, PTL DEF Spec

-----------------------------------------------------------------------------

(* Claims stay exclusive: a worker takes open rows only, nobody but the    *)
(* worker that holds a locked row changes its id or its state, and a       *)
(* worker gives up its claims when it marks them.                          *)
LEMMA ClaimStep ==
  TypeOK /\ ClaimExclusive /\ Busy /\ [Next]_vars => ClaimExclusive' /\ Busy'
<1> SUFFICES ASSUME TypeOK, ClaimExclusive, Busy, [Next]_vars
             PROVE  ClaimExclusive' /\ Busy'
  OBVIOUS
<1> USE DEF TypeOK, ClaimExclusive, Busy, Claimed, requestVars
<1>1. ASSUME NEW e \in Entities, Request(e) PROVE ClaimExclusive' /\ Busy'
  <2>1. CASE \E kind \in {"live", "deleted"} : Begin(e, kind)
    BY <2>1 DEF Begin
  <2>2. CASE Stage(e)
    <3>1. [kind |-> tx[e].kind, ver |-> next[e]] \in Doc
      BY DEF Doc, Tx
    <3>2. \A f \in Entities : row[f].id # 0 =>
             row'[f].id = row[f].id /\ row'[f].state = row[f].state
      BY <2>2, <3>1, UpsertedRow DEF Stage
    <3>3. UNCHANGED <<batch, pc>>
      BY <2>2 DEF Stage
    <3>4. QED
      BY <3>2, <3>3
  <2>3. CASE Commit(e)
    BY <2>3 DEF Commit
  <2>4. CASE Abort(e)
    BY <2>4 DEF Abort
  <2>5. CASE Read(e)
    BY <2>5 DEF Read
  <2>6. CASE StageRead(e)
    <3>0. Upserted(e, echo[e]) /\ echo[e] \in Doc
      BY <2>6 DEF StageRead, TypeOK
    <3>1. \A f \in Entities : row[f].id # 0 =>
             row'[f].id = row[f].id /\ row'[f].state = row[f].state
      BY <3>0, UpsertedRow
    <3>2. UNCHANGED <<batch, pc>>
      BY <2>6 DEF StageRead
    <3>3. QED
      BY <3>1, <3>2
  <2>7. QED
    BY <1>1, <2>1, <2>2, <2>3, <2>4, <2>5, <2>6 DEF Request
<1>2. ASSUME NEW w \in Workers, Round(w) PROVE ClaimExclusive' /\ Busy'
  <2>1. CASE SelectNext(w)
    <3>1. PICK C \in SUBSET Open :
             /\ Locked(C)
             /\ batch' = [batch EXCEPT ![w] =
                            [e \in Entities |-> IF e \in C THEN row[e] ELSE NoRow]]
      BY <2>1 DEF SelectNext
    <3>2. Busy'
      BY <2>1, <3>1 DEF SelectNext
    <3>3. ASSUME NEW v \in Workers, NEW e \in Entities, batch'[v][e].id # 0
          PROVE  /\ row'[e].id = batch'[v][e].id
                 /\ row'[e].state = "locked"
                 /\ \A u \in Workers \ {v} : batch'[u][e].id = 0
      <4>1. CASE e \in C
        BY <3>1, <3>3, <4>1 DEF Locked, Open, Row, NoRow
      <4>2. CASE e \notin C
        BY <3>1, <3>3, <4>2 DEF Locked, Row, NoRow
      <4>3. QED
        BY <4>1, <4>2
    <3>4. QED
      BY <3>2, <3>3
  <2>2. CASE SolrUpsert(w)
    BY <2>2 DEF SolrUpsert
  <2>3. CASE MarkProcessed(w)
    BY <2>3 DEF MarkProcessed, Marks, Released, NoClaims, NoRow, Row
  <2>4. CASE MarkReset(w)
    BY <2>4 DEF MarkReset, MarkRows, Marks, Released, NoClaims, NoRow, Row
  <2>5. CASE MarkFailed(w)
    BY <2>5 DEF MarkFailed, MarkRows, Marks, Released, NoClaims, NoRow, Row
  <2>6. CASE Purge(w)
    BY <2>6 DEF Purge
  <2>7. QED
    BY <1>2, <2>1, <2>2, <2>3, <2>4, <2>5, <2>6 DEF Round
<1>3. ASSUME NEW w \in Workers, Fault(w) PROVE ClaimExclusive' /\ Busy'
  <2>1. CASE SolrUpsertFails(w)
    BY <2>1 DEF SolrUpsertFails
  <2>2. CASE MarkFails(w)
    BY <2>2 DEF MarkFails
  <2>3. CASE MarkFailedFails(w)
    BY <2>3 DEF MarkFailedFails, Released, NoClaims, NoRow
  <2>4. CASE PurgeFails(w)
    BY <2>4 DEF PurgeFails
  <2>5. CASE Crash(w)
    BY <2>5 DEF Crash, Released, NoClaims, NoRow
  <2>6. QED
    BY <1>3, <2>1, <2>2, <2>3, <2>4, <2>5 DEF Fault
<1>4. CASE UNCHANGED vars
  BY <1>4 DEF vars
<1>5. QED
  BY <1>1, <1>2, <1>3, <1>4 DEF Next

(* No row is processed by two workers, with any number of workers, any     *)
(* batch size and any faults.                                              *)
THEOREM ExclusiveClaims == Spec => []ClaimExclusive
<1> DEFINE Inv == TypeOK /\ ClaimExclusive /\ Busy
<1>1. Init => Inv
  BY InitIInv DEF IInv
<1>2. Inv /\ [Next]_vars => Inv'
  BY TypeStep, ClaimStep
<1>3. Inv => ClaimExclusive
  OBVIOUS
<1>4. QED
  BY <1>1, <1>2, <1>3, PTL DEF Spec

-----------------------------------------------------------------------------

LEMMA VersionTypes ==
  ASSUME TypeOK, NEW e \in Entities
  PROVE  /\ next[e] \in Nat
         /\ db[e].ver \in Nat
         /\ row[e].doc.ver \in Nat
         /\ index[e].ver \in Nat
         /\ echo[e].ver \in Nat
         /\ \A w \in Workers : batch[w][e].doc.ver \in Nat
BY DEF TypeOK, Row, Doc

(* That there is no document is true of every entity in step with it.      *)
LEMMA NoDocOK ==
  ASSUME TypeOK, TxOK, NEW e \in Entities
  PROVE  DocOK(e, NoDoc)
<1>1. NoDoc.ver = 0 /\ NoDoc.kind = "none"
  BY DEF NoDoc
<1>2. next[e] \in Nat /\ db[e].ver \in Nat
  BY VersionTypes
<1>3. /\ db[e].ver <= next[e]
      /\ db[e].ver = 0 => db[e].kind # "live"
      /\ tx[e].st # "none" => db[e].ver < next[e]
  BY DEF TxOK
<1>4. QED
  BY <1>1, <1>2, <1>3 DEF DocOK

(* Workers move documents and make none: a row keeps its document or goes, *)
(* a batch is copied from rows, the index gets what a batch has or loses a *)
(* deleted document.                                                       *)
WorkerMoves ==
    /\ UNCHANGED <<db, next, tx, echo, echoes, nextId, spoiled>>
    /\ \A e \in Entities : row'[e].doc \in {row[e].doc, NoDoc}
    /\ \A e \in Entities, w \in Workers :
          batch'[w][e].doc \in {batch[w][e].doc, row[e].doc, NoDoc}
    /\ \A e \in Entities :
          \/ index'[e] = index[e]
          \/ \E w \in Workers : e \in Claimed(w) /\ index'[e] = batch[w][e].doc
          \/ /\ index'[e].ver = index[e].ver
             /\ index[e].kind = "deleted" /\ index'[e].kind = "none"

LEMMA WorkerDocs ==
  ASSUME TypeOK, NEW w \in Workers, Round(w) \/ Fault(w)
  PROVE  WorkerMoves
<1> USE DEF WorkerMoves, requestVars
<1>1. CASE SelectNext(w)
  <2>1. PICK C \in SUBSET Entities :
           /\ Locked(C)
           /\ batch' = [batch EXCEPT ![w] =
                          [e \in Entities |-> IF e \in C THEN row[e] ELSE NoRow]]
    BY <1>1 DEF SelectNext, Open
  <2>2. \A e \in Entities : row'[e].doc = row[e].doc
    BY <2>1 DEF Locked, TypeOK, Row
  <2>3. \A e \in Entities, v \in Workers :
           batch'[v][e].doc \in {batch[v][e].doc, row[e].doc, NoDoc}
    BY <2>1 DEF TypeOK, NoRow
  <2>4. UNCHANGED <<db, next, tx, echo, echoes, nextId, spoiled, index>>
    BY <1>1 DEF SelectNext
  <2>5. QED
    BY <2>2, <2>3, <2>4
<1>2. ASSUME Released(w)
      PROVE  \A e \in Entities, v \in Workers :
                batch'[v][e].doc \in {batch[v][e].doc, NoDoc}
  BY <1>2 DEF Released, NoClaims, NoRow, TypeOK
<1>3. ASSUME NEW s, MarkRows(w, s)
      PROVE  \A e \in Entities : row'[e].doc = row[e].doc
  BY <1>3 DEF MarkRows, TypeOK, Row
<1>4. CASE SolrUpsert(w)
  BY <1>4 DEF SolrUpsert, Indexed, TypeOK
<1>5. CASE MarkProcessed(w)
  BY <1>2, <1>5 DEF MarkProcessed, NoRow
<1>6. CASE MarkReset(w)
  BY <1>2, <1>3, <1>6 DEF MarkReset
<1>7. CASE MarkFailed(w)
  BY <1>2, <1>3, <1>7 DEF MarkFailed
<1>8. CASE Purge(w)
  BY <1>8 DEF Purge, TypeOK, Doc
<1>9. CASE SolrUpsertFails(w)
  BY <1>9 DEF SolrUpsertFails, Indexed, TypeOK
<1>10. CASE MarkFails(w)
  BY <1>10 DEF MarkFails
<1>11. CASE MarkFailedFails(w)
  BY <1>2, <1>11 DEF MarkFailedFails
<1>12. CASE PurgeFails(w)
  BY <1>12 DEF PurgeFails
<1>13. CASE Crash(w)
  <2>1. PICK S \in SUBSET Claimed(w) : Indexed(w, S)
    BY <1>13 DEF Crash
  <2>2. QED
    BY <1>2, <1>13, <2>1 DEF Crash, Indexed, TypeOK
<1>14. QED
  BY <1>1, <1>4, <1>5, <1>6, <1>7, <1>8, <1>9, <1>10, <1>11, <1>12, <1>13
     DEF Round, Fault

(* The versions of transactions and documents: a new version is greater    *)
(* than every version in the pipeline, and a document is staged with the   *)
(* version and the kind of its transaction.                                *)
LEMMA VersionStep ==
  TypeOK /\ TxOK /\ DocsOK /\ [Next]_vars => TxOK' /\ DocsOK'
<1> SUFFICES ASSUME TypeOK, TxOK, DocsOK, [Next]_vars
             PROVE  TxOK' /\ DocsOK'
  OBVIOUS
<1> USE DEF requestVars
<1>1. ASSUME NEW e \in Entities, Request(e) PROVE TxOK' /\ DocsOK'
  <2>1. ASSUME NEW kind \in {"live", "deleted"}, Begin(e, kind)
        PROVE  TxOK' /\ DocsOK'
    <3>1. /\ next'[e] = next[e] + 1 /\ tx[e].st = "none" /\ tx'[e].st = "flushed"
          /\ \A f \in Entities \ {e} : next'[f] = next[f] /\ tx'[f] = tx[f]
      BY <2>1 DEF Begin, TypeOK
    <3>2. UNCHANGED <<db, row, index, echo, batch>>
      BY <2>1 DEF Begin
    <3>3. TxOK'
      BY <3>1, <3>2, VersionTypes DEF TxOK
    <3>4. ASSUME NEW f \in Entities, NEW d \in Doc, DocOK(f, d) PROVE DocOK(f, d)'
      BY <3>1, <3>2, <3>4 DEF DocOK, TypeOK, Doc
    <3>5. QED
      BY <3>2, <3>3, <3>4 DEF DocsOK, TypeOK, Row
  <2>2. CASE Stage(e)
    <3>1. PICK d \in Doc : d = [kind |-> tx[e].kind, ver |-> next[e]]
      BY DEF TypeOK, Doc, Tx
    <3>2. row'[e].doc = d /\ \A f \in Entities \ {e} : row'[f] = row[f]
      BY <2>2, <3>1, UpsertedRow DEF Stage
    <3>3. /\ tx[e].st = "flushed"
          /\ tx'[e] = [st |-> "staged", kind |-> tx[e].kind]
          /\ \A f \in Entities \ {e} : tx'[f] = tx[f]
      BY <2>2 DEF Stage, TypeOK, Tx
    <3>4. UNCHANGED <<db, next, index, echo, batch>>
      BY <2>2 DEF Stage
    <3>5. TxOK'
      BY <3>3, <3>4 DEF TxOK, TypeOK, Doc
    <3>6. ASSUME NEW f \in Entities, NEW c \in Doc, DocOK(f, c) PROVE DocOK(f, c)'
      <4>1. CASE f = e
        <5>1. c.ver < next[e] /\ c.ver \in Nat
          BY <3>3, <3>6, <4>1 DEF DocOK, Doc
        <5>2. QED
          BY <3>3, <3>4, <3>6, <4>1, <5>1, VersionTypes DEF DocOK
      <4>2. CASE f # e
        BY <3>3, <3>4, <3>6, <4>2 DEF DocOK
      <4>3. QED
        BY <4>1, <4>2
    <3>7. DocOK(e, d)'
      BY <3>1, <3>3, <3>4, VersionTypes DEF DocOK, TxOK
    <3>8. ASSUME NEW f \in Entities
          PROVE  /\ DocOK(f, row[f].doc)'
                 /\ DocOK(f, index[f])'
                 /\ DocOK(f, echo[f])'
                 /\ \A w \in Workers : DocOK(f, batch[w][f].doc)'
      <4>1. row[f].doc \in Doc /\ DocOK(f, row[f].doc)
        BY DEF DocsOK, TypeOK, Row
      <4>2. DocOK(f, row[f].doc)'
        <5>1. CASE f = e
          BY <3>2, <3>7, <5>1 DEF DocOK
        <5>2. CASE f # e
          BY <3>2, <3>6, <4>1, <5>2 DEF DocOK
        <5>3. QED
          BY <5>1, <5>2
      <4>3. /\ index[f] \in Doc /\ DocOK(f, index[f])
            /\ echo[f] \in Doc /\ DocOK(f, echo[f])
            /\ \A w \in Workers :
                  batch[w][f].doc \in Doc /\ DocOK(f, batch[w][f].doc)
        BY DEF DocsOK, TypeOK, Row
      <4>4. QED
        BY <3>4, <3>6, <4>2, <4>3 DEF DocOK
    <3>9. QED
      BY <3>5, <3>8 DEF DocsOK
  <2>3. CASE Commit(e)
    <3>1. /\ tx[e].st = "staged" /\ tx'[e].st = "none"
          /\ db'[e].ver = next[e]
          /\ db'[e].kind = "live" <=> tx[e].kind = "live"
          /\ \A f \in Entities \ {e} : db'[f] = db[f] /\ tx'[f] = tx[f]
      BY <2>3 DEF Commit, NoTx, TypeOK
    <3>2. UNCHANGED <<next, row, index, echo, batch>>
      BY <2>3 DEF Commit
    <3>3. TxOK'
      BY <3>1, <3>2, VersionTypes DEF TxOK
    <3>4. ASSUME NEW f \in Entities, NEW d \in Doc, DocOK(f, d) PROVE DocOK(f, d)'
      <4>1. CASE f = e
        <5>1. d.ver <= next[e] /\ d.ver \in Nat /\ next[e] \in Nat
          BY <3>4, <4>1, VersionTypes DEF DocOK, Doc
        <5>2. d.ver = next[e] => (d.kind = "live" <=> tx[e].kind = "live")
          BY <3>1, <3>4, <4>1 DEF DocOK
        <5>3. tx'[e].st = "none" /\ next'[e] = next[e]
          BY <3>1, <3>2
        <5>4. QED
          BY <3>1, <4>1, <5>1, <5>2, <5>3 DEF DocOK
      <4>2. CASE f # e
        BY <3>1, <3>2, <3>4, <4>2 DEF DocOK
      <4>3. QED
        BY <4>1, <4>2
    <3>5. QED
      BY <3>2, <3>3, <3>4 DEF DocsOK, TypeOK, Row
  <2>4. CASE Abort(e)
    <3>1. tx'[e].st = "none" /\ \A f \in Entities \ {e} : tx'[f] = tx[f]
      BY <2>4 DEF Abort, NoTx, TypeOK
    <3>2. UNCHANGED <<db, next, row, index, echo, batch>>
      BY <2>4 DEF Abort
    <3>3. TxOK'
      BY <3>1, <3>2, VersionTypes DEF TxOK
    <3>4. ASSUME NEW f \in Entities, NEW d \in Doc, DocOK(f, d) PROVE DocOK(f, d)'
      BY <3>1, <3>2, <3>4 DEF DocOK, TypeOK, Doc
    <3>5. QED
      BY <3>2, <3>3, <3>4 DEF DocsOK, TypeOK, Row
  <2>5. CASE Read(e)
    <3>1. UNCHANGED <<db, next, tx, row, index, batch>>
      BY <2>5 DEF Read
    <3>2. echo'[e] = db[e] /\ \A f \in Entities \ {e} : echo'[f] = echo[f]
      BY <2>5 DEF Read, TypeOK
    <3>3. DocOK(e, db[e])
      BY DEF DocOK, TypeOK, Doc, TxOK
    <3>4. QED
      BY <3>1, <3>2, <3>3 DEF DocsOK, DocOK, TxOK
  <2>6. CASE StageRead(e)
    <3>1. row'[e].doc = echo[e] /\ \A f \in Entities \ {e} : row'[f] = row[f]
      BY <2>6, UpsertedRow DEF StageRead, TypeOK
    <3>2. UNCHANGED <<next, tx, db, index, batch>>
      BY <2>6 DEF StageRead
    <3>3. echo'[e] = NoDoc /\ \A f \in Entities \ {e} : echo'[f] = echo[f]
      BY <2>6 DEF StageRead, TypeOK
    <3>4. DocOK(e, NoDoc) /\ DocOK(e, echo[e])
      BY NoDocOK DEF DocsOK
    <3>5. QED
      BY <3>1, <3>2, <3>3, <3>4 DEF DocsOK, DocOK, TxOK
  <2>7. QED
    BY <1>1, <2>1, <2>2, <2>3, <2>4, <2>5, <2>6 DEF Request
<1>2. ASSUME NEW v \in Workers, Round(v) \/ Fault(v)
      PROVE  TxOK' /\ DocsOK'
  <2>1. WorkerMoves
    BY <1>2, WorkerDocs
  <2>2. TxOK'
    BY <2>1 DEF TxOK, WorkerMoves
  <2>3. ASSUME NEW e \in Entities
        PROVE  /\ DocOK(e, row[e].doc)'
               /\ DocOK(e, echo[e])'
               /\ \A w \in Workers : DocOK(e, batch[w][e].doc)'
    <3>1. UNCHANGED <<db, next, tx, echo>>
      BY <2>1 DEF WorkerMoves
    <3>2. /\ DocOK(e, NoDoc) /\ DocOK(e, row[e].doc) /\ DocOK(e, echo[e])
          /\ \A w \in Workers : DocOK(e, batch[w][e].doc)
      BY NoDocOK DEF DocsOK
    <3>3. DocOK(e, row[e].doc)'
      <4>1. row'[e].doc \in {row[e].doc, NoDoc}
        BY <2>1 DEF WorkerMoves
      <4>2. QED
        BY <3>1, <3>2, <4>1 DEF DocOK
    <3>4. DocOK(e, echo[e])'
      BY <3>1, <3>2 DEF DocOK
    <3>5. ASSUME NEW w \in Workers PROVE DocOK(e, batch[w][e].doc)'
      <4>1. batch'[w][e].doc \in {batch[w][e].doc, row[e].doc, NoDoc}
        BY <2>1 DEF WorkerMoves
      <4>2. QED
        BY <3>1, <3>2, <4>1 DEF DocOK
    <3>6. QED
      BY <3>3, <3>4, <3>5
  <2>4. ASSUME NEW e \in Entities PROVE DocOK(e, index[e])'
    BY <2>1 DEF DocsOK, DocOK, WorkerMoves
  <2>5. QED
    BY <2>2, <2>3, <2>4 DEF DocsOK
<1>3. CASE UNCHANGED vars
  BY <1>3 DEF vars, TxOK, DocsOK, DocOK
<1>4. QED
  BY <1>1, <1>2, <1>3 DEF Next

-----------------------------------------------------------------------------

(* What Ordered and Reaching say of one entity.                            *)
OrderedAt(e) ==
    /\ row[e].id # 0 => index[e].ver <= row[e].doc.ver
    /\ \A w \in Workers : e \in Claimed(w) =>
          /\ batch[w][e].doc = row[e].doc
          /\ pc[w] = "processed" => index[e].ver >= row[e].doc.ver

ReachingAt(e) ==
    /\ Reached(e, db[e].ver)
    /\ tx[e].st = "staged" => Reached(e, next[e])

LEMMA PerEntity ==
  /\ Ordered <=> \A e \in Entities : spoiled[e] \/ OrderedAt(e)
  /\ Reaching <=> \A e \in Entities : spoiled[e] \/ ReachingAt(e)
BY DEF Ordered, OrderedAt, Reaching, ReachingAt

(* A request keeps the order of versions: what it stages on a row nobody   *)
(* holds is the newest version, or else e is spoiled.                      *)
LEMMA RequestOrder ==
  ASSUME TypeOK, ClaimExclusive, TxOK, DocsOK, Ordered, Reaching,
         NEW e \in Entities, Request(e),
         NEW f \in Entities, ~spoiled'[f]
  PROVE  OrderedAt(f)' /\ ReachingAt(f)'
<1> USE DEF requestVars
<1>1. /\ next[f] \in Nat /\ db[f].ver \in Nat /\ index[f].ver \in Nat
      /\ row[f].doc.ver \in Nat /\ echo[f].ver \in Nat
  BY VersionTypes
<1>2. ASSUME UNCHANGED <<row[f], index[f], db[f], next[f], tx[f].st, batch, pc>>,
             ~spoiled[f]
      PROVE  OrderedAt(f)' /\ ReachingAt(f)'
  BY <1>2, PerEntity DEF OrderedAt, ReachingAt, Reached, Claimed
<1>3. CASE \E kind \in {"live", "deleted"} : Begin(e, kind)
  <2>1. UNCHANGED <<row, index, db, batch, pc, spoiled>> /\ tx'[e].st # "staged"
    BY <1>3 DEF Begin, TypeOK
  <2>2. CASE f = e
    BY <2>1, <2>2, PerEntity DEF OrderedAt, ReachingAt, Reached, Claimed
  <2>3. CASE f # e
    BY <1>2, <1>3, <2>1, <2>3 DEF Begin, TypeOK
  <2>4. QED
    BY <2>2, <2>3
<1>4. CASE Stage(e)
  <2>1. PICK d \in Doc : d = [kind |-> tx[e].kind, ver |-> next[e]]
    BY DEF TypeOK, Doc, Tx
  <2>2. Upserted(e, d) /\ UNCHANGED <<db, next, index, batch, pc>>
    BY <1>4, <2>1 DEF Stage
  <2>3. /\ row'[e].doc = d /\ row'[e].id # 0
        /\ \A g \in Entities \ {e} : row'[g] = row[g]
    BY <2>2, UpsertedRow
  <2>4. CASE f = e
    <3>1. row[e].state # "locked"
      BY <1>4, <2>4 DEF Stage, TypeOK
    <3>2. \A w \in Workers : e \notin Claimed(w)
      BY <3>1 DEF ClaimExclusive
    <3>3. index[e].ver <= next[e] /\ db[e].ver <= next[e]
      BY DEF DocsOK, DocOK, TxOK
    <3>4. d.ver = next[e]
      BY <2>1
    <3>5. QED
      BY <1>1, <2>2, <2>3, <2>4, <3>2, <3>3, <3>4
         DEF OrderedAt, ReachingAt, Reached, Claimed
  <2>5. CASE f # e
    BY <1>2, <1>4, <2>2, <2>3, <2>5 DEF Stage, TypeOK
  <2>6. QED
    BY <2>4, <2>5
<1>5. CASE Commit(e)
  <2>1. /\ UNCHANGED <<row, index, next, batch, pc, spoiled>>
        /\ tx[e].st = "staged" /\ tx'[e].st = "none" /\ db'[e].ver = next[e]
    BY <1>5 DEF Commit, TypeOK, NoTx
  <2>2. CASE f = e
    BY <2>1, <2>2, PerEntity DEF OrderedAt, ReachingAt, Reached, Claimed
  <2>3. CASE f # e
    BY <1>2, <1>5, <2>1, <2>3 DEF Commit, TypeOK
  <2>4. QED
    BY <2>2, <2>3
<1>6. CASE Abort(e)
  <2>1. /\ UNCHANGED <<row, index, next, db, batch, pc, spoiled>>
        /\ tx'[e].st = "none"
    BY <1>6 DEF Abort, TypeOK, NoTx
  <2>2. CASE f = e
    BY <2>1, <2>2, PerEntity DEF OrderedAt, ReachingAt, Reached, Claimed
  <2>3. CASE f # e
    BY <1>2, <1>6, <2>1, <2>3 DEF Abort, TypeOK
  <2>4. QED
    BY <2>2, <2>3
<1>7. CASE Read(e)
  BY <1>2, <1>7 DEF Read
<1>8. CASE StageRead(e)
  <2>1. Upserted(e, echo[e]) /\ UNCHANGED <<db, next, tx, index, batch, pc>>
    BY <1>8 DEF StageRead
  <2>2. /\ row'[e].doc = echo[e] /\ row'[e].id # 0
        /\ \A g \in Entities \ {e} : row'[g] = row[g]
    BY <2>1, UpsertedRow DEF TypeOK
  <2>3. CASE f = e
    <3>1. /\ ~spoiled[e] /\ row[e].state # "locked"
          /\ ~(echo[e].ver < row[e].doc.ver)
          /\ ~(echo[e].ver < index[e].ver)
      BY <1>8, <2>3 DEF StageRead, TypeOK
    <3>2. \A w \in Workers : e \notin Claimed(w)
      BY <3>1 DEF ClaimExclusive
    <3>3. ReachingAt(e)
      BY <3>1, PerEntity
    <3>4. QED
      BY <1>1, <2>1, <2>2, <2>3, <3>1, <3>2, <3>3
         DEF OrderedAt, ReachingAt, Reached, Claimed
  <2>4. CASE f # e
    BY <1>2, <1>8, <2>1, <2>2, <2>4 DEF StageRead, TypeOK
  <2>5. QED
    BY <2>3, <2>4
<1>9. QED
  BY <1>3, <1>4, <1>5, <1>6, <1>7, <1>8 DEF Request

(* A worker keeps it too: as long as e is not spoiled the worker's copy is *)
(* what the row says, so the index moves forward to it and the row may go. *)
LEMMA WorkerOrder ==
  ASSUME TypeOK, ClaimExclusive, Busy, Ordered, Reaching,
         NEW w \in Workers, Round(w) \/ Fault(w),
         NEW e \in Entities, ~spoiled[e]
  PROVE  /\ OrderedAt(e)' /\ ReachingAt(e)'
         /\ index'[e].ver >= index[e].ver
<1> USE DEF requestVars
<1>1. /\ next[e] \in Nat /\ db[e].ver \in Nat /\ index[e].ver \in Nat
      /\ row[e].doc.ver \in Nat
  BY VersionTypes
<1>2. OrderedAt(e) /\ ReachingAt(e)
  BY PerEntity
<1>3. UNCHANGED <<db, next, tx>>
  BY WorkerDocs DEF WorkerMoves
<1>4. ASSUME e \in Claimed(w)
      PROVE  /\ row[e].id # 0 /\ row[e].id = batch[w][e].id
             /\ row[e].state = "locked" /\ batch[w][e].doc = row[e].doc
             /\ \A v \in Workers \ {w} : e \notin Claimed(v)
  BY <1>2, <1>4 DEF ClaimExclusive, OrderedAt, Claimed
<1>5. ASSUME row'[e].id = row[e].id, row'[e].doc = row[e].doc,
             index'[e] = index[e] \/ index'[e].ver = index[e].ver,
             \A v \in Workers :
                /\ e \in Claimed(v)' =>
                      e \in Claimed(v) /\ batch'[v][e] = batch[v][e]
                /\ pc'[v] = "processed" => pc[v] = "processed" \/ e \notin Claimed(v)'
      PROVE  /\ OrderedAt(e)' /\ ReachingAt(e)'
             /\ index'[e].ver >= index[e].ver
  BY <1>1, <1>2, <1>3, <1>5 DEF OrderedAt, ReachingAt, Reached
<1>6. ASSUME Released(w)
      PROVE  \A v \in Workers : e \in Claimed(v)' =>
                v # w /\ e \in Claimed(v) /\ batch'[v][e] = batch[v][e]
  BY <1>6 DEF Released, NoClaims, NoRow, Claimed, TypeOK
<1>7. ASSUME NEW s, MarkRows(w, s)
      PROVE  row'[e].id = row[e].id /\ row'[e].doc = row[e].doc
  BY <1>7 DEF MarkRows, TypeOK, Row
(* The index moves to what w holds.                                        *)
<1>8. ASSUME UNCHANGED row, e \in Claimed(w), index'[e] = batch[w][e].doc,
             \A v \in Workers : e \in Claimed(v)' =>
                v = w /\ batch'[v][e] = batch[v][e]
      PROVE  /\ OrderedAt(e)' /\ ReachingAt(e)'
             /\ index'[e].ver >= index[e].ver
  BY <1>1, <1>2, <1>3, <1>4, <1>8 DEF OrderedAt, ReachingAt, Reached
<1>9. CASE SelectNext(w)
  <2>1. PICK C \in SUBSET Open :
           /\ Locked(C)
           /\ batch' = [batch EXCEPT ![w] =
                          [f \in Entities |-> IF f \in C THEN row[f] ELSE NoRow]]
    BY <1>9 DEF SelectNext
  <2>2. pc' = [pc EXCEPT ![w] = "upsert"] /\ UNCHANGED index
    BY <1>9 DEF SelectNext
  <2>3. row'[e].id = row[e].id /\ row'[e].doc = row[e].doc
    BY <2>1 DEF Locked, TypeOK, Row
  <2>4. \A v \in Workers : e \in Claimed(v)' =>
           \/ v = w /\ batch'[v][e] = row[e] /\ pc'[v] # "processed"
           \/ v # w /\ e \in Claimed(v) /\ batch'[v][e] = batch[v][e] /\ pc'[v] = pc[v]
    BY <2>1, <2>2 DEF Claimed, NoRow, TypeOK
  <2>5. QED
    BY <1>1, <1>2, <1>3, <2>2, <2>3, <2>4 DEF OrderedAt, ReachingAt, Reached
<1>10. ASSUME UNCHANGED <<row, batch>>, NEW S \in SUBSET Claimed(w), Indexed(w, S),
              e \in S \/ pc'[w] # "processed",
              \A v \in Workers \ {w} : pc'[v] = pc[v]
       PROVE  /\ OrderedAt(e)' /\ ReachingAt(e)'
              /\ index'[e].ver >= index[e].ver
  <2>1. CASE e \in S
    BY <1>4, <1>8, <1>10, <2>1 DEF Indexed, Claimed
  <2>2. CASE e \notin S
    BY <1>5, <1>10, <2>2 DEF Indexed, Claimed
  <2>3. QED
    BY <2>1, <2>2
<1>11. CASE SolrUpsert(w)
  <2>1. CASE e \in Claimed(w)
    BY <1>10, <1>11, <2>1 DEF SolrUpsert, TypeOK
  <2>2. CASE e \notin Claimed(w)
    BY <1>5, <1>11, <2>2 DEF SolrUpsert, Indexed, Claimed, TypeOK
  <2>3. QED
    BY <2>1, <2>2
<1>12. CASE SolrUpsertFails(w)
  BY <1>10, <1>12 DEF SolrUpsertFails, TypeOK
<1>13. CASE MarkProcessed(w)
  <2>1. /\ pc[w] = "processed" /\ Released(w) /\ UNCHANGED index
        /\ row'[e] = IF Marks(w, e) THEN NoRow ELSE row[e]
        /\ \A v \in Workers \ {w} : pc'[v] = pc[v]
        /\ pc'[w] # "processed"
    BY <1>13 DEF MarkProcessed, TypeOK
  <2>2. CASE Marks(w, e)
    <3>1. e \in Claimed(w) /\ row'[e].id = 0
      BY <2>1, <2>2 DEF Marks, Claimed, NoRow
    <3>2. index[e].ver >= row[e].doc.ver
      BY <1>2, <2>1, <3>1 DEF OrderedAt
    <3>3. \A v \in Workers : e \notin Claimed(v)'
      BY <1>4, <1>6, <2>1, <3>1
    <3>4. QED
      BY <1>1, <1>2, <1>3, <2>1, <3>1, <3>2, <3>3
         DEF OrderedAt, ReachingAt, Reached
  <2>3. CASE ~Marks(w, e)
    BY <1>5, <1>6, <2>1, <2>3
  <2>4. QED
    BY <2>2, <2>3
<1>14. CASE MarkReset(w)
  BY <1>5, <1>6, <1>7, <1>14 DEF MarkReset, TypeOK
<1>15. CASE MarkFailed(w)
  BY <1>5, <1>6, <1>7, <1>15 DEF MarkFailed, TypeOK
<1>16. CASE Purge(w)
  BY <1>5, <1>16 DEF Purge, TypeOK, Doc, Claimed
<1>17. CASE MarkFails(w)
  BY <1>5, <1>17 DEF MarkFails, TypeOK, Claimed
<1>18. CASE MarkFailedFails(w)
  BY <1>5, <1>6, <1>18 DEF MarkFailedFails, TypeOK
<1>19. CASE PurgeFails(w)
  BY <1>5, <1>19 DEF PurgeFails, TypeOK, Claimed
<1>20. CASE Crash(w)
  <2>1. PICK S \in SUBSET Claimed(w) : Indexed(w, S)
    BY <1>20 DEF Crash
  <2>2. Released(w) /\ UNCHANGED row /\ pc' = [pc EXCEPT ![w] = "idle"]
    BY <1>20 DEF Crash
  <2>3. CASE e \in S
    <3>1. \A v \in Workers : e \notin Claimed(v)'
      BY <1>4, <1>6, <2>2, <2>3
    <3>2. QED
      BY <1>8, <2>1, <2>2, <2>3, <3>1 DEF Indexed
  <2>4. CASE e \notin S
    BY <1>5, <1>6, <2>1, <2>2, <2>4 DEF Indexed, TypeOK
  <2>5. QED
    BY <2>3, <2>4
<1>21. QED
  BY <1>9, <1>11, <1>12, <1>13, <1>14, <1>15, <1>16, <1>17, <1>18, <1>19, <1>20
     DEF Round, Fault

-----------------------------------------------------------------------------

LEMMA RowsStep == TypeOK /\ RowsOK /\ [Next]_vars => RowsOK'
<1> SUFFICES ASSUME TypeOK, RowsOK, [Next]_vars, NEW f \in Entities
             PROVE  row'[f].state = "none" <=> row'[f].id = 0
  BY DEF RowsOK
<1> USE DEF requestVars
<1>1. row[f].state = "none" <=> row[f].id = 0
  BY DEF RowsOK
<1>2. CASE UNCHANGED row
  BY <1>1, <1>2
<1>3. ASSUME NEW e \in Entities, Request(e)
      PROVE  row'[f].state = "none" <=> row'[f].id = 0
  <2>1. ASSUME NEW d \in Doc, Upserted(e, d)
        PROVE  row'[f].state = "none" <=> row'[f].id = 0
    <3>1. CASE row[e].id = 0
      BY <1>1, <2>1, <3>1 DEF Upserted, TypeOK
    <3>2. CASE row[e].id # 0
      BY <1>1, <2>1, <3>2, UpsertedRow
    <3>3. QED
      BY <3>1, <3>2
  <2>2. [kind |-> tx[e].kind, ver |-> next[e]] \in Doc /\ echo[e] \in Doc
    BY DEF TypeOK, Doc, Tx
  <2>3. QED
    BY <1>2, <1>3, <2>1, <2>2
       DEF Request, Begin, Stage, Commit, Abort, Read, StageRead
<1>4. ASSUME NEW w \in Workers, Round(w) \/ Fault(w)
      PROVE  row'[f].state = "none" <=> row'[f].id = 0
  <2>1. ASSUME NEW C, C \subseteq Open, Locked(C)
        PROVE  row'[f].state = "none" <=> row'[f].id = 0
    BY <1>1, <2>1 DEF Locked, Open, TypeOK, Row
  <2>2. ASSUME NEW s \in {"open", "failed"}, MarkRows(w, s)
        PROVE  row'[f].state = "none" <=> row'[f].id = 0
    BY <1>1, <2>2 DEF MarkRows, Marks, TypeOK, Row
  <2>3. CASE MarkProcessed(w)
    BY <1>1, <2>3 DEF MarkProcessed, NoRow
  <2>4. CASE SelectNext(w)
    BY <2>1, <2>4 DEF SelectNext
  <2>5. QED
    BY <1>2, <1>4, <2>2, <2>3, <2>4
       DEF Round, Fault, SolrUpsert, MarkReset, MarkFailed, Purge,
           SolrUpsertFails, MarkFails, MarkFailedFails, PurgeFails, Crash
<1>5. QED
  BY <1>2, <1>3, <1>4 DEF Next, vars

(* Without a fault a worker drops its claims only when it marks the rows.  *)
LEMMA OrphanStep ==
  TypeOK /\ ClaimExclusive /\ RowsOK /\ Busy /\ OrphansNeedFault /\ [Next]_vars
     => OrphansNeedFault'
<1> SUFFICES ASSUME TypeOK, ClaimExclusive, RowsOK, Busy, OrphansNeedFault,
                    [Next]_vars,
                    NEW f \in Entities, row'[f].state = "locked", ~(faults' > 0)
             PROVE  \E v \in Workers : f \in Claimed(v)'
  BY DEF OrphansNeedFault
<1> USE DEF requestVars
<1>1. ASSUME row[f].state = "locked", UNCHANGED faults
      PROVE  \E v \in Workers : f \in Claimed(v)
  BY <1>1 DEF OrphansNeedFault
<1>2. ASSUME NEW e \in Entities, Request(e)
      PROVE  \E v \in Workers : f \in Claimed(v)'
  <2>1. UNCHANGED <<faults, batch>>
    BY <1>2 DEF Request, Begin, Stage, Commit, Abort, Read, StageRead
  <2>2. row[f].state = "locked"
    <3>1. CASE UNCHANGED row
      BY <3>1
    <3>2. ASSUME NEW d \in Doc, Upserted(e, d) PROVE row[f].state = "locked"
      BY <3>2, UpsertedRow
    <3>3. [kind |-> tx[e].kind, ver |-> next[e]] \in Doc /\ echo[e] \in Doc
      BY DEF TypeOK, Doc, Tx
    <3>4. QED
      BY <1>2, <3>1, <3>2, <3>3
         DEF Request, Begin, Stage, Commit, Abort, Read, StageRead
  <2>3. QED
    BY <1>1, <2>1, <2>2 DEF Claimed
<1>3. ASSUME NEW w \in Workers, Fault(w) PROVE faults' > 0
  BY <1>3 DEF Fault, SolrUpsertFails, MarkFails, MarkFailedFails, PurgeFails,
              Crash, TypeOK
<1>4. ASSUME NEW w \in Workers, Round(w)
      PROVE  \E v \in Workers : f \in Claimed(v)'
  <2>1. UNCHANGED faults
    BY <1>4 DEF Round, SelectNext, SolrUpsert, MarkProcessed, MarkReset,
                MarkFailed, Purge
  <2>2. CASE SelectNext(w)
    <3>1. PICK C \in SUBSET Open :
             /\ Locked(C)
             /\ batch' = [batch EXCEPT ![w] =
                            [e \in Entities |-> IF e \in C THEN row[e] ELSE NoRow]]
      BY <2>2 DEF SelectNext
    <3>2. pc[w] = "idle"
      BY <2>2 DEF SelectNext
    <3>3. CASE f \in C
      <4>1. batch'[w][f] = row[f]
        BY <3>1, <3>3 DEF TypeOK
      <4>2. row[f].id # 0
        BY <3>1, <3>3 DEF Open, RowsOK
      <4>3. QED
        BY <4>1, <4>2 DEF Claimed
    <3>4. CASE f \notin C
      <4>1. row[f].state = "locked"
        BY <3>1, <3>4 DEF Locked
      <4>2. PICK v \in Workers : f \in Claimed(v)
        BY <1>1, <2>1, <4>1
      <4>3. v # w
        BY <3>2, <4>2 DEF Busy
      <4>4. QED
        BY <3>1, <4>2, <4>3 DEF Claimed, TypeOK
    <3>5. QED
      BY <3>3, <3>4
  <2>3. CASE SolrUpsert(w) \/ Purge(w)
    BY <1>1, <2>3 DEF SolrUpsert, Purge, Claimed
  <2>4. CASE MarkProcessed(w) \/ MarkReset(w) \/ MarkFailed(w)
    <3>1. Released(w)
      BY <2>4 DEF MarkProcessed, MarkReset, MarkFailed
    <3>2. ~Marks(w, f) /\ row'[f] = row[f]
      <4>1. CASE Marks(w, f)
        BY <2>4, <4>1 DEF MarkProcessed, MarkReset, MarkFailed, MarkRows, NoRow,
                          TypeOK, Row
      <4>2. CASE ~Marks(w, f)
        BY <2>4, <4>2 DEF MarkProcessed, MarkReset, MarkFailed, MarkRows
      <4>3. QED
        BY <4>1, <4>2
    <3>3. PICK v \in Workers : f \in Claimed(v)
      BY <1>1, <2>1, <3>2
    <3>4. v # w
      BY <3>2, <3>3 DEF ClaimExclusive, Marks, Claimed
    <3>5. QED
      BY <3>1, <3>3, <3>4 DEF Released, Claimed, TypeOK
  <2>5. QED
    BY <1>4, <2>2, <2>3, <2>4 DEF Round
<1>5. CASE UNCHANGED vars
  BY <1>1, <1>5 DEF vars, Claimed
<1>6. QED
  BY <1>2, <1>3, <1>4, <1>5 DEF Next

(* IInv is inductive.                                                      *)
LEMMA IInvStep == IInv /\ [Next]_vars => IInv'
<1> SUFFICES ASSUME IInv, [Next]_vars PROVE IInv'
  OBVIOUS
<1>1. /\ TypeOK' /\ ClaimExclusive' /\ RowsOK' /\ Busy'
      /\ TxOK' /\ DocsOK' /\ OrphansNeedFault'
  BY TypeStep, ClaimStep, RowsStep, VersionStep, OrphanStep DEF IInv
<1>2. ASSUME NEW f \in Entities, ~spoiled'[f]
      PROVE  OrderedAt(f)' /\ ReachingAt(f)'
  <2>1. ASSUME NEW e \in Entities, Request(e) PROVE OrderedAt(f)' /\ ReachingAt(f)'
    BY <1>2, <2>1, RequestOrder DEF IInv
  <2>2. ASSUME NEW w \in Workers, Round(w) \/ Fault(w)
        PROVE  OrderedAt(f)' /\ ReachingAt(f)'
    <3>1. UNCHANGED spoiled
      BY <2>2, WorkerDocs DEF IInv, WorkerMoves
    <3>2. QED
      BY <1>2, <2>2, <3>1, WorkerOrder DEF IInv
  <2>3. CASE UNCHANGED vars
    <3>1. OrderedAt(f) /\ ReachingAt(f)
      BY <1>2, <2>3, PerEntity DEF IInv, vars
    <3>2. QED
      BY <2>3, <3>1 DEF vars, OrderedAt, ReachingAt, Reached, Claimed
  <2>4. QED
    BY <2>1, <2>2, <2>3 DEF Next
<1>3. Ordered' /\ Reaching'
  BY <1>2 DEF Ordered, OrderedAt, Reaching, ReachingAt
<1>4. QED
  BY <1>1, <1>3 DEF IInv

(* The inductive invariant holds in every reachable state of update_solr   *)
(* and the requests beside it.                                             *)
THEOREM Inductive == Spec => []IInv
BY InitIInv, IInvStep, PTL DEF Spec

(* No committed write is lost between Postgres and Solr except on a row a  *)
(* worker had already copied or under an older document staged later.      *)
THEOREM WritesCovered == Spec => []Covered
<1>1. IInv => Covered
  BY DEF IInv, Reaching, Reached, Covered
<1>2. QED
  BY <1>1, Inductive, PTL

(* A processed entity whose last transaction committed reads in the index  *)
(* as it does in Postgres.                                                 *)
THEOREM IndexInSync == Spec => []InSync
<1>1. IInv => InSync
  <2> SUFFICES ASSUME IInv, NEW e \in Entities, next[e] = db[e].ver,
                      row[e].id = 0, ~spoiled[e]
               PROVE  /\ index[e].ver = db[e].ver
                      /\ index[e].kind = "live" <=> db[e].kind = "live"
    BY DEF InSync
  <2>1. /\ next[e] \in Nat /\ db[e].ver \in Nat /\ index[e].ver \in Nat
    BY VersionTypes DEF IInv
  <2>2. index[e].ver >= db[e].ver
    BY DEF IInv, Reaching, Reached
  <2>3. DocOK(e, index[e])
    BY DEF IInv, DocsOK
  <2>4. index[e].ver = db[e].ver
    BY <2>1, <2>2, <2>3 DEF DocOK
  <2>5. QED
    BY <2>3, <2>4 DEF DocOK
<1>2. QED
  BY <1>1, Inductive, PTL

(* The index of an entity that is not spoiled never goes back, with any    *)
(* number of workers, retries and crashes.                                 *)
THEOREM NoRegression == Spec => IndexNeverRegresses
<1>1. IInv /\ [Next]_vars =>
        [\A e \in Entities : spoiled[e] \/ index'[e].ver >= index[e].ver]_vars
  <2> SUFFICES ASSUME IInv, Next, NEW e \in Entities, ~spoiled[e]
               PROVE  index'[e].ver >= index[e].ver
    OBVIOUS
  <2>1. index[e].ver \in Nat
    BY VersionTypes DEF IInv
  <2>2. ASSUME NEW f \in Entities, Request(f) PROVE UNCHANGED index
    BY <2>2 DEF Request, Begin, Stage, Commit, Abort, Read, StageRead
  <2>3. ASSUME NEW w \in Workers, Round(w) \/ Fault(w)
        PROVE  index'[e].ver >= index[e].ver
    BY <2>3, WorkerOrder DEF IInv
  <2>4. QED
    BY <2>1, <2>2, <2>3 DEF Next
<1>2. QED
  BY <1>1, Inductive, PTL DEF Spec, IndexNeverRegresses

(* A locked row that nobody will unlock is the trace of a fault.           *)
THEOREM NoOrphans == Spec => []OrphansNeedFault
<1>1. IInv => OrphansNeedFault
  BY DEF IInv
<1>2. QED
  BY <1>1, Inductive, PTL

-----------------------------------------------------------------------------
(* The refinement of SearchIndex.                                          *)

IsDoc(d) == d.kind \in {"live", "deleted"} /\ d.ver >= 1

(* Rows and batches hold documents of writes, and what was read to be      *)
(* staged again was committed by then.                                     *)
SourcesOK ==
    \A e \in Entities :
       /\ IF row[e].id = 0 THEN row[e].doc = NoDoc ELSE IsDoc(row[e].doc)
       /\ \A w \in Workers : e \in Claimed(w) => IsDoc(batch[w][e].doc)
       /\ echo[e] # NoDoc => echo[e].kind = "live" /\ echo[e].ver \in 1 .. db[e].ver

LEMMA SourcesRequest ==
  ASSUME TypeOK, TxOK, SourcesOK, NEW e \in Entities, Request(e)
  PROVE  SourcesOK'
<1> USE DEF requestVars
<1>1. next[e] \in Nat /\ \A f \in Entities : db[f].ver \in Nat
  BY VersionTypes
<1>2. ASSUME NEW d \in Doc, IsDoc(d), Upserted(e, d), UNCHANGED <<batch, db>>,
             \A f \in Entities : echo'[f] \in {echo[f], NoDoc}
      PROVE  SourcesOK'
  BY <1>2, UpsertedRow DEF SourcesOK, Claimed
<1>3. CASE \E kind \in {"live", "deleted"} : Begin(e, kind)
  BY <1>3 DEF Begin, SourcesOK, Claimed
<1>4. CASE Stage(e)
  <2>1. next[e] >= 1
    BY <1>1, <1>4 DEF Stage, TxOK
  <2>2. tx[e].kind \in {"live", "deleted"}
    BY DEF TypeOK, Tx
  <2>3. [kind |-> tx[e].kind, ver |-> next[e]] \in Doc
    BY <1>1, <2>2 DEF Doc
  <2>4. IsDoc([kind |-> tx[e].kind, ver |-> next[e]])
    BY <2>1, <2>2 DEF IsDoc
  <2>5. QED
    BY <1>2, <1>4, <2>3, <2>4 DEF Stage
<1>5. CASE Commit(e)
  <2>1. \A f \in Entities : db'[f].ver \in Nat /\ db'[f].ver >= db[f].ver
    BY <1>1, <1>5 DEF Commit, TypeOK, TxOK
  <2>2. UNCHANGED <<row, batch, echo>>
    BY <1>5 DEF Commit
  <2>3. QED
    BY <1>1, <2>1, <2>2 DEF SourcesOK, Claimed
<1>6. CASE Abort(e)
  BY <1>6 DEF Abort, SourcesOK, Claimed
<1>7. CASE Read(e)
  <2>1. db[e].ver >= 1
    BY <1>1, <1>7 DEF Read, TxOK
  <2>2. QED
    BY <1>1, <1>7, <2>1 DEF Read, SourcesOK, Claimed, TypeOK
<1>8. CASE StageRead(e)
  <2>1. echo[e] \in Doc
    BY DEF TypeOK
  <2>2. IsDoc(echo[e])
    BY <1>1, <1>8 DEF StageRead, SourcesOK, IsDoc
  <2>3. \A f \in Entities : echo'[f] \in {echo[f], NoDoc}
    BY <1>8 DEF StageRead, TypeOK
  <2>4. QED
    BY <1>2, <1>8, <2>1, <2>2, <2>3 DEF StageRead
<1>9. QED
  BY <1>3, <1>4, <1>5, <1>6, <1>7, <1>8 DEF Request

LEMMA SourcesWorker ==
  ASSUME TypeOK, RowsOK, SourcesOK, NEW w \in Workers, Round(w) \/ Fault(w)
  PROVE  SourcesOK'
<1> USE DEF requestVars
<1>1. ASSUME UNCHANGED <<echo, db>>,
             \A e \in Entities : \/ row'[e] = NoRow
                                 \/ row'[e].id = row[e].id /\ row'[e].doc = row[e].doc,
             \A v \in Workers, e \in Entities :
                \/ batch'[v][e] \in {batch[v][e], NoRow}
                \/ batch'[v][e] = row[e] /\ row[e].id # 0
      PROVE  SourcesOK'
  <2> SUFFICES ASSUME NEW e \in Entities
               PROVE  /\ IF row'[e].id = 0 THEN row'[e].doc = NoDoc
                         ELSE IsDoc(row'[e].doc)
                      /\ \A v \in Workers : batch'[v][e].id # 0 => IsDoc(batch'[v][e].doc)
    BY <1>1 DEF SourcesOK, Claimed
  <2>1. NoRow.id = 0 /\ NoRow.doc = NoDoc
    BY DEF NoRow
  <2>2. IF row[e].id = 0 THEN row[e].doc = NoDoc ELSE IsDoc(row[e].doc)
    BY DEF SourcesOK
  <2>3. \A v \in Workers : batch[v][e].id # 0 => IsDoc(batch[v][e].doc)
    BY DEF SourcesOK, Claimed
  <2>4. QED
    BY <1>1, <2>1, <2>2, <2>3
<1>2. ASSUME Released(w)
      PROVE  \A v \in Workers, e \in Entities : batch'[v][e] \in {batch[v][e], NoRow}
  BY <1>2 DEF Released, NoClaims, TypeOK
<1>3. ASSUME NEW s, MarkRows(w, s)
      PROVE  \A e \in Entities : row'[e].id = row[e].id /\ row'[e].doc = row[e].doc
  BY <1>3 DEF MarkRows, TypeOK, Row
<1>4. CASE SelectNext(w)
  <2>1. PICK C \in SUBSET Open :
           /\ Locked(C)
           /\ batch' = [batch EXCEPT ![w] =
                          [e \in Entities |-> IF e \in C THEN row[e] ELSE NoRow]]
    BY <1>4 DEF SelectNext
  <2>2. \A e \in Entities : row'[e].id = row[e].id /\ row'[e].doc = row[e].doc
    BY <2>1 DEF Locked, TypeOK, Row
  <2>3. \A e \in C : row[e].id # 0
    BY <2>1 DEF Open, RowsOK
  <2>4. \A v \in Workers, e \in Entities :
           \/ batch'[v][e] \in {batch[v][e], NoRow}
           \/ batch'[v][e] = row[e] /\ row[e].id # 0
    BY <2>1, <2>3 DEF TypeOK
  <2>5. QED
    BY <1>1, <1>4, <2>2, <2>4 DEF SelectNext
<1>5. CASE MarkProcessed(w)
  BY <1>1, <1>2, <1>5 DEF MarkProcessed
<1>6. CASE MarkReset(w)
  BY <1>1, <1>2, <1>3, <1>6 DEF MarkReset
<1>7. CASE MarkFailed(w)
  BY <1>1, <1>2, <1>3, <1>7 DEF MarkFailed
<1>8. CASE MarkFailedFails(w) \/ Crash(w)
  BY <1>1, <1>2, <1>8 DEF MarkFailedFails, Crash
<1>9. CASE SolrUpsert(w) \/ Purge(w) \/ SolrUpsertFails(w) \/ MarkFails(w) \/ PurgeFails(w)
  BY <1>1, <1>9 DEF SolrUpsert, Purge, SolrUpsertFails, MarkFails, PurgeFails
<1>10. QED
  BY <1>4, <1>5, <1>6, <1>7, <1>8, <1>9 DEF Round, Fault

LEMMA SourcesStep ==
  TypeOK /\ RowsOK /\ TxOK /\ SourcesOK /\ [Next]_vars => SourcesOK'
<1>1. TypeOK /\ RowsOK /\ TxOK /\ SourcesOK /\ Next => SourcesOK'
  BY SourcesRequest, SourcesWorker DEF Next
<1>2. SourcesOK /\ UNCHANGED vars => SourcesOK'
  BY DEF vars, SourcesOK, Claimed
<1>3. QED
  BY <1>1, <1>2

IndexInv == IInv /\ SourcesOK

(* What SearchIndex sees of the transactions and of the staging table.     *)
Writing == [e \in Entities |->
              IF tx[e].st = "none" THEN NoDoc
              ELSE [kind |-> tx[e].kind, ver |-> next[e]]]
StagedDocs == [e \in Entities |-> row[e].doc]

LEMMA WritingIs ==
  ASSUME TypeOK, NEW e \in Entities
  PROVE  /\ tx[e].st = "none" <=> Writing[e] = NoDoc
         /\ tx[e].st # "none" =>
               Writing[e] = [kind |-> tx[e].kind, ver |-> next[e]]
<1>1. tx[e].kind # "none"
  BY DEF TypeOK, Tx
<1>2. QED
  BY <1>1 DEF Writing, NoDoc

LEMMA InitMaps == Init => Index!Init
BY DEF Init, Index!Init, Index!NoDoc, NoDoc, NoTx, NoRow

LEMMA BeginMaps ==
  ASSUME IndexInv, NEW e \in Entities, NEW kind \in {"live", "deleted"}, Begin(e, kind)
  PROVE  Index!Begin(e, kind)
<1>1. TypeOK
  BY DEF IndexInv, IInv
<1>2. /\ next' = [next EXCEPT ![e] = @ + 1]
      /\ tx' = [tx EXCEPT ![e] = [st |-> "flushed", kind |-> kind]]
      /\ UNCHANGED <<db, row, index, spoiled>>
  BY DEF Begin
<1>3. Writing' = [Writing EXCEPT ![e] = [kind |-> kind, ver |-> next'[e]]]
  BY <1>1, <1>2 DEF Writing, TypeOK
<1>4. Writing[e] = NoDoc /\ next[e] < MaxVersion /\ (kind = "deleted" => db[e].kind = "live")
  BY <1>1, WritingIs DEF Begin
<1>5. UNCHANGED StagedDocs
  BY <1>2 DEF StagedDocs
<1>6. QED
  BY <1>2, <1>3, <1>4, <1>5 DEF Index!Begin, Index!NoDoc, NoDoc, Writing, StagedDocs

LEMMA AbortMaps ==
  ASSUME IndexInv, NEW e \in Entities, Abort(e)
  PROVE  Index!Abort(e)
<1>1. TypeOK
  BY DEF IndexInv, IInv
<1>2. tx' = [tx EXCEPT ![e] = NoTx] /\ UNCHANGED <<db, next, row, index, spoiled>>
  BY DEF Abort
<1>3. Writing' = [Writing EXCEPT ![e] = NoDoc]
  BY <1>1, <1>2 DEF Writing, TypeOK, NoTx
<1>4. Writing[e] # NoDoc
  BY <1>1, WritingIs DEF Abort
<1>5. UNCHANGED StagedDocs
  BY <1>2 DEF StagedDocs
<1>6. QED
  BY <1>2, <1>3, <1>4, <1>5 DEF Index!Abort, Index!NoDoc, NoDoc, Writing, StagedDocs

(* Reaching is what makes the commit of a staged write one that the index  *)
(* will know of.                                                           *)
LEMMA CommitMaps ==
  ASSUME IndexInv, NEW e \in Entities, Commit(e)
  PROVE  Index!Commit(e)
<1>1. TypeOK /\ Reaching
  BY DEF IndexInv, IInv
<1>2. /\ tx[e].st = "staged"
      /\ db' = [db EXCEPT ![e] = [kind |-> IF tx[e].kind = "live" THEN "live" ELSE "none",
                                  ver |-> next[e]]]
      /\ tx' = [tx EXCEPT ![e] = NoTx]
      /\ UNCHANGED <<next, row, index, spoiled>>
  BY DEF Commit
<1>3. Writing' = [Writing EXCEPT ![e] = NoDoc]
  BY <1>1, <1>2 DEF Writing, TypeOK, NoTx
<1>4. Writing[e] # NoDoc /\ Writing[e] = [kind |-> tx[e].kind, ver |-> next[e]]
  BY <1>1, <1>2, WritingIs
<1>5. spoiled[e] \/ StagedDocs[e].ver >= next[e] \/ index[e].ver >= next[e]
  BY <1>1, <1>2 DEF Reaching, Reached, StagedDocs
<1>6. UNCHANGED StagedDocs
  BY <1>2 DEF StagedDocs
<1>7. db' = [db EXCEPT ![e] = [kind |-> IF Writing[e].kind = "live" THEN "live" ELSE "none",
                              ver |-> Writing[e].ver]]
  BY <1>2, <1>4
<1>8. spoiled[e] \/ StagedDocs[e].ver >= Writing[e].ver \/ index[e].ver >= Writing[e].ver
  BY <1>4, <1>5
<1>9. QED
  BY <1>2, <1>3, <1>4, <1>6, <1>7, <1>8
     DEF Index!Commit, Index!NoDoc, NoDoc, Writing, StagedDocs

LEMMA UpsertMaps ==
  ASSUME TypeOK, NEW e \in Entities, NEW d \in Doc, Upserted(e, d)
  PROVE  StagedDocs' = [StagedDocs EXCEPT ![e] = d]
BY UpsertedRow DEF StagedDocs

(* A locked row has a document.                                            *)
LEMMA LockedIsStaged ==
  ASSUME IndexInv, NEW e \in Entities, row[e].state = "locked"
  PROVE  StagedDocs[e] # NoDoc
<1>1. row[e].id # 0
  BY DEF IndexInv, IInv, RowsOK
<1>2. IsDoc(row[e].doc)
  BY <1>1 DEF IndexInv, SourcesOK
<1>3. QED
  BY <1>2 DEF IsDoc, NoDoc, StagedDocs

LEMMA StageMaps ==
  ASSUME IndexInv, NEW e \in Entities, Stage(e)
  PROVE  Index!Stage(e)
<1>1. TypeOK
  BY DEF IndexInv, IInv
<1>2. /\ tx[e].st = "flushed"
      /\ Upserted(e, [kind |-> tx[e].kind, ver |-> next[e]])
      /\ tx' = [tx EXCEPT ![e].st = "staged"]
      /\ spoiled' = [spoiled EXCEPT ![e] = row[e].state = "locked"]
      /\ UNCHANGED <<db, next, index>>
  BY DEF Stage
<1>3. [kind |-> tx[e].kind, ver |-> next[e]] \in Doc
  BY <1>1 DEF TypeOK, Tx, Doc
<1>4. StagedDocs' = [StagedDocs EXCEPT ![e] = [kind |-> tx[e].kind, ver |-> next[e]]]
  BY <1>1, <1>2, <1>3, UpsertMaps
<1>5. Writing[e] # NoDoc /\ Writing[e] = [kind |-> tx[e].kind, ver |-> next[e]]
  BY <1>1, <1>2, WritingIs
<1>6. UNCHANGED Writing
  BY <1>1, <1>2 DEF Writing, TypeOK, Tx
<1>7. StagedDocs' = [StagedDocs EXCEPT ![e] = Writing[e]]
  BY <1>4, <1>5
<1>8. \E l \in BOOLEAN : (l => StagedDocs[e] # NoDoc) /\ spoiled' = [spoiled EXCEPT ![e] = l]
  BY <1>2, LockedIsStaged
<1>9. QED
  BY <1>2, <1>5, <1>6, <1>7, <1>8
     DEF Index!Stage, Index!Staged, Index!NoDoc, NoDoc, Writing, StagedDocs

(* What was read was committed by then, so it is not newer than the        *)
(* committed version, and older documents are recognised by it.            *)
LEMMA StageReadMaps ==
  ASSUME IndexInv, NEW e \in Entities, StageRead(e)
  PROVE  Index!StageAgain(e)
<1>1. TypeOK /\ DocOK(e, echo[e])
  BY DEF IndexInv, IInv, DocsOK
<1>2. /\ echo[e] # NoDoc
      /\ Upserted(e, echo[e])
      /\ UNCHANGED <<db, next, tx, index>>
  BY DEF StageRead
<1> DEFINE v == echo[e].ver
           l == \/ spoiled[e]
                \/ row[e].state = "locked"
                \/ v < row[e].doc.ver
                \/ v < index[e].ver
<1>3. echo[e] \in Doc /\ v \in Nat /\ row[e].doc.ver \in Nat /\ index[e].ver \in Nat
      /\ db[e].ver \in Nat
  BY <1>1, VersionTypes DEF TypeOK
<1>4. echo[e].kind = "live" /\ v \in 1 .. db[e].ver
  BY <1>2 DEF IndexInv, SourcesOK
<1>5. echo[e] = [kind |-> "live", ver |-> v]
  BY <1>3, <1>4 DEF Doc
<1>6. StagedDocs' = [StagedDocs EXCEPT ![e] = [kind |-> "live", ver |-> v]]
  BY <1>1, <1>2, <1>3, <1>5, UpsertMaps
<1>7. v = db[e].ver => db[e].kind = "live"
  BY <1>1, <1>4 DEF DocOK
<1>8. spoiled' = [spoiled EXCEPT ![e] = l] /\ l \in BOOLEAN
  BY <1>1 DEF StageRead, TypeOK
<1>9. (spoiled[e] \/ v < StagedDocs[e].ver \/ v < index[e].ver) => l
  BY DEF StagedDocs
<1>10. v < row[e].doc.ver => StagedDocs[e] # NoDoc
  BY <1>3 DEF StagedDocs, NoDoc
<1>11. l => (spoiled[e] \/ StagedDocs[e] # NoDoc \/ v < index[e].ver)
  BY <1>10, LockedIsStaged
<1>12. UNCHANGED Writing
  BY <1>2 DEF Writing
<1> HIDE DEF v, l
<1>13. QED
  BY <1>2, <1>4, <1>6, <1>7, <1>8, <1>9, <1>11, <1>12
     DEF Index!StageAgain, Index!Staged, Index!NoDoc, NoDoc, Writing, StagedDocs

(* What a worker sends is what is staged, unless the entity is spoiled.    *)
LEMMA SentIsStaged ==
  ASSUME IndexInv, NEW w \in Workers, NEW e \in Claimed(w)
  PROVE  batch[w][e].doc \in Index!MayShow(e)
<1>1. TypeOK /\ Ordered /\ ClaimExclusive /\ DocOK(e, batch[w][e].doc) /\ e \in Entities
  BY DEF IndexInv, IInv, DocsOK, Claimed
<1> DEFINE d == batch[w][e].doc
<1>2. IsDoc(d)
  BY DEF IndexInv, SourcesOK, Claimed
<1>3. d \in Doc /\ next[e] \in Nat /\ index[e].ver \in Nat /\ row[e].doc.ver \in Nat
      /\ d.ver \in Nat
  BY <1>1, VersionTypes DEF TypeOK, Row
<1>4. d.ver <= next[e] /\ (d.ver = db[e].ver => (d.kind = "live" <=> db[e].kind = "live"))
  BY <1>1 DEF DocOK
<1>5. ASSUME NEW v \in Nat, v <= d.ver
      PROVE  d \in Index!Documents(e, v)
  <2>1. d \in [kind : {"live", "deleted"}, ver : v .. next[e]]
    BY <1>2, <1>3, <1>4, <1>5 DEF Doc, IsDoc
  <2>2. d.ver = Writing[e].ver => d = Writing[e]
    <3> SUFFICES ASSUME d.ver = Writing[e].ver PROVE d = Writing[e]
      OBVIOUS
    <3>1. tx[e].st # "none"
      BY <1>1, <1>2, <1>3 DEF IsDoc, Writing, NoDoc
    <3>2. Writing[e] = [kind |-> tx[e].kind, ver |-> next[e]]
      BY <1>1, <3>1, WritingIs
    <3>3. d.ver = next[e]
      BY <3>2
    <3>4. tx[e].st = "staged" /\ (d.kind = "live" <=> tx[e].kind = "live")
      BY <1>1, <1>3, <3>1, <3>3 DEF DocOK, TypeOK, Tx
    <3>5. d.kind = tx[e].kind
      BY <1>1, <1>2, <1>3, <3>4 DEF IsDoc, TypeOK, Tx, Doc
    <3>6. QED
      BY <1>3, <3>2, <3>3, <3>5 DEF Doc
  <2>3. QED
    BY <1>4, <2>1, <2>2 DEF Index!Documents, Writing
<1>6. CASE spoiled[e]
  <2>1. d \in Index!Documents(e, 1)
    BY <1>2, <1>3, <1>5 DEF IsDoc
  <2>2. QED
    BY <1>6, <2>1 DEF Index!MayShow
<1>7. CASE ~spoiled[e]
  <2>1. d = row[e].doc
    BY <1>1, <1>7 DEF Ordered
  <2>2. row[e].id # 0
    BY <1>1 DEF ClaimExclusive, Claimed
  <2>3. index[e].ver <= d.ver
    BY <1>1, <1>7, <2>1, <2>2 DEF Ordered
  <2>4. d \in Index!Documents(e, index[e].ver)
    BY <1>3, <1>5, <2>3
  <2>5. d = StagedDocs[e]
    BY <1>1, <2>1 DEF StagedDocs
  <2>6. QED
    BY <1>7, <2>4, <2>5 DEF Index!MayShow, StagedDocs
<1>8. QED
  BY <1>6, <1>7

(* Any part of a batch arriving in Solr is a step of the index.            *)
LEMMA IndexedMaps ==
  ASSUME IndexInv, NEW w \in Workers, NEW S \in SUBSET Claimed(w), Indexed(w, S),
         UNCHANGED <<db, next, tx, row, spoiled>>
  PROVE  Index!Show
<1>1. \A e \in Entities : index'[e] \in {index[e]} \cup Index!MayShow(e)
  BY SentIsStaged DEF Indexed, Claimed
<1>2. index' = [e \in Entities |-> index'[e]]
  BY DEF Indexed
<1>3. index' \in [Entities -> UNION {{index[e]} \cup Index!MayShow(e) : e \in Entities}]
  BY <1>1, <1>2
<1>4. UNCHANGED <<Writing, StagedDocs>>
  BY DEF Writing, StagedDocs
<1>5. QED
  BY <1>1, <1>3, <1>4 DEF Index!Show, Writing, StagedDocs

(* Rows leave the table when the index has them: the worker that removes a *)
(* row has claimed and sent it.                                            *)
LEMMA ProcessedMaps ==
  ASSUME IndexInv, NEW w \in Workers, MarkProcessed(w)
  PROVE  Index!Unstage
<1>1. TypeOK /\ Ordered
  BY DEF IndexInv, IInv
<1> DEFINE S == {e \in Entities : Marks(w, e)}
<1>2. /\ pc[w] = "processed"
      /\ row' = [e \in Entities |-> IF Marks(w, e) THEN NoRow ELSE row[e]]
      /\ UNCHANGED <<db, next, tx, index, spoiled>>
  BY DEF MarkProcessed, requestVars
<1>3. \A e \in S : spoiled[e] \/ index[e].ver >= StagedDocs[e].ver
  BY <1>1, <1>2 DEF Ordered, Marks, Claimed, StagedDocs
<1>4. StagedDocs' = [e \in Entities |-> IF e \in S THEN NoDoc ELSE StagedDocs[e]]
  BY <1>2 DEF StagedDocs, NoRow
<1>5. UNCHANGED Writing
  BY <1>2 DEF Writing
<1>6. S \in SUBSET Entities
  OBVIOUS
<1> HIDE DEF S
<1>7. QED
  BY <1>2, <1>3, <1>4, <1>5, <1>6 DEF Index!Unstage, Index!NoDoc, NoDoc, Writing, StagedDocs

(* Everything else a worker does is invisible.                             *)
LEMMA WorkerMaps ==
  ASSUME IndexInv, NEW w \in Workers, Round(w) \/ Fault(w)
  PROVE  \/ Index!Show \/ Index!Unstage \/ Index!Purge
         \/ UNCHANGED <<db, next, Writing, StagedDocs, index, spoiled>>
<1> USE DEF requestVars
<1>1. TypeOK
  BY DEF IndexInv, IInv
<1>2. ASSUME \A e \in Entities : row'[e].doc = row[e].doc,
             UNCHANGED <<db, next, tx, index, spoiled>>
      PROVE  UNCHANGED <<db, next, Writing, StagedDocs, index, spoiled>>
  BY <1>2 DEF Writing, StagedDocs
<1>3. ASSUME NEW s, MarkRows(w, s)
      PROVE  \A e \in Entities : row'[e].doc = row[e].doc
  BY <1>1, <1>3 DEF MarkRows, TypeOK, Row
<1>4. CASE SelectNext(w)
  <2>1. PICK C : Locked(C)
    BY <1>4 DEF SelectNext
  <2>2. \A e \in Entities : row'[e].doc = row[e].doc
    BY <1>1, <2>1 DEF Locked, TypeOK, Row
  <2>3. QED
    BY <1>2, <1>4, <2>2 DEF SelectNext
<1>5. CASE SolrUpsert(w)
  BY <1>5, IndexedMaps DEF SolrUpsert
<1>6. CASE SolrUpsertFails(w)
  BY <1>6, IndexedMaps DEF SolrUpsertFails
<1>7. CASE Crash(w)
  <2>1. PICK S \in SUBSET Claimed(w) : Indexed(w, S)
    BY <1>7 DEF Crash
  <2>2. QED
    BY <1>7, <2>1, IndexedMaps DEF Crash
<1>8. CASE MarkProcessed(w)
  BY <1>8, ProcessedMaps
<1>9. CASE MarkReset(w) \/ MarkFailed(w)
  BY <1>2, <1>3, <1>9 DEF MarkReset, MarkFailed
<1>10. CASE MarkFails(w) \/ MarkFailedFails(w) \/ PurgeFails(w)
  BY <1>2, <1>10 DEF MarkFails, MarkFailedFails, PurgeFails
<1>11. CASE Purge(w)
  <2>1. UNCHANGED <<Writing, StagedDocs>>
    BY <1>11 DEF Purge, Writing, StagedDocs
  <2>2. QED
    BY <1>11, <2>1 DEF Purge, Index!Purge, Writing, StagedDocs
<1>12. QED
  BY <1>4, <1>5, <1>6, <1>7, <1>8, <1>9, <1>10, <1>11 DEF Round, Fault

LEMMA RequestMaps ==
  ASSUME IndexInv, NEW e \in Entities, Request(e)
  PROVE  \/ Index!Next
         \/ UNCHANGED <<db, next, Writing, StagedDocs, index, spoiled>>
<1>1. CASE \E kind \in {"live", "deleted"} : Begin(e, kind)
  BY <1>1, BeginMaps DEF Index!Next
<1>2. CASE Stage(e)
  BY <1>2, StageMaps DEF Index!Next
<1>3. CASE Commit(e)
  BY <1>3, CommitMaps DEF Index!Next
<1>4. CASE Abort(e)
  BY <1>4, AbortMaps DEF Index!Next
<1>5. CASE Read(e)
  BY <1>5 DEF Read, Writing, StagedDocs
<1>6. CASE StageRead(e)
  BY <1>6, StageReadMaps DEF Index!Next
<1>7. QED
  BY <1>1, <1>2, <1>3, <1>4, <1>5, <1>6 DEF Request

LEMMA NextMaps ==
  IndexInv /\ [Next]_vars => [Index!Next]_(Index!vars)
<1> SUFFICES ASSUME IndexInv, [Next]_vars
             PROVE  \/ Index!Next
                    \/ UNCHANGED <<db, next, Writing, StagedDocs, index, spoiled>>
  BY DEF Index!vars, Writing, StagedDocs
<1>1. ASSUME NEW e \in Entities, Request(e)
      PROVE  \/ Index!Next
             \/ UNCHANGED <<db, next, Writing, StagedDocs, index, spoiled>>
  BY <1>1, RequestMaps
<1>2. ASSUME NEW w \in Workers, Round(w) \/ Fault(w)
      PROVE  \/ Index!Next
             \/ UNCHANGED <<db, next, Writing, StagedDocs, index, spoiled>>
  BY <1>2, WorkerMaps DEF Index!Next
<1>3. CASE UNCHANGED vars
  BY <1>3 DEF vars, Writing, StagedDocs
<1>4. QED
  BY <1>1, <1>2, <1>3 DEF Next

(* Rows, locks, batches, retries, several workers and crashes are not seen *)
(* from outside: whatever they do is what SearchIndex promises, for any    *)
(* entities, workers, batch size and number of faults.                     *)
THEOREM SyncImplementsIndex == Spec => ImplementsIndex
<1>1. Init => IndexInv /\ Index!Init
  <2>1. Init => SourcesOK
    BY DEF Init, SourcesOK, Claimed, NoClaims, NoRow, NoDoc
  <2>2. QED
    BY <2>1, InitIInv, InitMaps DEF IndexInv
<1>2. IndexInv /\ [Next]_vars => IndexInv'
  BY IInvStep, SourcesStep DEF IndexInv, IInv
<1>3. IndexInv /\ [Next]_vars => [Index!Next]_(Index!vars)
  BY NextMaps
<1>4. QED
  BY <1>1, <1>2, <1>3, PTL DEF Spec, ImplementsIndex, Index!Spec

-----------------------------------------------------------------------------
(* What SearchIndex is worth to readers: its own specification, and so     *)
(* every system that implements it, keeps Agrees.                          *)

(* A document has a version that was taken, and says what the write of     *)
(* that version says.                                                      *)
Says(e, d) ==
    /\ d.ver <= next[e]
    /\ d.ver = db[e].ver => (d.kind = "live" <=> db[e].kind = "live")
    /\ Writing[e] # NoDoc /\ d.ver = Writing[e].ver =>
          (d.kind = "live" <=> Writing[e].kind = "live")

PromiseTypes ==
    /\ db \in [Entities -> Doc]
    /\ next \in [Entities -> Nat]
    /\ Writing \in [Entities -> Doc]
    /\ StagedDocs \in [Entities -> Doc]
    /\ index \in [Entities -> Doc]
    /\ spoiled \in [Entities -> BOOLEAN]

(* What was committed is shown or about to be, unless it is lost.          *)
Promised(e) ==
    /\ db[e].ver <= next[e]
    /\ db[e].ver = 0 => db[e].kind # "live"
    /\ Writing[e] # NoDoc => Writing[e].ver = next[e] /\ db[e].ver < next[e]
    /\ Says(e, index[e])
    /\ Says(e, StagedDocs[e])
    /\ \/ spoiled[e]
       \/ index[e].ver >= db[e].ver
       \/ StagedDocs[e].ver >= db[e].ver

Promise == PromiseTypes /\ \A e \in Entities : Promised(e)

(* The versions of the state, as numbers.                                  *)
LEMMA PromiseVersions ==
  ASSUME PromiseTypes, NEW e \in Entities
  PROVE  /\ next[e] \in Nat
         /\ db[e].ver \in Nat
         /\ Writing[e].ver \in Nat
         /\ StagedDocs[e].ver \in Nat
         /\ index[e].ver \in Nat
<1>1. \A d \in Doc : d.ver \in Nat
  BY DEF Doc
<1>2. QED
  BY <1>1 DEF PromiseTypes

LEMMA PromiseBegin ==
  ASSUME Promise, NEW e \in Entities, NEW kind \in {"live", "deleted"},
         Index!Begin(e, kind)
  PROVE  Promise'
<1>1. /\ Writing[e] = NoDoc
      /\ next' = [next EXCEPT ![e] = @ + 1]
      /\ Writing' = [Writing EXCEPT ![e] = [kind |-> kind, ver |-> next'[e]]]
      /\ UNCHANGED <<db, StagedDocs, index, spoiled>>
  BY DEF Index!Begin, Index!NoDoc, NoDoc, Writing, StagedDocs
<1>2. next[e] \in Nat /\ db[e].ver \in Nat /\ index[e].ver \in Nat
      /\ StagedDocs[e].ver \in Nat
  BY PromiseVersions DEF Promise
<1>3. next'[e] = next[e] + 1
  BY <1>1 DEF Promise, PromiseTypes
<1>4. PromiseTypes'
  <2>1. [kind |-> kind, ver |-> next'[e]] \in Doc
    BY <1>2, <1>3 DEF Doc
  <2>2. QED
    BY <1>1, <1>2, <2>1 DEF Promise, PromiseTypes
<1>5. Writing'[e] = [kind |-> kind, ver |-> next'[e]]
  BY <1>1 DEF Promise, PromiseTypes
<1>6. Promised(e)'
  BY <1>1, <1>2, <1>3, <1>5 DEF Promise, Promised, Says
<1>7. ASSUME NEW f \in Entities \ {e} PROVE Promised(f)'
  <2>1. next'[f] = next[f] /\ Writing'[f] = Writing[f]
    BY <1>1 DEF Promise, PromiseTypes
  <2>2. QED
    BY <1>1, <2>1 DEF Promise, Promised, Says
<1>8. QED
  BY <1>4, <1>6, <1>7 DEF Promise

(* Staging: the new document says what it should, and covers what the one  *)
(* before covered, or the entity is lost.                                  *)
LEMMA PromiseStaged ==
  ASSUME Promise, NEW e \in Entities, NEW d \in Doc, NEW l \in BOOLEAN,
         StagedDocs' = [StagedDocs EXCEPT ![e] = d],
         spoiled' = [spoiled EXCEPT ![e] = l],
         UNCHANGED <<db, next, Writing, index>>,
         Says(e, d),
         l \/ index[e].ver >= db[e].ver \/ d.ver >= db[e].ver
  PROVE  Promise'
<1>1. PromiseTypes'
  BY DEF Promise, PromiseTypes
<1>2. StagedDocs'[e] = d /\ spoiled'[e] = l
  BY DEF Promise, PromiseTypes
<1>3. Promised(e)'
  BY <1>2 DEF Promise, Promised, Says
<1>4. ASSUME NEW f \in Entities \ {e} PROVE Promised(f)'
  <2>1. StagedDocs'[f] = StagedDocs[f] /\ spoiled'[f] = spoiled[f]
    BY DEF Promise, PromiseTypes
  <2>2. QED
    BY <2>1 DEF Promise, Promised, Says
<1>5. QED
  BY <1>1, <1>3, <1>4 DEF Promise

LEMMA PromiseStage ==
  ASSUME Promise, NEW e \in Entities, Index!Stage(e)
  PROVE  Promise'
<1>1. PICK l \in BOOLEAN :
         /\ Writing[e] # NoDoc
         /\ StagedDocs' = [StagedDocs EXCEPT ![e] = Writing[e]]
         /\ spoiled' = [spoiled EXCEPT ![e] = l]
         /\ UNCHANGED <<db, next, Writing, index>>
  BY DEF Index!Stage, Index!Staged, Index!NoDoc, NoDoc, Writing, StagedDocs
<1>2. Writing[e] \in Doc
  BY DEF Promise, PromiseTypes
<1>3. next[e] \in Nat /\ db[e].ver \in Nat
  BY PromiseVersions DEF Promise
<1>4. Says(e, Writing[e]) /\ Writing[e].ver >= db[e].ver
  BY <1>1, <1>3 DEF Promise, Promised, Says
<1>5. QED
  BY <1>1, <1>2, <1>4, PromiseStaged

LEMMA PromiseStageAgain ==
  ASSUME Promise, NEW e \in Entities, Index!StageAgain(e)
  PROVE  Promise'
<1>1. PICK v \in 1 .. db[e].ver, l \in BOOLEAN :
         /\ v = db[e].ver => db[e].kind = "live"
         /\ StagedDocs' = [StagedDocs EXCEPT ![e] = [kind |-> "live", ver |-> v]]
         /\ (spoiled[e] \/ v < StagedDocs[e].ver \/ v < index[e].ver) => l
         /\ spoiled' = [spoiled EXCEPT ![e] = l]
         /\ UNCHANGED <<db, next, Writing, index>>
  BY DEF Index!StageAgain, Index!Staged, Writing, StagedDocs
<1>2. /\ next[e] \in Nat /\ db[e].ver \in Nat /\ v \in Nat
      /\ Writing[e].ver \in Nat /\ index[e].ver \in Nat /\ StagedDocs[e].ver \in Nat
  BY PromiseVersions DEF Promise
<1>3. [kind |-> "live", ver |-> v] \in Doc
  BY <1>2 DEF Doc
<1>4. Says(e, [kind |-> "live", ver |-> v])
  BY <1>1, <1>2 DEF Promise, Promised, Says
<1>5. l \/ index[e].ver >= db[e].ver \/ v >= db[e].ver
  BY <1>1, <1>2 DEF Promise, Promised
<1>6. QED
  BY <1>1, <1>3, <1>4, <1>5, PromiseStaged

LEMMA PromiseCommit ==
  ASSUME Promise, NEW e \in Entities, Index!Commit(e)
  PROVE  Promise'
<1> DEFINE c == [kind |-> IF Writing[e].kind = "live" THEN "live" ELSE "none",
                 ver |-> Writing[e].ver]
<1>1. /\ Writing[e] # NoDoc
      /\ \/ spoiled[e]
         \/ StagedDocs[e].ver >= Writing[e].ver
         \/ index[e].ver >= Writing[e].ver
      /\ db' = [db EXCEPT ![e] = c]
      /\ Writing' = [Writing EXCEPT ![e] = NoDoc]
      /\ UNCHANGED <<next, StagedDocs, index, spoiled>>
  BY DEF Index!Commit, Index!NoDoc, NoDoc, Writing, StagedDocs
<1>2. /\ next[e] \in Nat /\ db[e].ver \in Nat /\ Writing[e].ver \in Nat
      /\ index[e].ver \in Nat /\ StagedDocs[e].ver \in Nat
  BY PromiseVersions DEF Promise
<1>3. PromiseTypes'
  <2>1. c \in Doc /\ NoDoc \in Doc
    BY <1>2 DEF Doc, NoDoc
  <2>2. QED
    BY <1>1, <2>1 DEF Promise, PromiseTypes
<1>4. db'[e] = c /\ Writing'[e] = NoDoc
  BY <1>1 DEF Promise, PromiseTypes
<1>5. Promised(e)'
  BY <1>1, <1>2, <1>4 DEF Promise, Promised, Says
<1>6. ASSUME NEW f \in Entities \ {e} PROVE Promised(f)'
  <2>1. db'[f] = db[f] /\ Writing'[f] = Writing[f]
    BY <1>1 DEF Promise, PromiseTypes
  <2>2. QED
    BY <1>1, <2>1 DEF Promise, Promised, Says
<1>7. QED
  BY <1>3, <1>5, <1>6 DEF Promise

LEMMA PromiseAbort ==
  ASSUME Promise, NEW e \in Entities, Index!Abort(e)
  PROVE  Promise'
<1>1. /\ Writing' = [Writing EXCEPT ![e] = NoDoc]
      /\ UNCHANGED <<db, next, StagedDocs, index, spoiled>>
  BY DEF Index!Abort, Index!NoDoc, NoDoc, Writing, StagedDocs
<1>2. NoDoc \in Doc
  BY DEF Doc, NoDoc
<1>3. PromiseTypes'
  BY <1>1, <1>2 DEF Promise, PromiseTypes
<1>4. \A f \in Entities : Writing'[f] \in {Writing[f], NoDoc}
  BY <1>1 DEF Promise, PromiseTypes
<1>5. ASSUME NEW f \in Entities PROVE Promised(f)'
  BY <1>1, <1>4 DEF Promise, Promised, Says
<1>6. QED
  BY <1>3, <1>5 DEF Promise

(* What is shown is staged, or a document of some write, and is not older  *)
(* than what it replaces unless the entity is lost.                        *)
LEMMA PromiseShow ==
  ASSUME Promise, Index!Show
  PROVE  Promise'
<1>1. /\ index' \in [Entities -> UNION {{index[e]} \cup Index!MayShow(e) : e \in Entities}]
      /\ \A e \in Entities : index'[e] \in {index[e]} \cup Index!MayShow(e)
      /\ UNCHANGED <<db, next, Writing, StagedDocs, spoiled>>
  BY DEF Index!Show, Writing, StagedDocs
<1>2. ASSUME NEW e \in Entities, NEW v \in Nat, NEW d \in Index!Documents(e, v)
      PROVE  d \in Doc /\ d.ver >= v /\ Says(e, d)
  <2>1. /\ d \in [kind : {"live", "deleted"}, ver : v .. next[e]]
        /\ d.ver = db[e].ver => (d.kind = "live" <=> db[e].kind = "live")
        /\ d.ver = Writing[e].ver => d = Writing[e]
    BY <1>2 DEF Index!Documents, Writing
  <2>2. next[e] \in Nat
    BY PromiseVersions DEF Promise
  <2>3. QED
    BY <2>1, <2>2 DEF Says, Doc
<1>3. ASSUME NEW e \in Entities
      PROVE  /\ index'[e] \in Doc
             /\ Says(e, index'[e])
             /\ spoiled[e] \/ index'[e].ver >= index[e].ver
  <2>1. index[e] \in Doc /\ index[e].ver \in Nat /\ Says(e, index[e])
    BY PromiseVersions DEF Promise, PromiseTypes, Promised
  <2>2. CASE index'[e] = index[e]
    BY <2>1, <2>2
  <2>3. CASE index'[e] \in Index!MayShow(e) /\ spoiled[e]
    BY <1>2, <2>3 DEF Index!MayShow
  <2>4. CASE index'[e] \in Index!MayShow(e) /\ ~spoiled[e]
    BY <1>2, <2>1, <2>4 DEF Index!MayShow
  <2>5. QED
    BY <1>1, <2>2, <2>3, <2>4
<1>4. PromiseTypes'
  <2>1. index' \in [Entities -> Doc]
    BY <1>1, <1>3
  <2>2. QED
    BY <1>1, <2>1 DEF Promise, PromiseTypes
<1>5. ASSUME NEW e \in Entities PROVE Promised(e)'
  <2>1. /\ db[e].ver \in Nat /\ index[e].ver \in Nat /\ index'[e].ver \in Nat
        /\ StagedDocs[e].ver \in Nat
    BY <1>4, PromiseVersions DEF Promise, PromiseTypes, Doc
  <2>2. QED
    BY <1>1, <1>3, <2>1 DEF Promise, Promised, Says
<1>6. QED
  BY <1>4, <1>5 DEF Promise

LEMMA PromiseUnstage ==
  ASSUME Promise, Index!Unstage
  PROVE  Promise'
<1>1. PICK S \in SUBSET Entities :
         /\ \A e \in S : spoiled[e] \/ index[e].ver >= StagedDocs[e].ver
         /\ StagedDocs' = [e \in Entities |-> IF e \in S THEN NoDoc ELSE StagedDocs[e]]
         /\ UNCHANGED <<db, next, Writing, index, spoiled>>
  BY DEF Index!Unstage, Index!NoDoc, NoDoc, Writing, StagedDocs
<1>2. NoDoc \in Doc /\ NoDoc.ver = 0 /\ NoDoc.kind # "live"
  BY DEF Doc, NoDoc
<1>3. PromiseTypes'
  BY <1>1, <1>2 DEF Promise, PromiseTypes
<1>4. ASSUME NEW e \in Entities PROVE Promised(e)'
  <2>1. /\ db[e].ver \in Nat /\ index[e].ver \in Nat /\ StagedDocs[e].ver \in Nat
        /\ next[e] \in Nat /\ Writing[e].ver \in Nat
    BY PromiseVersions DEF Promise
  <2>2. StagedDocs'[e] = IF e \in S THEN NoDoc ELSE StagedDocs[e]
    BY <1>1
  <2>3. CASE e \notin S
    BY <1>1, <2>2, <2>3 DEF Promise, Promised, Says
  <2>4. CASE e \in S
    <3>1. Says(e, NoDoc)
      BY <1>2, <2>1 DEF Promise, Promised, Says
    <3>2. spoiled[e] \/ index[e].ver >= db[e].ver
      BY <1>1, <2>1, <2>4 DEF Promise, Promised
    <3>3. QED
      BY <1>1, <2>2, <2>4, <3>1, <3>2 DEF Promise, Promised, Says
  <2>5. QED
    BY <2>3, <2>4
<1>5. QED
  BY <1>3, <1>4 DEF Promise

LEMMA PromisePurge ==
  ASSUME Promise, Index!Purge
  PROVE  Promise'
<1>1. /\ index' = [e \in Entities |->
                     IF index[e].kind = "deleted"
                     THEN [index[e] EXCEPT !.kind = "none"] ELSE index[e]]
      /\ UNCHANGED <<db, next, Writing, StagedDocs, spoiled>>
  BY DEF Index!Purge, Writing, StagedDocs
<1>2. ASSUME NEW e \in Entities
      PROVE  /\ index'[e] \in Doc
             /\ index'[e].ver = index[e].ver
             /\ index'[e].kind = "live" <=> index[e].kind = "live"
  BY <1>1 DEF Promise, PromiseTypes, Doc
<1>3. index' \in [Entities -> Doc]
  BY <1>1, <1>2
<1>4. PromiseTypes'
  BY <1>1, <1>3 DEF Promise, PromiseTypes
<1>5. ASSUME NEW e \in Entities PROVE Promised(e)'
  BY <1>1, <1>2 DEF Promise, Promised, Says
<1>6. QED
  BY <1>4, <1>5 DEF Promise

LEMMA PromiseAgrees == Promise => Index!Agrees
<1> SUFFICES ASSUME Promise, NEW e \in Entities,
                    next[e] = db[e].ver, StagedDocs[e] = NoDoc, ~spoiled[e]
             PROVE  /\ index[e].ver = db[e].ver
                    /\ index[e].kind = "live" <=> db[e].kind = "live"
  BY DEF Index!Agrees, Index!NoDoc, NoDoc, StagedDocs
<1>1. next[e] \in Nat /\ index[e].ver \in Nat
  BY PromiseVersions DEF Promise
<1>2. StagedDocs[e].ver = 0
  BY DEF NoDoc
<1>3. QED
  BY <1>1, <1>2 DEF Promise, Promised, Says

(* Whatever implements SearchIndex shows its readers what is committed     *)
(* when nothing of an entity is written or on its way.  With               *)
(* SyncImplementsIndex this gives InSync again, without rows and workers.  *)
THEOREM IndexKeepsPromise == Index!Spec => []Index!Agrees
<1>1. Index!Init => Promise
  <2> SUFFICES ASSUME Index!Init PROVE Promise
    OBVIOUS
  <2>1. /\ db = [e \in Entities |-> NoDoc]
        /\ next = [e \in Entities |-> 0]
        /\ Writing = [e \in Entities |-> NoDoc]
        /\ StagedDocs = [e \in Entities |-> NoDoc]
        /\ index = [e \in Entities |-> NoDoc]
        /\ spoiled = [e \in Entities |-> FALSE]
    BY DEF Index!Init, Index!NoDoc, NoDoc, Writing, StagedDocs
  <2>2. NoDoc \in Doc /\ NoDoc.ver = 0 /\ NoDoc.kind # "live"
    BY DEF Doc, NoDoc
  <2>3. PromiseTypes
    BY <2>1, <2>2 DEF PromiseTypes
  <2>4. ASSUME NEW e \in Entities PROVE Promised(e)
    BY <2>1, <2>2 DEF Promised, Says
  <2>5. QED
    BY <2>3, <2>4 DEF Promise
<1>2. Promise /\ [Index!Next]_(Index!vars) => Promise'
  <2> SUFFICES ASSUME Promise, [Index!Next]_(Index!vars) PROVE Promise'
    OBVIOUS
  <2>1. CASE Index!Next
    BY <2>1, PromiseBegin, PromiseStage, PromiseStageAgain, PromiseCommit,
       PromiseAbort, PromiseShow, PromiseUnstage, PromisePurge DEF Index!Next
  <2>2. CASE UNCHANGED Index!vars
    <3>1. UNCHANGED <<db, next, Writing, StagedDocs, index, spoiled>>
      BY <2>2 DEF Index!vars, Writing, StagedDocs
    <3>2. PromiseTypes'
      BY <3>1 DEF Promise, PromiseTypes
    <3>3. ASSUME NEW e \in Entities PROVE Promised(e)'
      BY <3>1 DEF Promise, Promised, Says
    <3>4. QED
      BY <3>2, <3>3 DEF Promise
  <2>3. QED
    BY <2>1, <2>2
<1>3. QED
  BY <1>1, <1>2, PromiseAgrees, PTL DEF Index!Spec

-----------------------------------------------------------------------------
(* Ids of rows, and what select_next does with their order.                *)

(* Ids are given out once.                                                 *)
RowIdsOK ==
    /\ \A e \in Entities : row[e].id < nextId
    /\ \A e, f \in Entities : row[e].id = row[f].id /\ row[e].id # 0 => e = f

LEMMA IdTypes ==
  ASSUME TypeOK
  PROVE  /\ nextId \in Nat
         /\ \A e \in Entities : row[e].id \in Nat
         /\ \A w \in Workers, e \in Entities : batch[w][e].id \in Nat
BY DEF TypeOK, Row

(* Workers give out no ids: a copy has that of the row.                    *)
WorkerIds ==
    /\ nextId' = nextId
    /\ \A e \in Entities : row'[e].id \in {row[e].id, 0}
    /\ \A e \in Entities, w \in Workers :
          batch'[w][e].id \in {batch[w][e].id, row[e].id, 0}

LEMMA WorkerKeepsIds ==
  ASSUME TypeOK, NEW w \in Workers, Round(w) \/ Fault(w)
  PROVE  WorkerIds
<1> USE DEF WorkerIds, requestVars
<1>1. CASE SelectNext(w)
  <2>1. PICK C \in SUBSET Entities :
           /\ Locked(C)
           /\ batch' = [batch EXCEPT ![w] =
                          [e \in Entities |-> IF e \in C THEN row[e] ELSE NoRow]]
    BY <1>1 DEF SelectNext, Open
  <2>2. \A e \in Entities : row'[e].id = row[e].id
    BY <2>1 DEF Locked, TypeOK, Row
  <2>3. \A e \in Entities, v \in Workers :
           batch'[v][e].id \in {batch[v][e].id, row[e].id, 0}
    BY <2>1 DEF TypeOK, NoRow
  <2>4. nextId' = nextId
    BY <1>1 DEF SelectNext
  <2>5. QED
    BY <2>2, <2>3, <2>4
<1>2. ASSUME Released(w)
      PROVE  \A e \in Entities, v \in Workers :
                batch'[v][e].id \in {batch[v][e].id, 0}
  BY <1>2 DEF Released, NoClaims, NoRow, TypeOK
<1>3. ASSUME NEW s, MarkRows(w, s)
      PROVE  \A e \in Entities : row'[e].id = row[e].id
  BY <1>3 DEF MarkRows, TypeOK, Row
<1>4. CASE MarkProcessed(w)
  BY <1>2, <1>4 DEF MarkProcessed, NoRow
<1>5. CASE MarkReset(w)
  BY <1>2, <1>3, <1>5 DEF MarkReset
<1>6. CASE MarkFailed(w)
  BY <1>2, <1>3, <1>6 DEF MarkFailed
<1>7. CASE MarkFailedFails(w) \/ Crash(w)
  BY <1>2, <1>7 DEF MarkFailedFails, Crash
<1>8. CASE UNCHANGED <<row, nextId, batch>>
  BY <1>8
<1>9. QED
  BY <1>1, <1>4, <1>5, <1>6, <1>7, <1>8
     DEF Round, Fault, SolrUpsert, Purge, SolrUpsertFails, MarkFails, PurgeFails

LEMMA UpsertKeepsIds ==
  ASSUME TypeOK, RowIdsOK, NEW e \in Entities, NEW d \in Doc, Upserted(e, d)
  PROVE  RowIdsOK'
<1>1. nextId \in Nat \ {0} /\ \A f \in Entities : row[f].id \in Nat
  BY IdTypes DEF TypeOK
<1>2. CASE row[e].id = 0
  <2>1. /\ row' = [row EXCEPT ![e] = [id |-> nextId, doc |-> d, state |-> "open"]]
        /\ nextId' = nextId + 1
    BY <1>2 DEF Upserted
  <2>2. row'[e].id = nextId /\ \A f \in Entities \ {e} : row'[f].id = row[f].id
    BY <2>1 DEF TypeOK
  <2>3. \A f \in Entities : row'[f].id < nextId'
    BY <1>1, <2>1, <2>2 DEF RowIdsOK
  <2>4. \A f \in Entities \ {e} : row'[f].id < row'[e].id
    BY <1>1, <2>2 DEF RowIdsOK
  <2>5. \A f, g \in Entities : row'[f].id = row'[g].id /\ row'[f].id # 0 => f = g
    BY <1>1, <2>2, <2>4 DEF RowIdsOK
  <2>6. QED
    BY <2>3, <2>5 DEF RowIdsOK
<1>3. CASE row[e].id # 0
  <2>1. nextId' = nextId /\ \A f \in Entities : row'[f].id = row[f].id
    BY <1>3, UpsertedRow DEF Upserted
  <2>2. QED
    BY <2>1 DEF RowIdsOK
<1>4. QED
  BY <1>2, <1>3

LEMMA WorkerRowIds ==
  ASSUME TypeOK, RowIdsOK, NEW w \in Workers, Round(w) \/ Fault(w)
  PROVE  RowIdsOK'
<1>1. nextId \in Nat \ {0} /\ \A f \in Entities : row[f].id \in Nat
  BY IdTypes DEF TypeOK
<1>2. nextId' = nextId /\ \A f \in Entities : row'[f].id \in {row[f].id, 0}
  BY WorkerKeepsIds DEF WorkerIds
<1>3. QED
  BY <1>1, <1>2 DEF RowIdsOK

LEMMA RequestRowIds ==
  ASSUME TypeOK, RowIdsOK, NEW e \in Entities, Request(e)
  PROVE  RowIdsOK'
<1>1. CASE Stage(e)
  <2>1. [kind |-> tx[e].kind, ver |-> next[e]] \in Doc
    BY DEF TypeOK, Tx, Doc
  <2>2. QED
    BY <1>1, <2>1, UpsertKeepsIds DEF Stage
<1>2. CASE StageRead(e)
  <2>1. echo[e] \in Doc
    BY DEF TypeOK
  <2>2. QED
    BY <1>2, <2>1, UpsertKeepsIds DEF StageRead
<1>3. CASE UNCHANGED <<row, nextId>>
  BY <1>3 DEF RowIdsOK
<1>4. QED
  BY <1>1, <1>2, <1>3 DEF Request, Begin, Commit, Abort, Read

LEMMA RowIdsCorrect == Spec => [](TypeOK /\ RowIdsOK)
<1>1. Init => TypeOK /\ RowIdsOK
  BY InitIInv DEF IInv, Init, RowIdsOK, NoRow
<1>2. TypeOK /\ RowIdsOK /\ [Next]_vars => RowIdsOK'
  BY RequestRowIds, WorkerRowIds DEF Next, vars, RowIdsOK
<1>3. QED
  BY <1>1, <1>2, TypeStep, PTL DEF Spec

LEMMA LeastNumber ==
  ASSUME NEW T \in SUBSET Nat, T # {}
  PROVE  \E x \in T : \A y \in T : x <= y
<1> DEFINE R == {ss \in Nat \X Nat : ss[1] < ss[2]}
<1>1. IsWellFoundedOn(R, Nat)
  BY NatLessThanWellFounded, Zenon DEF OpToRel
<1> HIDE DEF R
<1>2. PICK x \in T : \A y \in T : ~ (<<y, x>> \in R)
  BY <1>1, WFMin, Zenon
<1>3. \A y \in T : ~(y < x)
  BY <1>2 DEF R
<1>4. QED
  BY <1>3

(* The limit of select_next: of S, the first rows up to n.                 *)
LEMMA OldestRow ==
  ASSUME TypeOK, RowIdsOK, NEW S \in SUBSET Entities, S # {},
         \A e \in S : row[e].id # 0
  PROVE  \E x \in S : \A y \in S \ {x} : row[x].id < row[y].id
<1> DEFINE T == {row[e].id : e \in S}
<1>1. \A e \in Entities : row[e].id \in Nat
  BY IdTypes
<1>2. T \in SUBSET Nat /\ T # {}
  BY <1>1
<1>3. PICK i \in T : \A j \in T : i <= j
  BY <1>2, LeastNumber, Zenon
<1>4. PICK x \in S : row[x].id = i
  OBVIOUS
<1>5. ASSUME NEW y \in S \ {x}
      PROVE  row[x].id < row[y].id
  <2>1. row[x].id <= row[y].id
    BY <1>3, <1>4
  <2>2. row[x].id # row[y].id
    BY DEF RowIdsOK
  <2>3. QED
    BY <1>1, <2>1, <2>2
<1>6. QED
  BY <1>5

(* C begins S, in the order of the ids.                                    *)
Begins(C, S) ==
    /\ C \subseteq S
    /\ \A c \in C, d \in S \ C : row[c].id < row[d].id

LEMMA BeginningsExist ==
  ASSUME TypeOK, RowIdsOK, NEW S \in SUBSET Entities, IsFiniteSet(S),
         \A e \in S : row[e].id # 0
  PROVE  \A k \in Nat : k <= Cardinality(S) =>
            \E C \in SUBSET S : Cardinality(C) = k /\ Begins(C, S)
<1> DEFINE Has(k) == \E C \in SUBSET S : Cardinality(C) = k /\ Begins(C, S)
           Lacking == {k \in Nat : k <= Cardinality(S) /\ ~Has(k)}
<1>1. Cardinality(S) \in Nat
  BY FS_CardinalityType
<1>2. Has(0)
  <2>1. {} \in SUBSET S /\ Cardinality({}) = 0 /\ Begins({}, S)
    BY FS_EmptySet DEF Begins
  <2>2. QED
    BY <2>1
<1>3. ASSUME NEW k \in Nat, k + 1 <= Cardinality(S), Has(k)
      PROVE  Has(k + 1)
  <2>1. PICK C \in SUBSET S : Cardinality(C) = k /\ Begins(C, S)
    BY <1>3
  <2>2. S \ C # {}
    <3>1. C # S
      BY <1>1, <1>3, <2>1
    <3>2. QED
      BY <3>1
  <2>3. PICK x \in S \ C : \A y \in (S \ C) \ {x} : row[x].id < row[y].id
    BY <2>2, OldestRow
  <2>4. IsFiniteSet(C)
    BY FS_Subset
  <2>5. Cardinality(C \cup {x}) = k + 1
    BY <2>1, <2>3, <2>4, FS_AddElement
  <2>6. Begins(C \cup {x}, S)
    BY <2>1, <2>3 DEF Begins
  <2>7. C \cup {x} \in SUBSET S
    BY <2>3
  <2>8. QED
    BY <2>5, <2>6, <2>7
<1> HIDE DEF Has
<1>4. Lacking = {}
  <2> SUFFICES ASSUME Lacking # {} PROVE FALSE
    OBVIOUS
  <2>1. PICK m \in Lacking : \A k \in Lacking : m <= k
    BY LeastNumber, Zenon
  <2>2. m \in Nat /\ m <= Cardinality(S) /\ ~Has(m)
    OBVIOUS
  <2>3. m # 0
    BY <1>2, <2>2
  <2>4. m - 1 \in Nat /\ m - 1 <= Cardinality(S) /\ m - 1 \notin Lacking
    BY <1>1, <2>1, <2>2, <2>3
  <2>5. Has(m - 1)
    BY <2>4
  <2>6. Has((m - 1) + 1)
    BY <1>3, <2>2, <2>4, <2>5
  <2>7. QED
    BY <2>2, <2>6
<1>5. QED
  BY <1>4 DEF Has

LEMMA BeginningsEqual ==
  ASSUME TypeOK, NEW S \in SUBSET Entities, IsFiniteSet(S),
         NEW C \in SUBSET S, NEW D \in SUBSET S, Begins(C, S), Begins(D, S),
         Cardinality(C) = Cardinality(D)
  PROVE  C = D
<1>1. IsFiniteSet(C) /\ IsFiniteSet(D)
  BY FS_Subset
<1>2. \A e \in Entities : row[e].id \in Nat
  BY IdTypes
<1>3. C \subseteq D \/ D \subseteq C
  <2> SUFFICES ASSUME NEW x \in C \ D, NEW y \in D \ C PROVE FALSE
    OBVIOUS
  <2>1. row[x].id < row[y].id /\ row[y].id < row[x].id
    BY DEF Begins
  <2>2. QED
    BY <1>2, <2>1
<1>4. CASE C \subseteq D
  BY <1>1, <1>4, FS_Subset
<1>5. CASE D \subseteq C
  BY <1>1, <1>5, FS_Subset
<1>6. QED
  BY <1>3, <1>4, <1>5

(* Of any open rows that it does not skip, select_next takes one batch,    *)
(* not an empty one: a worker never finds rows without getting any, and    *)
(* what it gets does not depend on anything but the rows.                  *)
SelectsOneBatch ==
    \A S \in SUBSET Open : S # {} =>
       \E C \in SUBSET S :
          /\ C # {}
          /\ \A D \in SUBSET S : FirstRows(D, S, BatchSize) <=> D = C

LEMMA OneBatch ==
  TypeOK /\ RowsOK /\ RowIdsOK /\ IsFiniteSet(Entities) => SelectsOneBatch
<1> SUFFICES ASSUME TypeOK, RowsOK, RowIdsOK, IsFiniteSet(Entities),
                    NEW S \in SUBSET Open, S # {}
             PROVE  \E C \in SUBSET S :
                       /\ C # {}
                       /\ \A D \in SUBSET S : FirstRows(D, S, BatchSize) <=> D = C
  BY DEF SelectsOneBatch
<1>1. S \in SUBSET Entities /\ \A e \in S : row[e].id # 0
  BY DEF Open, RowsOK
<1>2. IsFiniteSet(S) /\ Cardinality(S) \in Nat /\ Cardinality(S) # 0
  BY <1>1, FS_Subset, FS_CardinalityType, FS_EmptySet
<1> DEFINE k == IF Cardinality(S) < BatchSize THEN Cardinality(S) ELSE BatchSize
<1>3. k \in Nat /\ k <= Cardinality(S) /\ k # 0
  BY <1>2, SearchSyncAssumption
<1>4. \A D \in SUBSET S : FirstRows(D, S, BatchSize) <=> Cardinality(D) = k /\ Begins(D, S)
  BY DEF FirstRows, Begins
<1> HIDE DEF k
<1>5. PICK C \in SUBSET S : Cardinality(C) = k /\ Begins(C, S)
  BY <1>1, <1>2, <1>3, BeginningsExist
<1>6. C # {}
  BY <1>3, <1>5, FS_EmptySet
<1>7. \A D \in SUBSET S : FirstRows(D, S, BatchSize) <=> D = C
  BY <1>1, <1>2, <1>4, <1>5, BeginningsEqual
<1>8. QED
  BY <1>6, <1>7

(* select_next with its order and its limit is a function of the open rows *)
(* in every reachable state, for any finite set of entities: ids are never *)
(* given out twice.                                                        *)
THEOREM SelectionIsDefined ==
  ASSUME IsFiniteSet(Entities)
  PROVE  Spec => []SelectsOneBatch
<1>1. TypeOK /\ RowsOK /\ RowIdsOK => SelectsOneBatch
  BY OneBatch
<1>2. Spec => []RowsOK
  <2>1. IInv => RowsOK
    BY DEF IInv
  <2>2. QED
    BY <2>1, Inductive, PTL
<1>3. QED
  BY <1>1, <1>2, RowIdsCorrect, PTL

(* A row that is removed has been indexed, unless its entity is spoiled.   *)
(* (Without the exception this is what RemovedOnlyIfProcessed states.)     *)
RemovedUnlessSpoiled ==
    [][\A e \in Entities :
          row[e].id # 0 /\ row'[e].id = 0 =>
             spoiled[e] \/ index[e].ver >= row[e].doc.ver]_vars

(* Of all steps only mark_processed removes rows, and unless the entity is *)
(* spoiled the worker that removes one has sent it to Solr before.         *)
THEOREM RowsLeaveIndexed == Spec => RemovedUnlessSpoiled
<1>1. IInv /\ [Next]_vars =>
        [\A e \in Entities : row[e].id # 0 /\ row'[e].id = 0 =>
             spoiled[e] \/ index[e].ver >= row[e].doc.ver]_vars
  <2> SUFFICES ASSUME IInv, Next, NEW e \in Entities,
                      row[e].id # 0, row'[e].id = 0
               PROVE  spoiled[e] \/ index[e].ver >= row[e].doc.ver
    OBVIOUS
  <2>1. TypeOK /\ Ordered
    BY DEF IInv
  <2>2. ASSUME NEW f \in Entities, Request(f) PROVE FALSE
    <3>1. ASSUME NEW d \in Doc, Upserted(f, d) PROVE FALSE
      BY <2>1, <3>1, UpsertedRow
    <3>2. echo[f] \in Doc /\ [kind |-> tx[f].kind, ver |-> next[f]] \in Doc
      BY <2>1 DEF TypeOK, Tx, Doc
    <3>3. QED
      BY <2>2, <3>1, <3>2 DEF Request, Begin, Stage, Commit, Abort, Read, StageRead
  <2>3. ASSUME NEW w \in Workers, Round(w) \/ Fault(w)
        PROVE  MarkProcessed(w) /\ Marks(w, e)
    <3>1. ASSUME NEW C, Locked(C) PROVE FALSE
      BY <2>1, <3>1 DEF Locked, TypeOK, Row
    <3>2. ASSUME NEW s, MarkRows(w, s) PROVE FALSE
      BY <2>1, <3>2 DEF MarkRows, TypeOK, Row
    <3>3. MarkProcessed(w)
      BY <2>3, <3>1, <3>2
         DEF Round, Fault, SelectNext, SolrUpsert, MarkReset, MarkFailed, Purge,
             SolrUpsertFails, MarkFails, MarkFailedFails, PurgeFails, Crash
    <3>4. QED
      BY <3>3 DEF MarkProcessed
  <2>4. PICK w \in Workers : MarkProcessed(w) /\ Marks(w, e)
    BY <2>2, <2>3 DEF Next
  <2>5. QED
    BY <2>1, <2>4 DEF Ordered, Marks, MarkProcessed, Claimed
<1>2. QED
  BY <1>1, Inductive, PTL DEF Spec, RemovedUnlessSpoiled
=============================================================================
