----------------------------- MODULE SearchSync -----------------------------
(***************************************************************************)
(* The search synchronisation pipeline: requests change entities in        *)
(* Postgres and stage a document in events.search_updates                  *)
(* (update_search_document, SearchUpdatesRepo), background workers move    *)
(* the staged documents to the Solr index (update_solr).                   *)
(*                                                                         *)
(* The payload of a document is abstracted to a version.  A version is     *)
(* taken when a transaction flushes its write, so a greater version is a   *)
(* later write of that entity; a version is not reused when the            *)
(* transaction aborts.                                                     *)
(***************************************************************************)
EXTENDS Integers, FiniteSets

CONSTANTS
    Entities,    \* ids of users, groups, projects and data connectors
    Workers,     \* processes that run the update_search task
    BatchSize,   \* batch_size of update_solr (20 in production)
    MaxVersion,  \* bound: transactions started per entity
    MaxEchoes,   \* bound: unlocked reads that are staged again
    MaxFaults    \* bound: failed calls and crashes

ASSUME SearchSyncAssumption ==
    /\ BatchSize \in Nat \ {0}
    /\ MaxVersion \in Nat
    /\ MaxEchoes \in Nat
    /\ MaxFaults \in Nat

VARIABLES
    db,       \* db[e]: the committed entity
    next,     \* next[e]: the last version taken by a transaction on e
    tx,       \* tx[e]: the open transaction that holds the row lock of e
    echo,     \* echo[e]: a document of e read without the row lock
    row,      \* row[e]: the row of e in events.search_updates
    nextId,   \* the next primary key of events.search_updates
    index,    \* index[e]: the document of e in Solr
    pc,       \* pc[w]: where worker w is in the loop of update_solr
    batch,    \* batch[w]: the rows worker w got from select_next
    echoes,   \* unlocked reads so far
    faults,   \* faults so far
    spoiled   \* history: the last staging of e may be lost (Stage, StageRead)

vars == <<db, next, tx, echo, row, nextId, index, pc, batch, echoes, faults,
          spoiled>>

requestVars == <<db, next, tx, echo, echoes>>

-----------------------------------------------------------------------------
(* A document is live, a DeleteDoc ("deleted"), or there is none.          *)

Doc == [kind : {"none", "live", "deleted"}, ver : Nat]
NoDoc == [kind |-> "none", ver |-> 0]

Row == [id : Nat, doc : Doc, state : {"none", "open", "locked", "failed"}]
NoRow == [id |-> 0, doc |-> NoDoc, state |-> "none"]

(* "flushed": the write is flushed, its document not staged yet; "staged": *)
(* its document is in the staging table, the transaction still open.       *)
Tx == [st : {"none", "flushed", "staged"}, kind : {"live", "deleted"}]
NoTx == [st |-> "none", kind |-> "live"]

NoClaims == [e \in Entities |-> NoRow]
Claimed(w) == {e \in Entities : batch[w][e].id # 0}

Init ==
    /\ db = [e \in Entities |-> NoDoc]
    /\ next = [e \in Entities |-> 0]
    /\ tx = [e \in Entities |-> NoTx]
    /\ echo = [e \in Entities |-> NoDoc]
    /\ row = [e \in Entities |-> NoRow]
    /\ nextId = 1
    /\ index = [e \in Entities |-> NoDoc]
    /\ pc = [w \in Workers |-> "idle"]
    /\ batch = [w \in Workers |-> NoClaims]
    /\ echoes = 0
    /\ faults = 0
    /\ spoiled = [e \in Entities |-> FALSE]

-----------------------------------------------------------------------------
(* Requests.                                                               *)

(* A transaction creates, updates or deletes e and flushes: from here to   *)
(* its end it holds the row lock of e.  The ids of deleted users may come  *)
(* back from Keycloak.                                                     *)
Begin(e, kind) ==
    /\ tx[e].st = "none"
    /\ next[e] < MaxVersion
    /\ kind = "deleted" => db[e].kind = "live"
    /\ next' = [next EXCEPT ![e] = @ + 1]
    /\ tx' = [tx EXCEPT ![e] = [st |-> "flushed", kind |-> kind]]
    /\ UNCHANGED <<db, echo, row, nextId, index, pc, batch, echoes, faults,
                   spoiled>>

(* Mutant: insert instead of upsert, ON CONFLICT DO NOTHING.               *)
UpsertedDoNothing(e, d) ==
    IF row[e].id = 0
    THEN /\ row' = [row EXCEPT ![e] = [id |-> nextId, doc |-> d,
                                       state |-> "open"]]
         /\ nextId' = nextId + 1
    ELSE UNCHANGED <<row, nextId>>

(* Mutant: the conflicting row gets a state the enum does not have.        *)
UpsertedBadState(e, d) ==
    IF row[e].id = 0
    THEN /\ row' = [row EXCEPT ![e] = [id |-> nextId, doc |-> d,
                                       state |-> "open"]]
         /\ nextId' = nextId + 1
    ELSE /\ row' = [row EXCEPT ![e].doc = d, ![e].state = "updated"]
         /\ UNCHANGED nextId

(* The upsert of SearchUpdatesRepo: a new row is open, an existing row     *)
(* gets the payload and keeps its id and its state.                        *)
Upserted(e, d) ==
    IF row[e].id = 0
    THEN /\ row' = [row EXCEPT ![e] = [id |-> nextId, doc |-> d,
                                       state |-> "open"]]
         /\ nextId' = nextId + 1
    ELSE /\ row' = [row EXCEPT ![e].doc = d]
         /\ UNCHANGED nextId

(* The document is staged in a transaction of its own, committed at once.  *)
(* If the row is locked a worker has already copied the old payload.       *)
Stage(e) ==
    /\ tx[e].st = "flushed"
    /\ Upserted(e, [kind |-> tx[e].kind, ver |-> next[e]])
    /\ tx' = [tx EXCEPT ![e].st = "staged"]
    /\ spoiled' = [spoiled EXCEPT ![e] = row[e].state = "locked"]
    /\ UNCHANGED <<db, next, echo, index, pc, batch, echoes, faults>>

Commit(e) ==
    /\ tx[e].st = "staged"
    /\ db' = [db EXCEPT ![e] = [kind |-> IF tx[e].kind = "live" THEN "live"
                                         ELSE "none",
                                ver |-> next[e]]]
    /\ tx' = [tx EXCEPT ![e] = NoTx]
    /\ UNCHANGED <<next, echo, row, nextId, index, pc, batch, echoes, faults,
                   spoiled>>

(* The upsert, the authorization write or the commit raises: the           *)
(* transaction is rolled back, a staged document stays.                    *)
Abort(e) ==
    /\ tx[e].st # "none"
    /\ tx' = [tx EXCEPT ![e] = NoTx]
    /\ UNCHANGED <<db, next, echo, row, nextId, index, pc, batch, echoes,
                   faults, spoiled>>

(* A request that stages a document of e it only read: a PATCH that        *)
(* changes nothing flushes no UPDATE, and the rename of a group dumps its  *)
(* projects and data connectors.                                           *)
Read(e) ==
    /\ echoes < MaxEchoes
    /\ echo[e] = NoDoc
    /\ db[e].kind = "live"
    /\ echo' = [echo EXCEPT ![e] = db[e]]
    /\ echoes' = echoes + 1
    /\ UNCHANGED <<db, next, tx, row, nextId, index, pc, batch, faults,
                   spoiled>>

StageRead(e) ==
    /\ echo[e] # NoDoc
    /\ Upserted(e, echo[e])
    /\ echo' = [echo EXCEPT ![e] = NoDoc]
    /\ spoiled' = [spoiled EXCEPT ![e] =
                      \/ @
                      \/ row[e].state = "locked"
                      \/ echo[e].ver < row[e].doc.ver
                      \/ echo[e].ver < index[e].ver]
    /\ UNCHANGED <<db, next, tx, index, pc, batch, echoes, faults>>

-----------------------------------------------------------------------------
(* Workers: one round of the loop of update_solr.                          *)

(* Mutant: select_next forgets the condition on the state.                 *)
OpenOrLocked == {e \in Entities : row[e].state \in {"open", "locked"}}

Open == {e \in Entities : row[e].state = "open"}

(* Rows an upsert that has not committed yet may hold locked.              *)
InUse == {e \in Entities : tx[e].st = "flushed" \/ echo[e] # NoDoc}

(* Mutant: the limit is one too small.                                     *)
FirstRowsButOne(C, S, n) ==
    /\ C \subseteq S
    /\ Cardinality(C) = IF Cardinality(S) < n THEN Cardinality(S) ELSE n - 1
    /\ \A c \in C, d \in S \ C : row[c].id < row[d].id

(* The first n rows of the set S in the order of their ids.                *)
FirstRows(C, S, n) ==
    /\ C \subseteq S
    /\ Cardinality(C) = IF Cardinality(S) < n THEN Cardinality(S) ELSE n
    /\ \A c \in C, d \in S \ C : row[c].id < row[d].id

(* Mutant: the rows are handed out and not marked.                         *)
NotLocked(C) == row' = row

Locked(C) ==
    row' = [e \in Entities |->
              IF e \in C THEN [row[e] EXCEPT !.state = "locked"] ELSE row[e]]

(* FOR UPDATE SKIP LOCKED: rows in use may be left out.                    *)
SelectNext(w) ==
    /\ pc[w] = "idle"
    /\ \E skipped \in SUBSET (Open \cap InUse) :
       \E C \in SUBSET (Open \ skipped) :
          /\ C # {}
          /\ FirstRows(C, Open \ skipped, BatchSize)
          /\ Locked(C)
          /\ batch' = [batch EXCEPT ![w] =
                        [e \in Entities |-> IF e \in C THEN row[e] ELSE NoRow]]
    /\ pc' = [pc EXCEPT ![w] = "upsert"]
    /\ UNCHANGED <<requestVars, nextId, index, faults, spoiled>>

(* Mutant: deleted documents are not sent to Solr.                         *)
IndexedLive(w, S) ==
    index' = [e \in Entities |->
                IF e \in S /\ batch[w][e].doc.kind = "live"
                THEN batch[w][e].doc ELSE index[e]]

(* Solr holds the batch's documents of the entities in S.                  *)
Indexed(w, S) ==
    index' = [e \in Entities |-> IF e \in S THEN batch[w][e].doc ELSE index[e]]

SolrUpsert(w) ==
    /\ pc[w] = "upsert"
    /\ Indexed(w, Claimed(w))
    /\ pc' = [pc EXCEPT ![w] = "processed"]
    /\ UNCHANGED <<requestVars, row, nextId, batch, faults, spoiled>>

(* Solr answers with a version conflict, or the call raises (Solr down, a  *)
(* document it refuses, a timeout): any part of the batch may be indexed.  *)
SolrUpsertFails(w) ==
    /\ pc[w] = "upsert"
    /\ faults < MaxFaults
    /\ \E S \in SUBSET Claimed(w) : Indexed(w, S)
    /\ \E p \in {"reset", "failed"} : pc' = [pc EXCEPT ![w] = p]
    /\ faults' = faults + 1
    /\ UNCHANGED <<requestVars, row, nextId, batch, spoiled>>

(* Mutant: the statements look for open rows.                              *)
MarksOpen(w, e) ==
    /\ batch[w][e].id # 0
    /\ row[e].id = batch[w][e].id
    /\ row[e].state = "open"

(* The statements of mark_processed, mark_reset and mark_failed touch the  *)
(* locked rows whose ids are in the batch.                                 *)
Marks(w, e) ==
    /\ batch[w][e].id # 0
    /\ row[e].id = batch[w][e].id
    /\ row[e].state = "locked"

MarkRows(w, state) ==
    row' = [e \in Entities |->
              IF Marks(w, e) THEN [row[e] EXCEPT !.state = state] ELSE row[e]]

Released(w) == batch' = [batch EXCEPT ![w] = NoClaims]

MarkProcessed(w) ==
    /\ pc[w] = "processed"
    /\ row' = [e \in Entities |-> IF Marks(w, e) THEN NoRow ELSE row[e]]
    /\ Released(w)
    /\ pc' = [pc EXCEPT ![w] = "purge"]
    /\ UNCHANGED <<requestVars, nextId, index, faults, spoiled>>

MarkReset(w) ==
    /\ pc[w] = "reset"
    /\ MarkRows(w, "open")
    /\ Released(w)
    /\ pc' = [pc EXCEPT ![w] = "purge"]
    /\ UNCHANGED <<requestVars, nextId, index, faults, spoiled>>

(* mark_processed or mark_reset raises: the rows are marked failed.        *)
MarkFails(w) ==
    /\ pc[w] \in {"processed", "reset"}
    /\ faults < MaxFaults
    /\ pc' = [pc EXCEPT ![w] = "failed"]
    /\ faults' = faults + 1
    /\ UNCHANGED <<requestVars, row, nextId, index, batch, spoiled>>

MarkFailed(w) ==
    /\ pc[w] = "failed"
    /\ MarkRows(w, "failed")
    /\ Released(w)
    /\ pc' = [pc EXCEPT ![w] = "idle"]
    /\ UNCHANGED <<requestVars, nextId, index, faults, spoiled>>

(* mark_failed raises too: the error is logged, the rows stay locked.      *)
(* It follows another fault, so MaxFaults bounds it as well.               *)
MarkFailedFails(w) ==
    /\ pc[w] = "failed"
    /\ Released(w)
    /\ pc' = [pc EXCEPT ![w] = "idle"]
    /\ faults' = faults + 1
    /\ UNCHANGED <<requestVars, row, nextId, index, spoiled>>

(* Solr deletes the documents with deleted:true; their versions are kept   *)
(* here as history.                                                        *)
Purge(w) ==
    /\ pc[w] = "purge"
    /\ index' = [e \in Entities |->
                   IF index[e].kind = "deleted"
                   THEN [index[e] EXCEPT !.kind = "none"] ELSE index[e]]
    /\ pc' = [pc EXCEPT ![w] = "idle"]
    /\ UNCHANGED <<requestVars, row, nextId, batch, faults, spoiled>>

(* The error is logged, the loop goes on.                                  *)
PurgeFails(w) ==
    /\ pc[w] = "purge"
    /\ faults < MaxFaults
    /\ pc' = [pc EXCEPT ![w] = "idle"]
    /\ faults' = faults + 1
    /\ UNCHANGED <<requestVars, row, nextId, index, batch, spoiled>>

(* The process of w is killed and started again: it knows nothing of its   *)
(* batch.  A Solr call under way may have had any part of its effect.      *)
Crash(w) ==
    /\ pc[w] # "idle"
    /\ faults < MaxFaults
    /\ \E S \in SUBSET (IF pc[w] = "upsert" THEN Claimed(w) ELSE {}) :
          Indexed(w, S)
    /\ Released(w)
    /\ pc' = [pc EXCEPT ![w] = "idle"]
    /\ faults' = faults + 1
    /\ UNCHANGED <<requestVars, row, nextId, spoiled>>

-----------------------------------------------------------------------------

Request(e) ==
    \/ \E kind \in {"live", "deleted"} : Begin(e, kind)
    \/ Stage(e)
    \/ Commit(e)
    \/ Abort(e)
    \/ Read(e)
    \/ StageRead(e)

(* What a worker does when nothing fails.                                  *)
Round(w) ==
    \/ SelectNext(w)
    \/ SolrUpsert(w)
    \/ MarkProcessed(w)
    \/ MarkReset(w)
    \/ MarkFailed(w)
    \/ Purge(w)

Fault(w) ==
    \/ SolrUpsertFails(w)
    \/ MarkFails(w)
    \/ MarkFailedFails(w)
    \/ PurgeFails(w)
    \/ Crash(w)

Next ==
    \/ \E e \in Entities : Request(e)
    \/ \E w \in Workers : Round(w) \/ Fault(w)

Spec == Init /\ [][Next]_vars

(* The task manager runs update_search again whenever it ends, and a       *)
(* request handler that began to stage runs to its end.                    *)
Fairness ==
    /\ \A w \in Workers : WF_vars(Round(w))
    /\ \A e \in Entities : WF_vars(Stage(e) \/ Commit(e) \/ Abort(e))
    /\ \A e \in Entities : WF_vars(StageRead(e))

FairSpec == Spec /\ Fairness

-----------------------------------------------------------------------------
(* Properties.                                                             *)

TypeOK ==
    /\ db \in [Entities -> Doc]
    /\ next \in [Entities -> Nat]
    /\ tx \in [Entities -> Tx]
    /\ echo \in [Entities -> Doc]
    /\ row \in [Entities -> Row]
    /\ nextId \in Nat \ {0}
    /\ index \in [Entities -> Doc]
    /\ pc \in [Workers -> {"idle", "upsert", "processed", "reset", "failed",
                           "purge"}]
    /\ batch \in [Workers -> [Entities -> Row]]
    /\ echoes \in Nat
    /\ faults \in Nat
    /\ spoiled \in [Entities -> BOOLEAN]

(* A row is processed by one worker at a time, and is locked while it is:  *)
(* select_next hands no row out twice, whatever the interleaving of        *)
(* selections, upserts, markings and crashes.                              *)
ClaimExclusive ==
    \A w \in Workers : \A e \in Claimed(w) :
       /\ row[e].id = batch[w][e].id
       /\ row[e].state = "locked"
       /\ \A v \in Workers \ {w} : e \notin Claimed(v)

(* No committed write disappears on its way to Solr: its version, or one   *)
(* written later, is in the index or still staged.  The exceptions are the *)
(* two ways this code loses one: the write was staged on a row a worker    *)
(* had already copied (upsert leaves the row locked and mark_processed     *)
(* deletes it), or overwritten by a document that was read before it.      *)
Covered ==
    \A e \in Entities :
       \/ spoiled[e]
       \/ index[e].ver >= db[e].ver
       \/ row[e].id # 0 /\ row[e].doc.ver >= db[e].ver

(* Once the last write of an entity was committed and its row is gone, the *)
(* index says what Postgres says: the same version, and a document only    *)
(* if the entity exists.                                                   *)
InSync ==
    \A e \in Entities :
       next[e] = db[e].ver /\ row[e].id = 0 /\ ~spoiled[e] =>
          /\ index[e].ver = db[e].ver
          /\ index[e].kind = "live" <=> db[e].kind = "live"

(* The index of an entity never goes back to an older version, although    *)
(* documents are written without Solr's version check (DocVersions.off),   *)
(* batches are retried and several workers write at once.                  *)
IndexNeverRegresses ==
    [][\A e \in Entities : spoiled[e] \/ index'[e].ver >= index[e].ver]_vars

(* A locked row without a worker, which nothing ever unlocks, needs a      *)
(* fault: the normal paths of update_solr leave none behind.               *)
OrphansNeedFault ==
    \A e \in Entities :
       row[e].state = "locked" =>
          \/ \E w \in Workers : e \in Claimed(w)
          \/ faults > 0

(* Every staged version, or a later one, reaches the index as long as      *)
(* nothing fails: no row is left behind by the limit of select_next, by    *)
(* SKIP LOCKED or by another worker's batch.                               *)
StagedReachesIndex ==
    \A e \in Entities, v \in 1 .. MaxVersion :
       (row[e].id # 0 /\ row[e].doc.ver = v)
          ~> (index[e].ver >= v \/ spoiled[e] \/ faults > 0)

(* The pipeline keeps what SearchIndex promises to those who search: a     *)
(* write is committed only when its document is on its way, the index      *)
(* shows staged documents and never an older one, and nothing leaves the   *)
(* staging table before it is shown, whatever rows are claimed, batches    *)
(* retried and workers killed.                                             *)
Index == INSTANCE SearchIndex WITH
            db <- db,
            next <- next,
            writing <- [e \in Entities |->
                          IF tx[e].st = "none" THEN NoDoc
                          ELSE [kind |-> tx[e].kind, ver |-> next[e]]],
            staged <- [e \in Entities |-> row[e].doc],
            index <- index,
            lost <- spoiled
ImplementsIndex == Index!Spec

(* The docstring of mark_processed, "Remove processed rows.": the payload  *)
(* of a removed row has been sent to the index.                            *)
RemovedOnlyIfProcessed ==
    [][\A e \in Entities :
          row[e].id # 0 /\ row'[e].id = 0 => index[e].ver >= row[e].doc.ver]_vars
=============================================================================
