-------------------------- MODULE SearchReprovision --------------------------
(***************************************************************************)
(* SearchSync together with SearchReprovision.init_reprovision: a run      *)
(* empties the staging table and the index and stages every entity again,  *)
(* while requests and workers go on.  A row of events.reprovisioning is    *)
(* the lock that admits one run at a time.                                 *)
(***************************************************************************)
EXTENDS SearchSync

CONSTANTS
    Runs,       \* runs of init_reprovision, each used at most once
    MaxKills    \* bound: calls of DELETE /search/reprovision

ASSUME SearchReprovisionAssumption == MaxKills \in Nat

VARIABLES
    lock,    \* there is a row in events.reprovisioning
    run,     \* run[r]: where run r is in init_reprovision
    todo,    \* todo[r]: the entities r has not dealt with yet
    snap,    \* snap[r][e]: the document of e that r read and will insert
    kills,   \* lock removals so far
    quiet    \* history: the last run started alone, nobody touched e since
             \* and no worker held an outdated document of e when it cleared
             \* the table

reprovisionVars == <<lock, run, todo, snap, kills>>
syncVars == vars
rvars == <<vars, reprovisionVars, quiet>>

RInit ==
    /\ Init
    /\ lock = FALSE
    /\ run = [r \in Runs |-> "new"]
    /\ todo = [r \in Runs |-> {}]
    /\ snap = [r \in Runs |-> [e \in Entities |-> NoDoc]]
    /\ kills = 0
    /\ quiet = [e \in Entities |-> FALSE]

Active(r) == run[r] \in {"clear", "wipe", "copy", "stop"}

(* Mutant: the lock is taken without looking whether there is one.         *)
StartAnyway(r) ==
    /\ run[r] = "new"
    /\ lock' = TRUE
    /\ run' = [run EXCEPT ![r] = "clear"]
    /\ quiet' = [e \in Entities |->
                   /\ tx[e] = NoTx
                   /\ echo[e] = NoDoc
                   /\ \A s \in Runs : ~Active(s)]
    /\ UNCHANGED <<syncVars, todo, snap, kills>>

(* acquire_reprovision.                                                    *)
Start(r) ==
    /\ run[r] = "new"
    /\ ~lock
    /\ lock' = TRUE
    /\ run' = [run EXCEPT ![r] = "clear"]
    /\ quiet' = [e \in Entities |->
                   /\ tx[e] = NoTx
                   /\ echo[e] = NoDoc
                   /\ \A s \in Runs : ~Active(s)]
    /\ UNCHANGED <<syncVars, todo, snap, kills>>

(* Mutant: the rows that workers hold are spared.                          *)
ClearUnlocked(r) ==
    /\ run[r] = "clear"
    /\ row' = [e \in Entities |->
                 IF row[e].state = "locked" THEN row[e] ELSE NoRow]
    /\ run' = [run EXCEPT ![r] = "wipe"]
    /\ quiet' = [e \in Entities |->
                   /\ quiet[e]
                   /\ \A w \in Workers :
                         e \in Claimed(w) => batch[w][e].doc = db[e]]
    /\ UNCHANGED <<requestVars, nextId, index, pc, batch, faults, spoiled,
                   lock, todo, snap, kills>>

(* Mutant: TRUNCATE ... RESTART IDENTITY, ids are given out again.         *)
ClearAllRestarts(r) ==
    /\ run[r] = "clear"
    /\ row' = [e \in Entities |-> NoRow]
    /\ nextId' = 1
    /\ run' = [run EXCEPT ![r] = "wipe"]
    /\ quiet' = [e \in Entities |->
                   /\ quiet[e]
                   /\ \A w \in Workers :
                         e \in Claimed(w) => batch[w][e].doc = db[e]]
    /\ UNCHANGED <<requestVars, index, pc, batch, faults, spoiled,
                   lock, todo, snap, kills>>

(* clear_all: TRUNCATE, whatever the state of the rows.  A worker goes on  *)
(* with its copies; an outdated copy disturbs the run.                     *)
ClearAll(r) ==
    /\ run[r] = "clear"
    /\ row' = [e \in Entities |-> NoRow]
    /\ run' = [run EXCEPT ![r] = "wipe"]
    /\ quiet' = [e \in Entities |->
                   /\ quiet[e]
                   /\ \A w \in Workers :
                         e \in Claimed(w) => batch[w][e].doc = db[e]]
    /\ UNCHANGED <<requestVars, nextId, index, pc, batch, faults, spoiled,
                   lock, todo, snap, kills>>

(* Solr deletes every document; an answer other than 200 is only logged.   *)
Wipe(r) ==
    /\ run[r] = "wipe"
    /\ index' = [e \in Entities |-> NoDoc]
    /\ run' = [run EXCEPT ![r] = "copy"]
    /\ todo' = [todo EXCEPT ![r] = Entities]
    /\ UNCHANGED <<requestVars, row, nextId, pc, batch, faults, spoiled,
                   lock, snap, kills, quiet>>

WipeRefused(r) ==
    /\ run[r] = "wipe"
    /\ faults < MaxFaults
    /\ faults' = faults + 1
    /\ run' = [run EXCEPT ![r] = "copy"]
    /\ todo' = [todo EXCEPT ![r] = Entities]
    /\ quiet' = [e \in Entities |-> FALSE]
    /\ UNCHANGED <<requestVars, row, nextId, index, pc, batch, spoiled, lock,
                   snap, kills>>

(* The cursor over the entities yields e, or passes where e would be.      *)
ReadEntity(r, e) ==
    /\ run[r] = "copy"
    /\ e \in todo[r]
    /\ snap[r][e] = NoDoc
    /\ IF db[e].kind = "live"
       THEN snap' = [snap EXCEPT ![r][e] = db[e]] /\ UNCHANGED todo
       ELSE todo' = [todo EXCEPT ![r] = @ \ {e}] /\ UNCHANGED snap
    /\ UNCHANGED <<syncVars, lock, run, kills, quiet>>

(* SearchUpdatesRepo.insert: ON CONFLICT DO NOTHING.                       *)
InsertEntity(r, e) ==
    /\ run[r] = "copy"
    /\ snap[r][e] # NoDoc
    /\ IF row[e].id = 0 THEN Upserted(e, snap[r][e]) ELSE UNCHANGED <<row, nextId>>
    /\ snap' = [snap EXCEPT ![r][e] = NoDoc]
    /\ todo' = [todo EXCEPT ![r] = @ \ {e}]
    /\ UNCHANGED <<requestVars, index, pc, batch, faults, spoiled, lock, run,
                   kills, quiet>>

(* The insert of e raises, or the cursor does and all that is left of the  *)
(* kind of e is skipped: logged, the run goes on.                          *)
SkipEntities(r, S) ==
    /\ run[r] = "copy"
    /\ S # {}
    /\ faults < MaxFaults
    /\ faults' = faults + 1
    /\ todo' = [todo EXCEPT ![r] = @ \ S]
    /\ snap' = [snap EXCEPT ![r] =
                  [e \in Entities |-> IF e \in S THEN NoDoc ELSE @[e]]]
    /\ quiet' = [e \in Entities |-> quiet[e] /\ e \notin S]
    /\ UNCHANGED <<requestVars, row, nextId, index, pc, batch, spoiled, lock,
                   run, kills>>

Copied(r) ==
    /\ run[r] = "copy"
    /\ todo[r] = {}
    /\ run' = [run EXCEPT ![r] = "stop"]
    /\ UNCHANGED <<syncVars, lock, todo, snap, kills, quiet>>

(* clear_all, the Solr calls or the schema migration raise: the error is   *)
(* logged and the run is over.                                             *)
RunFails(r) ==
    /\ run[r] \in {"clear", "wipe"}
    /\ faults < MaxFaults
    /\ faults' = faults + 1
    /\ run' = [run EXCEPT ![r] = "stop"]
    /\ quiet' = [e \in Entities |-> FALSE]
    /\ UNCHANGED <<requestVars, row, nextId, index, pc, batch, spoiled, lock,
                   todo, snap, kills>>

(* The finally clause: ReprovisioningRepository.stop deletes every row of  *)
(* events.reprovisioning, whoever inserted it.                             *)
Stop(r) ==
    /\ run[r] = "stop"
    /\ lock' = FALSE
    /\ run' = [run EXCEPT ![r] = "done"]
    /\ UNCHANGED <<syncVars, todo, snap, kills, quiet>>

(* The server is killed in the middle of a run: the lock stays.            *)
RunCrashes(r) ==
    /\ Active(r)
    /\ faults < MaxFaults
    /\ faults' = faults + 1
    /\ run' = [run EXCEPT ![r] = "dead"]
    /\ todo' = [todo EXCEPT ![r] = {}]
    /\ snap' = [snap EXCEPT ![r] = [e \in Entities |-> NoDoc]]
    /\ quiet' = [e \in Entities |-> FALSE]
    /\ UNCHANGED <<requestVars, row, nextId, index, pc, batch, spoiled, lock,
                   kills>>

(* kill_reprovision_lock: the lock goes, the run goes on.                  *)
KillLock ==
    /\ lock
    /\ kills < MaxKills
    /\ lock' = FALSE
    /\ kills' = kills + 1
    /\ UNCHANGED <<syncVars, run, todo, snap, quiet>>

RunStep(r) ==
    \/ Start(r)
    \/ ClearAll(r)
    \/ Wipe(r)
    \/ WipeRefused(r)
    \/ \E e \in Entities : ReadEntity(r, e) \/ InsertEntity(r, e)
    \/ \E S \in SUBSET todo[r] : SkipEntities(r, S)
    \/ Copied(r)
    \/ RunFails(r)
    \/ Stop(r)
    \/ RunCrashes(r)

RNext ==
    \/ \E e \in Entities :
          /\ Request(e)
          /\ quiet' = [quiet EXCEPT ![e] = FALSE]
          /\ UNCHANGED reprovisionVars
    \/ \E w \in Workers : Round(w) /\ UNCHANGED <<reprovisionVars, quiet>>
    \/ \E w \in Workers :
          /\ Fault(w)
          /\ quiet' = [e \in Entities |-> FALSE]
          /\ UNCHANGED reprovisionVars
    \/ \E r \in Runs : RunStep(r)
    \/ KillLock

RSpec == RInit /\ [][RNext]_rvars

-----------------------------------------------------------------------------
(* Properties.                                                             *)

RTypeOK ==
    /\ TypeOK
    /\ lock \in BOOLEAN
    /\ run \in [Runs -> {"new", "clear", "wipe", "copy", "stop", "done",
                         "dead"}]
    /\ todo \in [Runs -> SUBSET Entities]
    /\ snap \in [Runs -> [Entities -> Doc]]
    /\ kills \in Nat
    /\ quiet \in [Entities -> BOOLEAN]

(* The index has the committed version of e, or the row of e has it and a  *)
(* worker will still take it; and it has nothing of e if e does not exist. *)
Rebuilt(e) ==
    LET staged == row[e].state \in {"open", "locked"} IN
    IF db[e].kind = "live"
    THEN \/ index[e] = db[e]
         \/ staged /\ row[e].doc = db[e]
    ELSE index[e].kind # "live" /\ (staged => row[e].doc.kind # "live")

(* When no run is under way, every quiet entity is back in the index or on *)
(* its way there, whatever the workers did with the old and the new rows   *)
(* meanwhile, whatever happened to other entities, and also when the lock  *)
(* of a crashed run had to be removed first.                               *)
QuietRebuilt ==
    (\A r \in Runs : ~Active(r)) =>
       \A e \in Entities : quiet[e] => Rebuilt(e)

(* What remains of ClaimExclusive when the table is truncated under the    *)
(* workers: a row that is there is in the hands of one worker at most, and *)
(* locked while it is.  So a worker with copies from before never marks    *)
(* the row that a run, or a request, has put there for the same entity.    *)
HeldOnce ==
    \A w \in Workers, e \in Entities :
       batch[w][e].id = row[e].id /\ row[e].id # 0 =>
          /\ row[e].state = "locked"
          /\ \A v \in Workers \ {w} : batch[v][e].id # row[e].id

(* The unique index of events.reprovisioning excludes a second run until   *)
(* somebody removes the lock; a failed or crashed run never admits one.    *)
SingleUnlessKilled ==
    kills = 0 => \A r, s \in Runs : Active(r) /\ Active(s) => r = s

(* The docstring of ReprovisioningORM: "This table is used to make sure    *)
(* that only one instance of reprovisioning is run at any given time."     *)
OnlyOneRun ==
    \A r, s \in Runs : Active(r) /\ Active(s) => r = s

=============================================================================
