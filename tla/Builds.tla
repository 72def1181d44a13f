------------------------------- MODULE Builds -------------------------------
(***************************************************************************)
(* The builds of a session environment (SessionRepository, ShipwrightClient)*)
(* Rows of builds in Postgres, BuildRuns in the cluster.  A request reads   *)
(* the rows, refreshes those in progress from the cache of Kubernetes       *)
(* objects, and commits; only then does it create or patch the BuildRun.    *)
(* Nothing but requests refreshes a row.                                    *)
(*                                                                          *)
(* The objects of ObjectCache are the BuildRuns.  A BuildRun has the name   *)
(* of its build, and its number stands for the build's ULID: builds are     *)
(* numbered as they are created.  One environment.                          *)
(***************************************************************************)
EXTENDS Integers, Sequences, FiniteSets, ObjectCache

LOCAL INSTANCE FiniteSetsExt

CONSTANTS
    Requests,
    Does,         \* Does[q]: the operations request q may be
    MaxUpsets     \* bound: cancellations, and requests that fail or die

ASSUME BuildsAssumption ==
    /\ Objects \subseteq Nat \ {0}
    /\ IsFiniteSet(Objects)
    /\ IsFiniteSet(Requests)
    /\ MaxUpsets \in Nat
    /\ MaxVersion \in Nat
    /\ MaxVersion >= 2 + MaxUpsets

VARIABLES
    phases,   \* phases[b]: the states of BuildRun b by version
    row,      \* row[b]: the status of build b
    env,      \* the row of the environment
    req,      \* the requests
    cancels, faults,
    hist      \* history, for the properties

vars == <<k8s, cache, phases, row, env, req, cancels, faults, hist>>
clusterVars == <<k8s, cache, phases>>

-----------------------------------------------------------------------------

NoUpdate == [b \in Objects |-> "no"]
Idle == [pc |-> "idle", op |-> "no", b |-> 0, todo |-> {}, upd |-> NoUpdate]

(* env.image: the build whose image the environment has, or 0 if it has    *)
(* one that a user gave (source "image") or the placeholder.               *)
Init ==
    /\ ViewInit
    /\ phases = [b \in Objects |-> <<>>]
    /\ row = [b \in Objects |-> "none"]
    /\ env = [source |-> "build", image |-> 0]
    /\ req = [q \in Requests |-> Idle]
    /\ cancels = 0
    /\ faults = 0
    /\ hist = [overlapped |-> FALSE, late |-> FALSE, busy |-> FALSE,
               early |-> {}]

InProgress == {b \in Objects : row[b] = "in_progress"}
Starting == {q \in Requests : req[q].op = "start" /\ req[q].pc \in {"check", "commit"}}
(* Requests with builds in hand that they read in progress.                *)
Refreshing == {q \in Requests : req[q].op = "get"}
Phase(b) == phases[b][Len(phases[b])]
Completed == {"succeeded", "failed"}

(* Mutant: the phase is stored as it comes.                                *)
OutcomeRaw(b) ==
    IF cache[b] = NoEntry THEN "failed"
    ELSE IF cache[b] = Draft THEN "no"
    ELSE phases[b][cache[b].ver]

(* Mutant: what has a completion time has succeeded.                       *)
OutcomeCompleted(b) ==
    IF cache[b] = NoEntry THEN "failed"
    ELSE IF cache[b] = Draft THEN "no"
    ELSE IF phases[b][cache[b].ver] \in Completed THEN "succeeded"
    ELSE "no"

(* Mutant: a BuildRun that is not there may still come.                    *)
OutcomePatient(b) ==
    IF cache[b] \in {NoEntry, Draft} THEN "no"
    ELSE IF phases[b][cache[b].ver] \in Completed THEN phases[b][cache[b].ver]
    ELSE "no"

(* update_image_build_status: what the cache shows of BuildRun b.  One that*)
(* is not there has failed; a draft has no status yet.                     *)
Outcome(b) ==
    IF cache[b] = NoEntry THEN "failed"
    ELSE IF cache[b] = Draft THEN "no"
    ELSE IF phases[b][cache[b].ver] \in Completed THEN phases[b][cache[b].ver]
    ELSE "no"

-----------------------------------------------------------------------------
(* The cluster and the cache.                                              *)

(* BuildRun b changes to a phase.                                          *)
Becomes(b, phase) ==
    /\ Change(b, TRUE)
    /\ phases' = [phases EXCEPT ![b] = Append(@, phase)]

(* A BuildRun ends, also one that was told to stop, or runs out of time.   *)
Progress(b) ==
    /\ k8s[b].live
    /\ Phase(b) \notin Completed
    /\ \E phase \in Completed : Becomes(b, phase)
    /\ UNCHANGED <<row, env, req, cancels, faults, hist>>

(* The cache shows b as it likes.  (Shipwright removes a BuildRun some time*)
(* after it has ended: to who reads the cache that is ShowNothing.)        *)
CacheMoves(b) ==
    /\ ShowNothing(b) \/ ShowVersion(b)
    /\ UNCHANGED <<phases, row, env, req, cancels, faults, hist>>

-----------------------------------------------------------------------------
(* The environment.                                                        *)

(* update_launcher with an image of the user's: nothing looks at the builds*)
(* under way.                                                              *)
SetImage ==
    /\ env.source = "build"
    /\ env' = [env EXCEPT !.source = "image", !.image = 0]
    /\ hist' = [hist EXCEPT !.busy = @ \/ InProgress # {} \/ Starting # {}
                                       \/ Refreshing # {}]
    /\ UNCHANGED <<clusterVars, row, req, cancels, faults>>

-----------------------------------------------------------------------------
(* Requests.                                                               *)

(* A request reads its rows: T are those in progress that it refreshes.    *)
Looks(q, op, b, T) ==
    /\ op \in Does[q]
    /\ req[q] = Idle
    /\ req' = [req EXCEPT ![q] = [Idle EXCEPT !.op = op, !.b = b, !.todo = T,
                                  !.pc = IF T = {} THEN "commit" ELSE "check"]]

(* get_build of one build, get_environment_builds of all.                  *)
LookGet(q) ==
    /\ \E T \in {InProgress} \cup {{b} : b \in InProgress} :
          T # {} /\ Looks(q, "get", 0, T)
    /\ UNCHANGED <<clusterVars, row, env, cancels, faults, hist>>

(* Mutant: builds start in any environment.                                *)
LookStartAny(q) ==
    /\ Cardinality(Starting) < Cardinality({b \in Objects : row[b] = "none"})
    /\ Looks(q, "start", 0, InProgress)
    /\ hist' = [hist EXCEPT !.overlapped = @ \/ Starting # {}]
    /\ UNCHANGED <<clusterVars, row, env, cancels, faults>>

(* start_build.  (An environment with an image has no build parameters.)   *)
LookStart(q) ==
    /\ env.source = "build"
    /\ Cardinality(Starting) < Cardinality({b \in Objects : row[b] = "none"})
    /\ Looks(q, "start", 0, InProgress)
    /\ hist' = [hist EXCEPT !.overlapped = @ \/ Starting # {}]
    /\ UNCHANGED <<clusterVars, row, env, cancels, faults>>

(* update_build.  A build that succeeded or failed is refused.             *)
LookCancel(q, b) ==
    /\ cancels + faults < MaxUpsets
    /\ row[b] \in {"in_progress", "cancelled"}
    /\ Looks(q, "cancel", b, {b} \cap InProgress)
    /\ cancels' = cancels + 1
    /\ UNCHANGED <<clusterVars, row, env, faults, hist>>

(* Mutant: a start does not wait for the builds before the newest.         *)
CheckNewest(q) ==
    LET r == req[q]
        b == Max(r.todo)
    IN /\ r.pc = "check"
       /\ req' = [req EXCEPT ![q] =
            IF r.op = "cancel" /\ Outcome(b) # "no" THEN Idle
            ELSE [r EXCEPT !.todo = @ \ {b}, !.upd[b] = Outcome(b),
                           !.pc = IF r.todo = {b} THEN "commit" ELSE "check"]]
       /\ UNCHANGED <<clusterVars, row, env, cancels, faults, hist>>

(* _refresh_build reads the cache, the newest build comes first.  Still in *)
(* progress: a start is a conflict.  Not any more: a cancellation is       *)
(* refused.  Either way the transaction rolls back, and with it what the   *)
(* request found out about this and other builds.                          *)
Check(q) ==
    LET r == req[q]
        b == Max(r.todo)
        out == Outcome(b)
        rest == r.todo \ {b}
    IN /\ r.pc = "check"
       /\ req' = [req EXCEPT ![q] =
            IF \/ r.op = "start" /\ out = "no"
               \/ r.op = "cancel" /\ out # "no"
            THEN Idle
            ELSE [r EXCEPT !.todo = rest, !.upd[b] = out,
                           !.pc = IF rest = {} THEN "commit" ELSE "check"]]
       /\ UNCHANGED <<clusterVars, row, env, cancels, faults, hist>>

(* The rows that a transaction writes, whatever they say by now, and the   *)
(* environment, which gets the image of the last one refreshed.            *)
Writes(r) == {b \in Objects : r.upd[b] # "no"}
Built(r) == {b \in Objects : r.upd[b] = "succeeded"}
(* The rows after the transaction of r.                                    *)
Written(r) == [b \in Objects |-> IF r.upd[b] # "no" THEN r.upd[b] ELSE row[b]]

(* Mutant: only an environment without an image gets one.                  *)
EquippedOnce(r) == IF Built(r) = {} \/ env.image # 0 THEN env
                   ELSE [env EXCEPT !.image = Min(Built(r))]

(* The environment after it.                                               *)
Equipped(r) == IF Built(r) = {} THEN env
               ELSE [env EXCEPT !.image = Min(Built(r))]

(* A row was settled by somebody else in the meantime.                     *)
Late(B) == \E b \in B : row[b] # "in_progress"

CommitGet(q) ==
    LET r == req[q]
    IN /\ r.pc = "commit"
       /\ r.op = "get"
       /\ row' = Written(r)
       /\ env' = Equipped(r)
       /\ req' = [req EXCEPT ![q] = Idle]
       /\ hist' = [hist EXCEPT !.late = @ \/ Late(Writes(r))]
       /\ UNCHANGED <<clusterVars, cancels, faults>>

(* The row is committed in progress, the BuildRun is still to be created.  *)
(* If the user may not clone the repository the transaction rolls back.    *)
CommitStart(q) ==
    LET r == req[q]
        b == Min({x \in Objects : row[x] = "none"})
    IN /\ r.pc = "commit"
       /\ r.op = "start"
       /\ \/ /\ row' = [Written(r) EXCEPT ![b] = "in_progress"]
             /\ env' = Equipped(r)
             /\ req' = [req EXCEPT ![q] = [Idle EXCEPT !.pc = "draft", !.b = b]]
             /\ hist' = [hist EXCEPT !.late = @ \/ Late(Writes(r))]
          \/ /\ req' = [req EXCEPT ![q] = Idle]
             /\ UNCHANGED <<row, env, hist>>
       /\ UNCHANGED <<clusterVars, cancels, faults>>

(* The row of a build that was cancelled before does not change, nor does  *)
(* any if the patch says nothing of the status; the BuildRun is told to    *)
(* stop all the same.                                                      *)
CommitCancel(q) ==
    LET r == req[q]
    IN /\ r.pc = "commit"
       /\ r.op = "cancel"
       /\ \/ /\ row' = [Written(r) EXCEPT ![r.b] = "cancelled"]
             /\ hist' = [hist EXCEPT
                            !.late = @ \/ row[r.b] \in Completed,
                            !.early = IF phases[r.b] = <<>> THEN @ \cup {r.b}
                                      ELSE @]
          \/ row' = Written(r) /\ hist' = hist
       /\ req' = [req EXCEPT ![q] = [Idle EXCEPT !.pc = "patch", !.b = r.b]]
       /\ UNCHANGED <<clusterVars, env, cancels, faults>>

(* create_build_run: the cached client writes the draft, then the BuildRun *)
(* is created or refused.  What create puts in the cache after that is a   *)
(* move of the cache.                                                      *)
DraftRun(q) ==
    /\ req[q].pc = "draft"
    /\ ShowDraft(req[q].b)
    /\ req' = [req EXCEPT ![q].pc = "create"]
    /\ UNCHANGED <<phases, row, env, cancels, faults, hist>>

CreateRun(q) ==
    /\ req[q].pc = "create"
    /\ \/ Becomes(req[q].b, "running")
       \/ ShowNothing(req[q].b) /\ UNCHANGED phases
    /\ req' = [req EXCEPT ![q] = Idle]
    /\ UNCHANGED <<row, env, cancels, faults, hist>>

(* Mutant: only the row is cancelled.                                      *)
PatchNothing(q) ==
    /\ req[q].pc = "patch"
    /\ req' = [req EXCEPT ![q] = Idle]
    /\ UNCHANGED <<clusterVars, row, env, cancels, faults, hist>>

(* Mutant: a cancellation that could not be done is taken back.            *)
PatchOrRevert(q) ==
    LET b == req[q].b
    IN /\ req[q].pc = "patch"
       /\ IF k8s[b].live
          THEN /\ Becomes(b, IF Phase(b) \in Completed THEN Phase(b)
                             ELSE "stopping")
               /\ row' = row
          ELSE /\ row' = [row EXCEPT ![b] = "in_progress"]
               /\ UNCHANGED clusterVars
       /\ req' = [req EXCEPT ![q] = Idle]
       /\ UNCHANGED <<env, cancels, faults, hist>>

(* cancel_build_run: a BuildRun that is not there is an error, after the   *)
(* row was committed as cancelled.                                         *)
PatchRun(q) ==
    LET b == req[q].b
    IN /\ req[q].pc = "patch"
       /\ IF k8s[b].live
          THEN Becomes(b, IF Phase(b) \in Completed THEN Phase(b)
                          ELSE "stopping")
          ELSE UNCHANGED clusterVars
       /\ req' = [req EXCEPT ![q] = Idle]
       /\ UNCHANGED <<row, env, cancels, faults, hist>>

(* The request fails, is given up or dies with its process.                *)
Fail(q) ==
    /\ req[q] # Idle
    /\ cancels + faults < MaxUpsets
    /\ req' = [req EXCEPT ![q] = Idle]
    /\ faults' = faults + 1
    /\ UNCHANGED <<clusterVars, row, env, cancels, hist>>

-----------------------------------------------------------------------------

GoesOn(q) ==
    \/ Check(q)
    \/ CommitGet(q)
    \/ CommitStart(q)
    \/ CommitCancel(q)
    \/ DraftRun(q)
    \/ CreateRun(q)
    \/ PatchRun(q)

Next ==
    \/ \E b \in Objects : Progress(b) \/ CacheMoves(b)
    \/ SetImage
    \/ \E q \in Requests :
          \/ LookGet(q)
          \/ LookStart(q)
          \/ \E b \in Objects : LookCancel(q, b)
          \/ GoesOn(q)
          \/ Fail(q)

Spec == Init /\ [][Next]_vars

(* Requests are handled to their end, Shipwright ends every BuildRun (they *)
(* have a timeout), the cache keeps its promise.  And clients, while they  *)
(* show a build in progress, keep asking for it: without that no row ever  *)
(* changes.                                                                *)
Fairness ==
    /\ \A q \in Requests : WF_vars(GoesOn(q))
    /\ WF_vars(\E b \in Objects : Progress(b))
    /\ SF_vars(\E q \in Requests : LookGet(q))
    /\ ViewConverges

FairSpec == Spec /\ Fairness

-----------------------------------------------------------------------------
(* Properties.                                                             *)

TypeOK ==
    /\ k8s \in [Objects -> Objs]
    /\ cache \in [Objects -> Entry]
    /\ phases \in [Objects -> Seq({"running", "stopping", "succeeded",
                                   "failed"})]
    /\ row \in [Objects -> {"none", "in_progress", "succeeded", "failed",
                            "cancelled"}]
    /\ env \in [source : {"build", "image"},
                image : Objects \cup {0}]
    /\ req \in [Requests ->
                 [pc : {"idle", "check", "commit", "draft", "create", "patch"},
                  op : {"no", "get", "start", "cancel"},
                  b : Objects \cup {0}, todo : SUBSET Objects,
                  upd : [Objects -> {"no", "succeeded", "failed"}]]]
    /\ cancels \in Nat
    /\ faults \in Nat
    /\ hist \in [overlapped : BOOLEAN, late : BOOLEAN, busy : BOOLEAN,
                 early : SUBSET Objects]
    /\ \A b \in Objects : Len(phases[b]) = k8s[b].ver

(* A build that is shown as succeeded has succeeded in the cluster, and an *)
(* environment has the image of no other: stale rows of the cache and      *)
(* requests that write late can hide a success, they cannot make one up.   *)
SucceededIsReal ==
    \A b \in Objects :
       row[b] = "succeeded" \/ env.image = b =>
          \E v \in 1 .. Len(phases[b]) : phases[b][v] = "succeeded"

(* An environment has one build in progress, unless two starts overlapped: *)
(* no refresh, cancellation or failure in between brings one back.         *)
OneInProgress ==
    ~hist.overlapped => Cardinality(InProgress) <= 1

(* The image of an environment that is built is that of the last build     *)
(* that succeeded, unless two starts overlapped or a request wrote what it *)
(* had found out before another one settled the build.                     *)
ImageFromNewest ==
    env.image # 0 /\ ~hist.overlapped /\ ~hist.late =>
       /\ row[env.image] = "succeeded"
       /\ \A b \in Objects : row[b] = "succeeded" => b <= env.image

(* The image that a user gave is replaced by that of a build only if, when *)
(* it was given, a build was in progress or about to be, or a request had  *)
(* builds in hand that it had read in progress: never by one that is       *)
(* settled, however often it is read.                                      *)
UserImageKept ==
    env.source = "image" /\ env.image # 0 => hist.busy

(* A cancelled build does not run on, unless it was cancelled before its   *)
(* BuildRun was created, or the request failed before the patch.           *)
CancelStops ==
    \A b \in Objects :
       row[b] = "cancelled" /\ k8s[b].live /\ Phase(b) = "running" =>
          \/ \E q \in Requests : req[q].pc = "patch" /\ req[q].b = b
          \/ b \in hist.early
          \/ faults > 0

(* A build that is settled is never in progress again, although requests   *)
(* write rows that they read long before.                                  *)
NeverReopened ==
    [][\A b \in Objects : row[b] \in Completed \cup {"cancelled"} =>
          row'[b] # "in_progress"]_vars

(* No build is in progress for ever while somebody asks for it, also one   *)
(* whose BuildRun was never created because its request died: of finitely  *)
(* many builds none is left in progress.                                   *)
InProgressEnds == <>[](InProgress = {})
=============================================================================
