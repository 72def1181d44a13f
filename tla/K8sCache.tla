------------------------------ MODULE K8sCache ------------------------------
(***************************************************************************)
(* The cache of Kubernetes objects (sessions, build runs) in Postgres.     *)
(* The k8s_cache process keeps it (K8sWatcher): a watch stream delivers    *)
(* the changes of a cluster, and a full synchronisation runs at the start  *)
(* and then every ten minutes.  The API processes read from it and write   *)
(* to it when they create or patch an object (K8sCachedClusterClient).     *)
(*                                                                         *)
(* One cluster and one kind: objects of different clusters and kinds share *)
(* no state, except that the synchronisation takes the kinds in turn.      *)
(***************************************************************************)
EXTENDS Integers, Sequences, K8sObjects

CONSTANTS
    Objects,      \* names of objects
    Requests,     \* API requests under way
    MaxVersion,   \* bound: changes per object
    MaxRequests,  \* bound: API requests
    MaxFaults     \* bound: failed calls and crashes

ASSUME K8sCacheAssumption ==
    /\ Objects # {}
    /\ MaxVersion \in Nat
    /\ MaxRequests \in Nat
    /\ MaxFaults \in Nat

VARIABLES
    k8s,      \* k8s[o]: the object in the cluster
    cache,    \* cache[o]: the row of o in k8s_objects
    conn,     \* the watch stream is open
    stream,   \* stream[o]: the events of o that the watcher has not handled
    started,  \* the watcher process has done its first synchronisation
    sync,     \* the full synchronisation
    api,      \* api[q]: what request q is about to do
    requests, \* requests so far
    faults,   \* faults so far
    spoiled   \* history: the last write of cache[o] was not what the cluster has

cacheVars == <<k8s, cache, conn, stream, started, sync, api, requests, faults,
               spoiled>>
watchVars == <<conn, stream, started>>

-----------------------------------------------------------------------------
Event == [type : {"changed", "deleted"}, ver : Nat]

(* seen[o]: the version of o in the listing, 0 if it is not there          *)
SyncIdle == [pc |-> "idle", seen |-> [o \in Objects |-> 0], todo |-> {}]

NoOp == [op |-> "no", obj |-> CHOOSE o \in Objects : TRUE, ver |-> 0]

Agrees(o) == cache[o] = Truth(k8s, o)

CacheInit ==
    /\ k8s = [o \in Objects |-> [live |-> FALSE, ver |-> 0]]
    /\ cache = [o \in Objects |-> NoEntry]
    /\ conn = FALSE
    /\ stream = [o \in Objects |-> <<>>]
    /\ started = FALSE
    /\ sync = SyncIdle
    /\ api = [q \in Requests |-> NoOp]
    /\ requests = 0
    /\ faults = 0
    /\ spoiled = [o \in Objects |-> FALSE]

(* A write of the cache.                                                   *)
Put(o, entry) ==
    /\ cache' = [cache EXCEPT ![o] = entry]
    /\ spoiled' = [spoiled EXCEPT ![o] = entry # Truth(k8s, o)]

-----------------------------------------------------------------------------
(* The cluster.                                                            *)

(* The object changes, and the event is on its way if somebody watches.    *)
Changed(o, live) ==
    /\ k8s' = [k8s EXCEPT ![o] = [live |-> live, ver |-> @.ver + 1]]
    /\ stream' = IF conn
                 THEN [stream EXCEPT ![o] = Append(@,
                         [type |-> IF live THEN "changed" ELSE "deleted",
                          ver |-> k8s[o].ver + 1])]
                 ELSE stream

(* A controller changes or removes the object, or a user does.             *)
ClusterChanges(o) ==
    /\ k8s[o].live
    /\ k8s[o].ver < MaxVersion
    /\ \E live \in BOOLEAN : Changed(o, live)
    /\ UNCHANGED <<cache, conn, started, sync, api, requests, faults, spoiled>>

-----------------------------------------------------------------------------
(* The watch of a kind (K8sWatcher.__watch_kind, k8s_object_handler).      *)

(* The stream begins with an event for every object there is.  What was    *)
(* deleted while nobody watched leaves no trace.  The watch does not begin *)
(* while a synchronisation runs; one that is open goes on.                 *)
Connect ==
    /\ started
    /\ ~conn
    /\ sync.pc = "idle"
    /\ conn' = TRUE
    /\ stream' = [o \in Objects |->
                    IF k8s[o].live
                    THEN <<[type |-> "changed", ver |-> k8s[o].ver]>> ELSE <<>>]
    /\ spoiled' = [o \in Objects |->
                    spoiled[o] \/ (~k8s[o].live /\ ~Agrees(o))]
    /\ UNCHANGED <<k8s, cache, started, sync, api, requests, faults>>

(* The server ends the stream, a read fails, or the handler raises: the    *)
(* events it held are lost.                                                *)
StreamEnds ==
    /\ conn
    /\ conn' = FALSE
    /\ stream' = [o \in Objects |-> <<>>]
    /\ UNCHANGED <<k8s, cache, started, sync, api, requests, faults, spoiled>>

(* Mutant: every event is an upsert.                                       *)
HandleUpserts(o) ==
    /\ stream[o] # <<>>
    /\ stream' = [stream EXCEPT ![o] = Tail(@)]
    /\ cache' = [cache EXCEPT ![o] = Real(Head(stream[o]).ver)]
    /\ spoiled' = [spoiled EXCEPT ![o] = FALSE]
    /\ UNCHANGED <<k8s, conn, started, sync, api, requests, faults>>

(* The events of one object are handled in order.  A later event mends     *)
(* what an earlier one gets wrong.                                         *)
HandleEvent(o) ==
    /\ stream[o] # <<>>
    /\ stream' = [stream EXCEPT ![o] = Tail(@)]
    /\ cache' = [cache EXCEPT ![o] =
                   IF Head(stream[o]).type = "deleted" THEN NoEntry
                   ELSE Real(Head(stream[o]).ver)]
    /\ spoiled' = [spoiled EXCEPT ![o] = FALSE]
    /\ UNCHANGED <<k8s, conn, started, sync, api, requests, faults>>

-----------------------------------------------------------------------------
(* The full synchronisation (__periodic_full_sync, __full_sync, __sync).   *)

ListedAs(S) ==
    sync' = [pc |-> "upsert", seen |-> [o \in Objects |->
                                          IF o \in S THEN k8s[o].ver ELSE 0],
             todo |-> S]

SyncList ==
    /\ sync.pc = "idle"
    /\ ListedAs({o \in Objects : k8s[o].live})
    /\ UNCHANGED <<k8s, cache, watchVars, api, requests, faults, spoiled>>

(* K8sClusterClient.list swallows the errors of the server, __sync logs    *)
(* the others (for clusters that are not the default one): either way what *)
(* was listed so far passes for the whole.                                 *)
SyncListsPart ==
    /\ sync.pc = "idle"
    /\ faults < MaxFaults
    /\ \E S \in SUBSET {o \in Objects : k8s[o].live} : ListedAs(S)
    /\ faults' = faults + 1
    /\ UNCHANGED <<k8s, cache, watchVars, api, requests, spoiled>>

SyncUpsert(o) ==
    /\ sync.pc = "upsert"
    /\ o \in sync.todo
    /\ Put(o, Real(sync.seen[o]))
    /\ sync' = [sync EXCEPT !.todo = @ \ {o}]
    /\ UNCHANGED <<k8s, watchVars, api, requests, faults>>

(* Then the cache is read: what is in it and was not listed goes.          *)
SyncCompare ==
    /\ sync.pc = "upsert"
    /\ sync.todo = {}
    /\ sync' = [sync EXCEPT !.pc = "delete",
                            !.todo = {o \in Objects : /\ cache[o] # NoEntry
                                                      /\ sync.seen[o] = 0}]
    /\ UNCHANGED <<k8s, cache, watchVars, api, requests, faults, spoiled>>

(* Mutant: the synchronisation only adds.                                  *)
SyncKeep(o) ==
    /\ sync.pc = "delete"
    /\ o \in sync.todo
    /\ sync' = [sync EXCEPT !.todo = @ \ {o}]
    /\ UNCHANGED <<k8s, cache, spoiled, watchVars, api, requests, faults>>

SyncDelete(o) ==
    /\ sync.pc = "delete"
    /\ o \in sync.todo
    /\ Put(o, NoEntry)
    /\ sync' = [sync EXCEPT !.todo = @ \ {o}]
    /\ UNCHANGED <<k8s, watchVars, api, requests, faults>>

SyncDone ==
    /\ sync.pc = "delete"
    /\ sync.todo = {}
    /\ sync' = SyncIdle
    /\ started' = TRUE
    /\ UNCHANGED <<k8s, cache, conn, stream, api, requests, faults, spoiled>>

(* Mutant: the task of the synchronisation dies alone, and the cluster     *)
(* stays in __full_sync_running.                                           *)
SyncTaskDies ==
    /\ faults < MaxFaults
    /\ started \/ sync # SyncIdle
    /\ sync' = [SyncIdle EXCEPT !.pc = "dead"]
    /\ faults' = faults + 1
    /\ UNCHANGED <<k8s, cache, watchVars, api, requests, spoiled>>

(* The process is killed, or an exception leaves the synchronisation (an   *)
(* error of the database, an object without a user, an error of the list   *)
(* of the default cluster): K8sWatcher.wait raises it, main ends, and the  *)
(* process starts again.                                                   *)
WatcherDies ==
    /\ faults < MaxFaults
    /\ started \/ sync # SyncIdle
    /\ conn' = FALSE
    /\ stream' = [o \in Objects |-> <<>>]
    /\ started' = FALSE
    /\ sync' = SyncIdle
    /\ faults' = faults + 1
    /\ UNCHANGED <<k8s, cache, api, requests, spoiled>>

-----------------------------------------------------------------------------
(* API requests (K8sCachedClusterClient).                                  *)

(* create: the cache is written before the object exists.                  *)
ApiDraft(q, o) ==
    /\ api[q].op = "no"
    /\ requests < MaxRequests
    /\ Put(o, Draft)
    /\ api' = [api EXCEPT ![q] = [op |-> "draft", obj |-> o, ver |-> 0]]
    /\ requests' = requests + 1
    /\ UNCHANGED <<k8s, watchVars, sync, faults>>

(* Mutant: a creation that is refused leaves its row.                      *)
ApiCreateLeaves(q) ==
    LET o == api[q].obj
    IN /\ api[q].op = "draft"
       /\ \/ /\ ~k8s[o].live
             /\ k8s[o].ver < MaxVersion
             /\ Changed(o, TRUE)
             /\ api' = [api EXCEPT ![q].op = "put", ![q].ver = k8s[o].ver + 1]
          \/ /\ api' = [api EXCEPT ![q] = NoOp]
             /\ UNCHANGED <<k8s, stream>>
       /\ UNCHANGED <<cache, conn, started, sync, requests, faults, spoiled>>

(* The cluster creates the object and the request reads it again, or it    *)
(* refuses (the name is taken, a quota, an admission hook).                *)
ApiCreate(q) ==
    LET o == api[q].obj
    IN /\ api[q].op = "draft"
       /\ \/ /\ ~k8s[o].live
             /\ k8s[o].ver < MaxVersion
             /\ Changed(o, TRUE)
             /\ api' = [api EXCEPT ![q].op = "put", ![q].ver = k8s[o].ver + 1]
          \/ /\ api' = [api EXCEPT ![q].op = "drop"]
             /\ UNCHANGED <<k8s, stream>>
       /\ UNCHANGED <<cache, conn, started, sync, requests, faults, spoiled>>

(* The call fails, before or after the object was created.                 *)
ApiCreateFails(q) ==
    LET o == api[q].obj
    IN /\ api[q].op = "draft"
       /\ faults < MaxFaults
       /\ \/ UNCHANGED <<k8s, stream>>
          \/ ~k8s[o].live /\ k8s[o].ver < MaxVersion /\ Changed(o, TRUE)
       /\ api' = [api EXCEPT ![q].op = "drop"]
       /\ faults' = faults + 1
       /\ UNCHANGED <<cache, conn, started, sync, requests, spoiled>>

(* patch: the object is changed first, its new manifest written then.      *)
ApiPatch(q, o) ==
    /\ api[q].op = "no"
    /\ requests < MaxRequests
    /\ k8s[o].live
    /\ k8s[o].ver < MaxVersion
    /\ Changed(o, TRUE)
    /\ api' = [api EXCEPT ![q] = [op |-> "put", obj |-> o,
                                  ver |-> k8s[o].ver + 1]]
    /\ requests' = requests + 1
    /\ UNCHANGED <<cache, conn, started, sync, faults, spoiled>>

ApiPut(q) ==
    /\ api[q].op = "put"
    /\ Put(api[q].obj, Real(api[q].ver))
    /\ api' = [api EXCEPT ![q] = NoOp]
    /\ UNCHANGED <<k8s, watchVars, sync, requests, faults>>

(* After any error of create the row is deleted, whoever wrote it.         *)
ApiDrop(q) ==
    /\ api[q].op = "drop"
    /\ Put(api[q].obj, NoEntry)
    /\ api' = [api EXCEPT ![q] = NoOp]
    /\ UNCHANGED <<k8s, watchVars, sync, requests, faults>>

(* The API process is killed or the database fails: the rest is not done.  *)
ApiDies(q) ==
    /\ api[q].op # "no"
    /\ faults < MaxFaults
    /\ api' = [api EXCEPT ![q] = NoOp]
    /\ faults' = faults + 1
    /\ UNCHANGED <<k8s, cache, watchVars, sync, requests, spoiled>>

-----------------------------------------------------------------------------

FullSync ==
    \/ SyncList
    \/ \E o \in Objects : SyncUpsert(o)
    \/ SyncCompare
    \/ \E o \in Objects : SyncDelete(o)
    \/ SyncDone

Watching ==
    \/ Connect
    \/ StreamEnds
    \/ \E o \in Objects : HandleEvent(o)

Answer(q) == ApiCreate(q) \/ ApiPut(q) \/ ApiDrop(q)

CacheFault ==
    \/ SyncListsPart
    \/ WatcherDies
    \/ \E q \in Requests : ApiCreateFails(q) \/ ApiDies(q)

CacheNext ==
    \/ \E o \in Objects : ClusterChanges(o)
    \/ FullSync
    \/ Watching
    \/ \E q \in Requests : \/ \E o \in Objects : ApiDraft(q, o) \/ ApiPatch(q, o)
                           \/ Answer(q)
    \/ CacheFault

CacheSpec == CacheInit /\ [][CacheNext]_cacheVars

(* The synchronisation runs for ever (its pauses are not modelled), and a  *)
(* request runs to its end.  Nothing is assumed of the watch: the stream   *)
(* may end at once, every time.                                            *)
CacheFairness ==
    /\ WF_cacheVars(FullSync)
    /\ \A q \in Requests : WF_cacheVars(Answer(q))

CacheFairSpec == CacheSpec /\ CacheFairness

-----------------------------------------------------------------------------
(* Properties.                                                             *)

CacheTypeOK ==
    /\ k8s \in [Objects -> Objs]
    /\ cache \in [Objects -> Entry]
    /\ conn \in BOOLEAN
    /\ stream \in [Objects -> Seq(Event)]
    /\ started \in BOOLEAN
    /\ sync \in [pc : {"idle", "upsert", "delete"}, seen : [Objects -> Nat],
                 todo : SUBSET Objects]
    /\ api \in [Requests -> [op : {"no", "draft", "put", "drop"},
                             obj : Objects, ver : Nat]]
    /\ requests \in Nat
    /\ faults \in Nat
    /\ spoiled \in [Objects -> BOOLEAN]

(* While the watch is open the cache says what the cluster has, except for *)
(* events that are still to be handled and for the writes that ignore the  *)
(* watch: stale rows of the synchronisation and of API requests, drafts,   *)
(* and deletions nobody watched.                                           *)
WatchedIsAccurate ==
    \A o \in Objects :
       conn /\ stream[o] = <<>> /\ ~spoiled[o] => Agrees(o)

(* A draft in the cache is of a creation that is still under way: whatever *)
(* becomes of it, also when several requests and the synchronisation work  *)
(* on one name, the last of them writes over the draft.  Only a request    *)
(* that died leaves one, until a synchronisation.                          *)
DraftHasRequest ==
    \A o \in Objects :
       cache[o].kind = "draft" =>
          \/ \E q \in Requests : api[q].op # "no" /\ api[q].obj = o
          \/ faults > 0

(* The cache keeps what ObjectCache promises its readers: it never makes   *)
(* up a version, drafts come from creations only, and although events,     *)
(* requests, partial listings and races of the synchronisation leave wrong *)
(* rows, an object that no longer changes is shown as it is in the end,    *)
(* one that is gone not at all.                                            *)
View == INSTANCE ObjectCache
ImplementsView == View!ViewFairSpec
=============================================================================
