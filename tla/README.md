# A verification project for renku-data-services

TLA+ models of the protocols inside renku-data-services, the TLC runs that
check them on small instances, and the theorems that TLAPS proves for every
instance. Paths below are relative to
`src/components/renku_data_services/` unless they start with `bases/`
(`src/bases/renku_data_services/`).

## 1. The system

renku-data-services is a Python (asyncio, Sanic, SQLAlchemy) back end. Several
processes run at the same time: replicas of `data_api` (HTTP requests), the
`data_tasks` service (a task manager with background tasks), `k8s_cache` (watches
Kubernetes), `secrets_storage` and `notebooks`. They share

- **Postgres**, the source of truth, with row locks, `FOR UPDATE SKIP LOCKED`
  and unique indexes;
- **SpiceDB** (Authzed), the relationships that permissions are evaluated on;
- **Solr**, the search index;
- **Kubernetes**, the sessions, builds, quotas and placeholder deployments;
- **Keycloak**, **GitLab** and other external services.

Hardly any operation touches one store only, and there is no transaction over
two of them. So the questions worth asking are: what do two stores say about
each other after any interleaving of requests, background tasks, failures and
crashes, and what is lost for good.

### Inventory

| component | state | operations | what is hard | properties that make it correct | module |
|---|---|---|---|---|---|
| search staging and synchronisation (`search/db.py`, `core.py`, `decorators.py`) | `events.search_updates`, the Solr documents, batches in workers | stage (upsert), `select_next`, Solr upsert, mark processed/reset/failed, purge of deleted documents | upserts hit rows in use; staging commits before the request does; no version check in Solr; crashes leave rows locked | rows are handed out once; no write is lost; the index converges to Postgres and does not go back; rows do not starve | `SearchSync` implements `SearchIndex` |
| search reprovisioning (`search/reprovision.py`, `message_queue/db.py`) | the lock row `events.reprovisioning`, the cursor of the run | start, truncate, wipe Solr, copy every entity, stop, remove the lock | runs beside requests and workers; the lock survives a crash and does not survive its removal | one run at a time; a row is in the hands of one worker; an entity nobody touches is back afterwards | `SearchReprovision` |
| project authorization (`authz/authz.py`, `project/db.py`, `bases/data_tasks/task_defs.py`) | project rows, SpiceDB relationships | insert, update, delete, members, repair of namespaces | two stores written one after the other, inverse on failure, reads before locks | a committed project has its relationships and an owner; visibility agrees; nothing is left behind | `ProjectAuthz` |
| capacity reservation (`capacity_reservation/`) | reservations and occurrences in Postgres, placeholder deployments | activate, monitor, clean up; create and delete by the API | three tasks and the API; occurrences share deployment names; a failed call between the stores ends the round | an active occurrence keeps its deployment; deployments leak only after a fault and orphans go; what is due is served | `CapacityReservation` implements `OccurrenceLife` |
| Kubernetes cache (`k8s/watcher`, `k8s/db.py`, `K8sCachedClusterClient`) | cache table, watch streams, running synchronisations | watch events, full synchronisation, create and patch by the API | listing, events and API write one row without order; partial listings; lost events | only genuine versions; what changes no more is shown as it is; drafts do not stay | `K8sCache` implements `ObjectCache` |
| sessions, environments, builds (`session/`) | build rows, build runs, the image of the environment | start, get, list, cancel, refresh | check then insert; BuildRun after commit; rows written from old reads | one build in progress; success is real; the image is the newest; cancelled builds stop; none is in progress for ever | `Builds` (on `ObjectCache`) |
| user secrets, key rotation (`secrets/db.py`, `users/db.py`) | user keys, encrypted secrets, RSA keys | get or create key, store, delete, rotate in batches | two first uses; rotation against updates, deletions and restarts | every stored secret opens; the value stored last stays; a finished rotation left none behind but what it logged | `UserSecrets` |
| Solr client and schema migration (`solr/`) | version document with `running` flag, the schema | `migrate` | optimistic lock, killed migrator | versions apply once and in order | - |
| search query (`search/core.py`) | none | parse, translate | text | - | - |
| Kubernetes clients and quotas (`k8s/clients.py`, `crc/db.py`) | priority classes, resource quotas | create, update, delete a pair | partial failure | both or none | - |
| connected services (`connected_services/`) | OAuth tokens | refresh under the row lock | refresh tokens are used once | a refresh never invalidates a fresh token | - |
| task manager (`bases/data_tasks/taskman.py`) | running tasks, restart delays | start, restart, cancel, join | restart against cancel | a task is running or about to be, unless cancelled | - |
| alerts (`notifications/db.py`) | alerts | create or update, resolve | check then insert | at most one unresolved alert | - |
| namespaces and groups (`namespace/`) | groups, slugs, old slugs | rename, delete | slugs stay unique over old ones | a slug resolves to one thing | - |
| data connectors (`data_connectors/db.py`) | rows, links, relationships | CRUD, link | as project authorization | as project authorization | - |
| users and Keycloak sync (`users/`) | users, last event | batch sync | repeated and reordered events | users converge to Keycloak | - |
| resource pools and classes (`crc/`) | pools, classes, members | CRUD | validation over several rows | quotas bound the classes | - |
| notebooks, resource usage, storage, repositories, authentication, platform, metrics, web framework, migrations | mostly none of their own | I/O and CRUD | - | - | - |

`PROJECT.json` lists them with their status, and lists the hazards of the code
line by line; those without a property say why. What is left out of the modelled
components, and why the others are not modelled, is the subject of section 5.

The modelled components meet in few places, and the models are composed there:
`SearchReprovision` extends `SearchSync` (they share the staging table and the
index), `Builds` extends `ObjectCache`, the promise that `K8sCache` is shown to
keep (they share the cache table). Project authorization stages search documents
through the decorator that `SearchSync` models as `Begin`, `Stage`, `Commit`; the
two share no other state. Capacity reservation, like the cache, acts on
Kubernetes, but on objects of its own.

## 2. The modules

| module | about |
|---|---|
| `SearchIndex` | abstract: what the search index promises its readers |
| `SearchSync` | requests, staging table, workers, index |
| `SearchReprovision` | `SearchSync` composed with runs of `init_reprovision` |
| `ProjectAuthz` | one project in Postgres and in SpiceDB |
| `OccurrenceLife` | abstract: what a reservation promises for an occurrence |
| `CapacityReservation` | reservations, occurrences, deployments, three tasks |
| `K8sObjects` | versions of Kubernetes objects and rows of the cache |
| `ObjectCache` | abstract: what a reader of the cache may rely on |
| `K8sCache` | watch, synchronisation and API requests around one table |
| `Builds` | builds of an environment, read through `ObjectCache` |
| `UserSecrets` | the key of a user, the secrets under it, the rotation |
| `SearchSyncProofs`, `SearchReprovisionProofs`, `ProjectAuthzProofs`, `ProjectAuthzQuietProofs`, `CapacityReservationProofs`, `K8sCacheProofs`, `BuildsProofs`, `UserSecretsProofs` | theorems about them |
| `MC...` | the same module for TLC: symmetry of its model values, values of its constants |

Operators with a comment that begins with "Mutant" are plausible slips of the
code; no specification uses them, they take the place of a definition to show
that a property would notice.

### SearchSync

A document is abstracted to `[kind, ver]`: live, deleted or none, and the number
of the write it describes. A version is taken when a transaction flushes, which
is when it gets the row lock (`Begin`), so versions grow in the order of the
writes and one that is rolled back is not used again.

| action | code |
|---|---|
| `Begin` | a repository method writes and flushes (e.g. `ProjectRepository.delete_project`) |
| `Stage` | `update_search_document` stages the result in a transaction of its own: `SearchUpdatesRepo.upsert` |
| `Commit`, `Abort` | the end of `with_db_transaction`; an abort after staging leaves the staged document |
| `Read`, `StageRead` | a document staged from an unlocked read (a patch without a change, the rename of a group) |
| `SelectNext` | `select_next`: open rows in the order of their ids, limited, `FOR UPDATE SKIP LOCKED`, marked locked |
| `SolrUpsert`, `SolrUpsertFails` | the call in `update_solr`; when it fails any part of the batch may be indexed |
| `MarkProcessed`, `MarkReset`, `MarkFailed`, `MarkFails`, `MarkFailedFails` | the three statements of `__mark_rows` and their failures |
| `Purge`, `PurgeFails` | `deleted:true` documents are removed from Solr |
| `Crash` | the process dies anywhere in a round |

`upsert` is `ON CONFLICT (entity_id) DO UPDATE` of payload and time, *not of the
state*. Hence the two ways in which a write may be lost, which the history
variable `spoiled` marks: it was staged on a locked row (a worker has the old
payload in hand and will delete the row), or a document read earlier was staged
over it. Everything else is covered without exception. A row of state `failed` is
never selected again, and an upsert leaves it failed: the write is still
"staged" for `Covered`, but nobody will index it. A locked row of a dead worker
has the same fate, because nothing in the service calls `reset_locked`.

### SearchIndex

What remains of the pipeline for somebody who searches: `Begin`, `Stage`, `Commit`,
`Abort` of a write, `StageAgain` (something read earlier), `Show` (the index takes what
is staged, of any part of the entities), `Unstage` (documents leave the staging area
once they are shown) and `Purge`. There are no rows, ids, locks, batches, workers,
retries or crashes. `lost[e]` says that the promise is void until the next write: it can
become true only when a document is staged that meets another one on its way or is
older than what is shown. `SearchSync` is mapped to it by `writing` (the open
transaction), `staged` (the payload of the row) and `lost` (`spoiled`). `Agrees` states
what readers get: when nothing of an entity is written or on its way, the index says
what the database says.

### SearchReprovision

Extends `SearchSync` and adds `lock`, and for each run where it is, what it has
still to copy and what it has read. The steps are those of `init_reprovision` in
their order: `Start`, `ClearAll` (TRUNCATE), `Wipe`, then per entity `ReadEntity`
and `InsertEntity` (`ON CONFLICT DO NOTHING`), `Copied`, `Stop`; `RunFails`,
`SkipEntities`, `WipeRefused` are its error paths, `RunCrashes` a killed server,
`KillLock` the endpoint `DELETE /search/reprovision`, which deletes the row and
does not stop anybody. `quiet[e]` is history: the last run started alone, and
since then no request touched e, no fault hit it, and no worker held an outdated
copy of it when the table was truncated. `SearchReprovision` does not implement
`SearchIndex`: while a run is under way the index is empty, which `quiet` describes.

### ProjectAuthz

One project row (`visibility`, namespace, or absent) and the set of
relationships about it. The decorator `authz_change` is the control flow of a
request: `Look` (read without a lock), `Patch` / `PatchNothing` / `Delete` /
`Create` (flush, which waits for the row lock), `Decide...` (compute the change
and its inverse from SpiceDB), `Apply`, `Commit`, and on an exception `Rollback`
and then `Undo`. Each call may fail before or after it took effect, the answer
of the commit may be lost, and the handler may die anywhere (`CancelledError` is
not an `Exception`, so nothing is undone). Members are written to SpiceDB only,
after a read. `RepairFind`, `RepairLook`, `RepairWrite` are
`fix_mismatched_project_namespace_ids`, one relationship at a time.

`clash` is history: from where two writers disturb each other, or one dies with
a change, the properties promise nothing. It is set narrowly, and each clause
names an actual race of the code:

- a request decides from relationships that another one has rolled back and not
  yet undone (the rollback releases the row lock first);
- what a request decided from is written by a request that does not hold the
  same row lock: members against members, members against a deletion, the
  repair task against anything (`stale`, `Disturbed`);
- a patch that changes no column takes no lock, and writes relationships because
  its refresh shows the commit of somebody else;
- `_update_project_visibility` reads the public viewers without a consistency
  requirement and gets an old answer;
- the answer of the commit is lost, the inverse fails, or the process dies;
- the repair task writes what it computed from a row that has changed.

Outside these, the properties hold for all interleavings.

Abstractions: editor and viewer are one role, `viewer`; the two relationships
that make a project public are one (they are written in one call); the lock on
the slug row is merged with the one on the project row; the caller has the
permission through some relationship that exists; `project.refresh` shows the
committed row.

### CapacityReservation

A reservation row, its occurrences (`none`, `pending`, `active`, `completed`,
`gone`), the deployment of each name, the clock, and where each task stands in its
round with what it has read. Occurrences, their windows and their names are
constants; `NameOf` is any function: a name holds the first 26 characters of the
reservation's name, which need not be unique, the first 8 characters of the ULID of the
occurrence, about a second of its time, and the resource class. All occurrences of a
reservation are inserted in one transaction and usually share their name; two
reservations share names if they begin alike, have the same class and were created
within about a second.

| action | code |
|---|---|
| `CreateReservation`, `CreateOccurrences` | the POST handler: two transactions, the second may never come |
| `DeleteReservation` | the row and, by the foreign key, its occurrences; deployments are left alone |
| `ActivateRead`, `ActivateLook`, `ActivateCreate`, `ActivateUpdate` | `activate_pending_occurrences_task`: due occurrences, for each of them its reservation, `create_placeholder_deployment` (which reads cluster and resource class first, so the reservation may be deleted by then), status `active` |
| `MonitorRead`, `MonitorComplete`, `MonitorLook`, `MonitorDelete`, `MonitorScale`, `MonitorPatch` | `monitor_active_occurrences_task`: expired ones first (status, reservation, deletion by name), then replicas of the others |
| `CleanupList`, `CleanupCheck`, `CleanupDelete` | `cleanup_orphaned_deployments_task` |
| `ActivateFails`, `MonitorFails`, `CleanupFails`, `Crash` | a call fails before or after its effect, or the process dies; the task manager starts the tasks again |
| `Tick`, `Vanish` | time; the cluster removes what is deleted in the foreground |

An exception ends the round for every occurrence in it: a name that is taken, a
row or a deployment that is gone. These branches need no fault and are part of
the ordinary actions. `TargetReplicas` is `calculate_target_replicas` with
Python's rounding (half to even), `SessionCounts` the set of assignments that
`_assign_sessions_to_occurrences` may return: by template if exactly one
occurrence has it, else by resource class, at random.

Abstractions: time is a number, the lead time is in `ActivateAt`; the
look-up in `K8sClusterClient.delete` and the deletion are one step; any subset of
the sessions may run when the monitor counts them; each task has one instance
(they run in the one `data_tasks` process).
An occurrence whose `deployment_name` is empty cannot be active and is left out.

What is claimed of single occurrences (`ActiveHasDeployment`, `ImplementsLife`) is
claimed of those whose name no other reservation has (`Owned`); the other properties of
all. For occurrences of two reservations with one name it is not true of the code: the
cleanup lists a deployment of a reservation that is deleted, reads the rows, and when it
comes to delete, by name, the deployment of that name may be that of an active occurrence
of the other reservation.

### OccurrenceLife

The life of an occurrence as the administrator knows it: `Plan`, `Cancel`, `Start` of
setting up its placeholders once it is due, which ends with `GiveUp` or `SetUp`,
`Activate`, `Complete` after its window, `TakeDown` of placeholders of what is completed
or gone. An occurrence that is cancelled while it is set up gets its placeholders all the
same, and they are taken down later (`OrphanRemoved`). There are no deployment names, tasks,
rounds, sessions or failures. `CapacityReservation` is mapped to it, restricted to `Owned`, by `room`, the
occurrences whose deployment is there and is not being deleted (`Stands`), and `starting`,
the one whose reservation the activation has found. Every guard
is a promise that a task acting on old reads could break: an occurrence is activated
only if it is still pending and its placeholders still stand, and nothing is taken down
that is active. `ServedInTime` states what follows from it for users.

### K8sObjects, ObjectCache, K8sCache

An object of the cluster is `[live, ver]`; every change takes the next version,
which stands for the manifest. A row of the cache is nothing, a draft (written
before the object exists) or the manifest of a version. `ObjectCache` is the
contract of a reader, in four steps: the cache shows a draft, nothing, any
version the object has had, or the object changes; and if it changes no more the
cache shows it as it is in the end (`ViewConverges`).

`K8sCache` is who writes the table:

| action | code |
|---|---|
| `Connect`, `HandleEvent`, `StreamEnds` | `__watch_kind` and `k8s_object_handler`; a stream begins with an event per existing object, what was deleted meanwhile leaves no trace |
| `SyncList`, `SyncListsPart`, `SyncUpsert`, `SyncCompare`, `SyncDelete`, `SyncDone` | `__full_sync` and `__sync`: list, upsert what was listed, then delete what is in the table and was not listed; a list that fails half way passes for the whole |
| `ApiDraft`, `ApiCreate`, `ApiCreateFails`, `ApiPut`, `ApiDrop` | `K8sCachedClusterClient.create`: draft, creation, row with the manifest, or the row is deleted after any error |
| `ApiPatch`, `ApiPut` | `K8sCachedClusterClient.patch` |
| `WatcherDies`, `ApiDies` | a process ends; an exception of the synchronisation ends the whole watcher (`K8sWatcher.wait`) |
| `ClusterChanges` | controllers and users change or remove objects |

The watch pauses for a synchronisation only when it connects; an open stream goes
on beside it, so the events and the rows of an older listing race.
`spoiled[o]` is history: the last writer of the row ignored the watch.

Observation: a creation whose name is taken deletes the row of the object that has
the name (`clients.py:352`), and only an event or the next synchronisation brings
it back.

Abstractions: one cluster and one kind, in one table row per name; the read and
the write inside `K8sDbCache.upsert` are one step. Objects without a user label make
`upsert` raise; to the model that is one more reason for `WatcherDies`.

### Builds

Rows of builds, the BuildRuns (`phases[b]`, one entry per version of the object of
`ObjectCache`), the environment, and requests between their reads and writes.

| action | code |
|---|---|
| `LookGet`, `LookStart`, `LookCancel` | `get_build`, `get_environment_builds`, `start_build`, `update_build` read rows in a transaction |
| `Check` | `_refresh_build` asks the cache: `Outcome` is `ShipwrightClient.update_image_build_status`, in which a missing BuildRun is a failure |
| `CommitGet`, `CommitStart`, `CommitCancel` | the commit, with whatever the request found out before; a patch that does not ask for a cancellation leaves the row alone, but goes on to `PatchRun` like one that does |
| `DraftRun`, `CreateRun` | `create_build_run` through the cached client, after the commit |
| `PatchRun` | `cancel_build_run`, after the commit |
| `SetImage` | `update_launcher` gives the environment an image of the user |
| `Fail` | the request fails or dies between any two steps |
| `Progress`, `CacheMoves` | Shipwright ends BuildRuns; the cache moves as `ObjectCache` lets it |

Builds are numbered in the order of their ULIDs. `hist` is history and names the
races after which a property promises nothing: `overlapped` (two starts before
either committed), `late` (a request wrote a row that another had settled since it
read it), `busy` (when the user gave the image, a build was in progress or about to be,
or a request had builds in hand that it had read in progress: the builds of those may
have been settled by others meanwhile), `early` (cancelled before its BuildRun existed). Each is a race of the code:
there is no row lock and no unique index, rows are written from old reads, and the
cancellation patches whatever BuildRun is there at that moment.

Abstractions: one environment; the owner and the clone secret of a build, its logs
and its parameters are left out; the removal of a BuildRun some time after its end
is `ShowNothing` to the readers; switching an environment from an image back to a
build, and deleting launchers, are not modelled.

### UserSecrets

A value is encrypted with the key of the user (`inner`) and with the RSA key
of the secrets service (`outer`); the model keeps which keys those were.

| action | code |
|---|---|
| `Ask`, `GetKey`, `CreateKey`, `Store` | `insert_secret` / `update_secret`: `get_or_create_user_secret_key` reads without a lock, creates and overwrites; then the row is written with the RSA key of the replica |
| `Delete` | `delete_secret` |
| `Deploy`, `Restart` | `rotate_encryption_key_listener` at the start of the secrets service, first and again |
| `ReadBatch` | `get_all_secrets_batched`: `ORDER BY id OFFSET n LIMIT BatchSize`; what opens with the new key is left alone, and so is what `rotate_single_encryption_key` cannot encrypt anew: the exception is logged and the rotation goes on |
| `WriteBatch` | `update_secret_values`: the values that were read, encrypted anew, over what is there; a row that is gone aborts the rotation |
| `RollOut` | the replicas of the data service get the new public key, in any order with the rest |

`hist` names the races: `overlapped` (two requests found no key), `raced` (stored
while the rotation had a copy), `deleted` (a row before the offset may be gone, and
the next batch starts one row too late), `outdated` (stored under the old key while
the rotation was under way), `skipped` (could not be encrypted anew). A rotation is
"finished" with secrets of the last two kinds, and of the one before, under the old
key. Its state does therefore not say that the old key can be taken away;
`RotationComplete` says that nothing else stands against it.

Abstractions: any secret under the old key may fail to be encrypted anew, in any batch;
one user; secrets are numbered by their ULIDs; names, file names and
expiry are left out; the rotation runs once per start.

## 3. What the runs check

| run | expected | question |
|---|---|---|
| `search_sync` | pass | can a write be lost, handed out twice, or shown otherwise than `SearchIndex` promises, with one fault anywhere? |
| `search_sync_live` | pass | does every staged write reach the index when nothing fails? |
| `search_sync_removed` | violation | does `mark_processed` remove processed rows only? |
| `reprovision` | pass | is everything back after a run, is there one run at a time, and does no row get into the hands of two workers? |
| `reprovision_single` | violation | does the table admit one run at a time when locks may be removed? |
| `project_authz` | pass | do row and relationships agree, with failures at any step? |
| `project_authz_undo` | violation | is apply followed by undo always a no-op? |
| `project_authz_match` | violation | does a patch replace the row whose ETag it was checked against? |
| `capacity_reservation` | pass | do three tasks, the API, time and a fault keep occurrences and deployments together, and lead an occurrence the life it is promised? |
| `k8s_cache` | pass | does the cache keep the promise of `ObjectCache`, with streams that end, partial listings and crashes? |
| `builds` | pass | do rows, BuildRuns and image stay together when requests interleave and the cache shows anything it may? |
| `user_secrets` | pass | do secrets open, keep their values and get rotated, with two first uses, deletions, secrets that cannot be encrypted anew and a restart? |

Properties: `ClaimExclusive`, `Covered`, `InSync`, `OrphansNeedFault`,
`ImplementsIndex`, `StagedReachesIndex` (SearchSync); `QuietRebuilt`,
`SingleUnlessKilled`, `HeldOnce` (SearchReprovision); `NoLostPatch`, `HasAuthz`, `KeepsOwner`,
`VisibilityAgrees`, `NothingLeft`, `UndoRestores` (ProjectAuthz);
`ActiveHasDeployment`, `LeakNeedsFault`, `TargetWithinCount`, `SessionCountedOnce`,
`ImplementsLife`, `OrphanRemoved`, `DueIsServed` (CapacityReservation); `WatchedIsAccurate`,
`DraftHasRequest`, `ImplementsView` (K8sCache); `SucceededIsReal`, `OneInProgress`,
`ImageFromNewest`, `UserImageKept`, `CancelStops`, `NeverReopened`, `InProgressEnds`
(Builds); `OpensWithKey`, `ValueKept`, `RotationComplete` (UserSecrets). Each is
explained by the comment above it, and each has a mutant in `PROJECT.json`: a plausible slip in the code (a forgotten condition,
`DO NOTHING` for `DO UPDATE`, a truncation that spares locked rows, a lock that
is not waited for, an inverse that misses a tuple) that makes it fail.

### Bounds, and why they are enough

- `search_sync`: 2 entities, 2 workers, batches of 2, three writes in all, of one
  entity or of both (the constraint `FewWrites`), one unlocked read, one fault (when
  marking the rows fails, marking them failed may fail as well). Two versions and one
  worker are enough to lose an update, two workers to hand a row out twice or index out of order, one fault
  to leave a row behind; two entities make batches of more than one row and
  rows of different age. An instance with two writes of each entity, and one with two
  faults, were also run. The theorems lift all of these to any number.
- `search_sync_live`: batches of one, so that rows wait behind each other. The
  number of versions is bounded, so starvation by an endless stream of new
  rows is not examined (ids grow, and the order by id serves old rows first).
- `reprovision`: 1 entity (runs treat entities independently), 2 workers, 2
  runs, one fault, one removal of the lock.
- `project_authz`: 2 requests, 2 users, one user namespace and two groups, one
  relationship repaired, one fault. Two groups are needed to tell the right
  from the wrong namespace, two users to lose the last owner. An instance
  of three requests with one user and without groups was also run.
- `capacity_reservation`: two reservations whose three windows overlap, two of one
  with one deployment name, scaled down in time, and one of the other; one session, a clock up to 3 (the windows end
  at 2), one placeholder, one fault. Sharing is what makes rounds fail without a
  fault, and two windows with a name and one without is the smallest case in which
  an exception for one keeps another from being served. With one placeholder the
  rounding is not exercised to its limits; that is what `TargetsWithinCount` is for.
  An instance in which all three occurrences share one name, across the reservations,
  was also run: leaks still need a fault, orphans go and what is due is served.
- `k8s_cache`: one object with four changes (created, changed, removed, created
  again), two requests at a time, three in all, two faults. Objects meet only in the
  list of the synchronisation; an instance of two objects with two changes each was
  also run.
- `builds`: two builds, one request that starts and cancels and one that starts and
  reads, one cancellation or fault, three versions per BuildRun (running, stopping,
  ended). Two builds are needed for an older one to settle last. A cancellation and a
  fault do not meet in this run; an instance in which they do (two of either, four
  versions), without the temporal properties, was also run, and the theorems hold for
  any number of both.
- `user_secrets`: three secrets in batches of one, two requests, three writes, one
  restart. Three rows are the fewest for which an offset passes over a row after
  a deletion and another batch follows; two writes are enough to replace a value while
  the rotation has a copy. Instances with four writes, in batches of one and of two,
  were also run.

`CHECK_DEADLOCK FALSE` is given where the model may really stop: all workers
are idle and the bounds on requests are used up, or every request has ended.

### Fairness

Only the runs with a temporal property need it. Nothing is ever assumed of users
or administrators, except for `builds`.

`search_sync_live`. Weak fairness for `Round(w)`: the task manager
runs `update_search` again whenever it ends (`bases/data_tasks/task_defs.py`,
`taskman.py`). Weak fairness for a request that has flushed to reach its commit
or abort: a handler runs to its end.

`capacity_reservation`. Weak fairness of each of the three tasks, which are endless
loops that the task manager starts again after an exception
(`bases/data_tasks/task_defs.py:413`), of the clock, and of `Vanish`: the cluster
removes what is deleted. `DueIsServed` speaks of behaviours without a fault:
a deployment created and not recorded blocks its name until somebody removes it.

`k8s_cache`. Weak fairness of the synchronisation, which runs every ten minutes, and
of each request. None of the watch: the stream may end at once every time, and
the cache still converges.

`builds`. Weak fairness of each request, of `Progress` (a BuildRun has a timeout), and
`ViewConverges`, which is what `k8s_cache` shows of the cache. Strong fairness of
`LookGet`: clients that show a build in progress ask again. Rows change only when
somebody asks (nothing in the service refreshes them by itself), so without it no
row would ever settle. It is strong because a request may be busy with something
else in between.

`user_secrets` has safety properties only.

### What the history variables excuse

Some hazards are failures that this code does have. A property that denied them
would be violated, so the property that is stated names the failure, by a history variable
or by the fault that causes it, and claims the rest: that it is the *only* way to go wrong.
Such a property does not detect the failure it names. They are:

| hazard | what is excused | what is still claimed |
|---|---|---|
| a worker dies with rows locked, `search/core.py:59` | orphaned rows after any fault (`OrphansNeedFault`) | without a fault there are none; with one, nobody else gets the rows and the index does not go back |
| a failed batch is never selected again, `search/core.py:85` | a failed row counts as staged (`Covered`); `StagedReachesIndex` is checked without faults | the newest document stays in the table and is not dropped unseen |
| a partial listing passes for the whole, `k8s/watcher/core.py:69` | rows last written by the synchronisation (`spoiled` of `WatchedIsAccurate`) | the cache converges again (`ImplementsView`) |
| two first uses of the secret key, `users/db.py:245` | everything once two requests found no key (`overlapped`) | a key is lost in no other way |
| the rotation writes over a value, `secrets/db.py:104` | a value stored while a copy was held (`raced`) | no other value is taken back |
| a secret that cannot be encrypted anew, `secrets/models.py:85` | that secret (`skipped`) | the rotation does not stop at it and passes over no other |
| two starts of a build, `session/db.py:946` | any number of builds in progress (`overlapped`) | one start at a time leaves one |
| an image given during a build, `session/db.py:761` | its replacement by that build (`busy`) | a settled build does not replace it |

The exception in the synchronisation (`k8s/watcher/core.py:101`) is not one of them: if the
process went on after it, the cache would not converge (`ImplementsView`).

### Refinement

Three abstract specifications say what a component promises, and the detailed ones are
shown to implement them, by TLC on the instances above and by proof for all.

- `ImplementsIndex`: `SearchSync` implements `SearchIndex` (theorem `SyncImplementsIndex`).
  That the index does not go back to an older document (`IndexNeverRegresses`, proved as
  `NoRegression`) is part of `Show`.
- `ImplementsLife`: `CapacityReservation` implements `OccurrenceLife` (theorem
  `ReservationImplementsLife`).
- `ImplementsView`: `K8sCache` implements `ObjectCache`, including its convergence under
  the fairness above; the variables have the same names, so the mapping is the identity on
  `k8s` and `cache`. `Builds` sees the cluster and the cache only through the steps of
  `ObjectCache`. That is a theorem on both sides (`CacheImplementsView`,
  `BuildsReadsView`): what is shown for `Builds` holds with the cache that `K8sCache`
  describes, as far as one cache and one cluster are concerned.

An abstract specification is only as good as what follows from it. For the first two that
is proved from the abstract specification alone (`IndexKeepsPromise`,
`LifeServesInTime`); for the third it is `Builds` and its theorems.

### What the runs found

1. `search_sync_removed`: `upsert` puts a new payload into a row that a worker has
   locked and `mark_processed` deletes the row by id and state, so the payload is
   gone without being processed ("Remove processed rows.", says its docstring). Two
   updates of one entity within a round of a worker are enough.
2. `reprovision_single`: the lock row can be removed during a run, and a second run
   starts, contrary to the docstring of `ReprovisioningORM`. The first run then also
   removes the lock of the second.
3. `project_authz_undo`: a change of namespace only touches the new relationship,
   and its inverse touches the old one, which was never removed; the new one stays
   after the undo. The docstring of `_AuthzChange` promises a no-op.
4. `project_authz_match`: `update_project` compares the ETag of `If-Match` with the row
   that it reads without a lock. Two patches with the same ETag both pass, one waits
   for the other at the flush, and both are committed, although the API describes the
   header as a means "for avoiding mid-air collisions". What does hold is
   `NoLostPatch`: a patch writes the columns that it changes and no others.

Observations that no property is stated about, because no text of the repository
promises otherwise: a move to a group writes the id of the namespace where
creation writes the id of the group, and never deletes the old relationship, so
the project can be reached through the old namespace;
`project_is_public_for_anon_users` in `_update_project_visibility` is a
one-element tuple and therefore always true; a deletion leaves the row without
relationships between apply and commit; failed rows of the staging table are
never retried.

## 4. What is proved

`SearchSyncProofs` proves for any sets of entities and workers and any values of
the bounds (`SearchSyncAssumption`: the bounds are natural numbers, the batch size
at least one; only `SelectionIsDefined` takes the entities to be finitely many):

| theorem | statement |
|---|---|
| `TypeCorrect` | `Spec => []TypeOK` |
| `ExclusiveClaims` | `Spec => []ClaimExclusive` |
| `Inductive` | `Spec => []IInv` |
| `WritesCovered` | `Spec => []Covered` |
| `IndexInSync` | `Spec => []InSync` |
| `NoRegression` | `Spec => IndexNeverRegresses` |
| `NoOrphans` | `Spec => []OrphansNeedFault` |
| `SyncImplementsIndex` | `Spec => ImplementsIndex` |
| `IndexKeepsPromise` | `Index!Spec => []Index!Agrees` |
| `SelectionIsDefined` | `Spec => []SelectsOneBatch` |
| `RowsLeaveIndexed` | `Spec => RemovedUnlessSpoiled` |

`ClaimExclusive` is inductive with `TypeOK`: a claimed row is locked with the id of the
claim, `SelectNext` takes open rows only, and markings release the claims they mark.
`Covered` and `InSync` are not inductive: `Covered` says nothing of a staged version
that is not committed yet, nor why a worker that deletes a row has indexed it. `IInv` adds

- `RowsOK`, `Busy`: a row has a state when it exists; only a worker in a round holds rows;
- `TxOK`, `DocsOK`: no document carries a version that was not taken, an open
  transaction's version is newer than the committed one, and two documents of the
  same version describe the same write;
- `Ordered`: unless the entity is spoiled, the row is not older than the index, a
  copy in a worker equals its row, and once indexed the index has it;
- `Reaching`: the committed version, and the one staged by an open transaction, is
  in the index or the row.

The step lemma is proved per group of actions: `TypeStep`, `ClaimStep`, `VersionStep`,
`RequestOrder` and `WorkerOrder` (per entity), `RowsStep`, `OrphanStep`, and put together in
`IInvStep`.

`SyncImplementsIndex` has one lemma per action (`BeginMaps` to `ProcessedMaps`): it is a
step of `SearchIndex` or changes nothing of it. Beyond `IInv` it needs `SourcesOK`: rows
and batches hold documents of writes, and what was read to be staged again had been
committed. `IndexKeepsPromise` is proved over the mapped variables, but from the abstract
actions only; its invariant `Promise` says that whatever is staged or shown agrees with
the write of its version (`Says`), and that what is committed is shown, staged or lost.

`SelectionIsDefined` says that the limit and the order of `select_next` determine one
batch. It needs `RowIdsOK` (ids are not given out twice) and, in place of an induction
over the limit, the least number for which no such batch exists (`LeastNumber`, from the
well-foundedness of the natural numbers). `RowsLeaveIndexed` is what is true of the docstring
that the run `search_sync_removed` refutes.

`ProjectAuthzProofs` proves for any sets of requests, users and namespaces
(`ProjectAuthzAssumption`: a namespace is a user's or a group's, the bounds are natural
numbers):

| theorem | statement |
|---|---|
| `AuthzTypeCorrect` | `Spec => []TypeOK` |
| `LockDiscipline` | `Spec => []LockInv` |
| `PatchesKept` | `Spec => []NoLostPatch` |
| `AuthzInvariant` | `Spec => [](TypeOK /\ LockInv /\ AuthzInv)` |
| `AuthzKept` | `Spec => []HasAuthz` |
| `OwnerKept` | `Spec => []KeepsOwner` |

The argument has two layers. `LockInv` is about the row lock and mentions no
relationship: `Shape` (what a request has in hand at each point of its way),
`OneLock`, `Alone` (nobody else has started before a creation is committed),
`FoundRow` and `NoLostPatch`. `NoLostPatch` needs `OneLock`, because the committed row
must not change between the flush of a patch and its commit.

`AuthzInv` holds until there is a `clash`. `HasAuthz` and `KeepsOwner` are not
inductive: while a deletion is under way the relationships are gone, and its undo
must bring them back. `AuthzInv` therefore speaks of `Kept`, the relationships
together with those that deletions under way may restore (`Restorable`):

- a committed project is `Complete` in `Kept`: platform, namespace, an owner;
- `OneRole`: nobody has two roles (`upsert_project_members` relies on it: a user who has
  the role that is asked for loses the other one and is not counted);
- `Ready(r)` for every request: what it is about to commit is complete, unless
  somebody has written what it relies on and `stale[r]` says so (`CreateReady`,
  `UpdateReady`, `MembersReady`), the restoration of a deletion does not give
  anybody a second role (`DeleteReady`), a deletion without a row has no project to
  restore (`Gone`), and each kind of request writes its kinds of relationships only
  (`ChangeOK`).

Without a deletion at work `Kept` equals the relationships, which gives the two
properties. A step of r is split into what it does to the project (`KeptStep`,
`WholeStep`, `OneRoleStep`), to r itself (`ReadyMover`, one lemma per group of actions)
and to the others (`ReadyFrame`: either what they rely on is unchanged or they are
told); `RepairKeeps` is the step of the repair task.

`ProjectAuthzQuietProofs` adds, from the same assumption:

| theorem | statement |
|---|---|
| `InverseRestores` | `Spec => []UndoRestores` |
| `QuietInvariant` | `Spec => []QuietInv` |
| `VisibilityKept` | `Spec => []VisibilityAgrees` |
| `NothingStays` | `Spec => []NothingLeft` |

`QuietInv` says what is true while requests are under way, so that the properties
about a quiet project follow. It has three parts:

- `PlanInv` holds with or without a clash: nothing exists before a creation has
  written (`Unborn`), and an inverse writes what its change writes (`Mirrored`).
- `VisibilityInv`: of the requests that write the public viewers, or may write them
  again to undo it, there is one (`Pending`): whoever else reads them either waits for
  the row lock or runs into `AboutToBeUndone`, a clash. Its inverse restores the
  visibility of the committed row, its change brings that of the row it is to commit, and
  if the relationships do not show the committed row, it is the reason.
- `AbsenceInv`: a deletion at work removes everything that is there or has been told
  (`DeletionReady`), and so have all who read the members before it removed them;
  they clash when they write. Hence what exists without a row is what a creation under
  way has written, and its inverse removes it (`Taken`).

`Course` names the five ways a request goes on (it starts, computes a change, asks for
members, moves, ends), and the lemmas split on these instead of on the actions.

`SearchReprovisionProofs` proves for any entities, workers and runs, from the
assumptions of `SearchSync` and those on the bounds of runs:

| theorem | statement |
|---|---|
| `ReprovisionTypeCorrect` | `RSpec => []RTypeOK` |
| `OneRunAtATime` | `RSpec => []SingleUnlessKilled` |
| `ReprovisionInvariant` | `RSpec => []RInv` |
| `QuietIsRebuilt` | `RSpec => []QuietRebuilt` |
| `RowsHeldOnce` | `RSpec => []HeldOnce` |
| `SelectionIsDefinedInRuns` | `RSpec => []SelectsOneBatch` |

`ClaimExclusive` of `SearchSync` is not available: the truncation takes rows away
under the workers. What replaces it is `IdsOK`: ids are never given out twice, so a
claim from before the truncation matches no row of after it; `HeldOnce` is what it leaves
of `ClaimExclusive`. `LockOK` says that
without a removal by hand an active run has the lock and is alone. `QuietInv` follows
a quiet entity through the phases of a run: before and after the truncation workers
hold nothing but its committed document (`CopiesCommitted`), from the wipe of the
index on a worker that will delete its row has sent it (`HolderHasSent`), and once
the copy has passed it, it is `Rebuilt`.

`CapacityReservationProofs` proves for any windows, names, counts, sessions, clocks and
numbers of faults (`WindowsAssumption`: a window ends after it starts, counts are
positive, occurrences and sessions are finitely many; nothing is assumed of names, and
`ActiveHasDeployment` and `ImplementsLife` speak of the occurrences whose name no other
reservation has):

| theorem | statement |
|---|---|
| `CapacityTypeCorrect` | `Spec => []TypeOK` |
| `ActiveKeepsDeployment` | `Spec => []ActiveHasDeployment` |
| `LeaksNeedFaults` | `Spec => []LeakNeedsFault` |
| `TargetsWithinCount` | `Spec => []TargetWithinCount` |
| `SessionsCountedOnce` | `Spec => []SessionCountedOnce` |
| `ReservationImplementsLife` | `Spec => ImplementsLife` |
| `LifeServesInTime` | `Life!Spec => []Life!ServedInTime` |
| `RoundedIsNearest` | `Rounded(a, b)` is the integer nearest to a / b, the even one if two are |
| `TargetsDecrease` | with more sessions and later, `TargetReplicas` is not greater |
| `RoomIsShared` | in the window, sessions and placeholders together fit into the count, or there are no placeholders |

The first two safety properties are inductive together with what the tasks remember:
what is left to activate is pending or gone, and between creation and update the
deployment is there (`DuePending`); what is left to expire is active or gone, and
what was completed still has its own deployment (`ExpiredActive`); what the cleanup
listed has the names of its occurrences (`ListedMatch`), and what it will delete
belongs, as far as one reservation only has the name, to deleted reservations
(`OrphansGone`: for other names the cleanup could delete, by name, the deployment of an
active occurrence). `RowsGo`
and `NamesMatch` tie rows to reservations and deployments to names. `TargetsWithinCount`
rests on the lemmas `ProductMonotone` and `RoundedBounds`: rounding half to even does
not leave the interval; `TargetsDecrease` adds that it is monotone (`RoundedMonotone`).

`SessionCountedOnce` is not stated as a sum over the occurrences, which would need an
induction over a set, but by what the sum is about: there is a distribution
of the sessions over the occurrences (`Distributes`), no session at two of them and none
that fits left out, whose sizes are the counts. The witness is read off the two steps of
`_assign_sessions_to_occurrences`.

`ReservationImplementsLife` needs two facts about time beyond that invariant (`LifeInv`):
what is in hand to be activated was due when it was read and still is (`DueInTime`), what
is in hand to be completed is over (`ExpiredInTime`). A deployment that is created after
its reservation was deleted is a `SetUp` of what is gone, which `Start` allowed while it
was pending. That a deletion, which goes by
name, takes down nothing but what is over is `RoomShrinks` with the invariant above.

`K8sCacheProofs` proves for any non-empty set of objects, any requests and bounds:

| theorem | statement |
|---|---|
| `CacheTypeCorrect` | `CacheSpec => []CacheTypeOK` |
| `DraftsHaveRequests` | `CacheSpec => []DraftHasRequest` |
| `WatchIsAccurate` | `CacheSpec => []WatchedIsAccurate` |
| `CacheImplementsView` | `CacheSpec => View!ViewSpec` |

`Genuine` says that every version on its way to the table (in a listing, an event or
a request) is one that the object has had, which makes every write a `ShowVersion`;
`LastIsTruth` that the last event of an open stream is the last change.

`BuildsProofs` proves for any finite sets of builds and requests
(`BuildsAssumption`):

| theorem | statement |
|---|---|
| `BuildsTypeCorrect` | `Spec => []TypeOK` |
| `NoMadeUpSuccess` | `Spec => []SucceededIsReal` |
| `OneBuildAtATime` | `Spec => []OneInProgress` |
| `ImageIsNewest` | `Spec => []ImageFromNewest` |
| `UserImageStays` | `Spec => []UserImageKept` |
| `CancelledStops` | `Spec => []CancelStops` |
| `SettledStays` | `Spec => NeverReopened` |
| `BuildsReadsView` | `Spec => ViewSpec` |

`BuildsInv` adds to the properties what requests carry across their reads and
writes: `FoundIsReal` (a success that was found is one), `StartsSettle` (without
overlapping starts, the one start under way has settled or will settle every build in
progress, and that is the newest; `OneInProgress` follows), `InOrder` and `RoomForStarts`
(builds are numbered as they are created), `ImageIsQuiet`, `CreatesOnce` and
`CancelledEarly` (a BuildRun is created once, after its row, by the request that
made the row).

`UserSecretsProofs` proves for any finite set of secrets, any requests, batch size and
bounds (`SecretsAssumption`):

| theorem | statement |
|---|---|
| `SecretsTypeCorrect` | `Spec => []TypeOK` |
| `KeyOpensSecrets` | `Spec => []OpensWithKey` |
| `RotationKeepsValues` | `Spec => []ValueKept` |
| `RotationIsComplete` | `Spec => []RotationComplete` |

`SecretsInv` adds `CopiesFaithful` (what the rotation holds is what the user stored
last) and `OneKey` (one request at a time creates a key, and only while there is none).
`RotationIsComplete` is an argument about offsets: the rank of a secret is the number
of those before it, new secrets come last (`NewComeLast`), so as long as nothing is
deleted ranks do not change and what has a rank below the offset has been passed, that
is rotated, logged or stored under the old key since (`PassedFine`); an empty batch has
nothing behind it (`NothingBehind`).

### Only model-checked

Liveness: `StagedReachesIndex`, `OrphanRemoved`, `DueIsServed`, `InProgressEnds`, and the
convergence in `ImplementsView`. Liveness under fairness is out of the reach of the
prover.

The type invariants of `SearchReprovision` and `CapacityReservation`, and
`IndexNeverRegresses`, are theorems and no longer part of a run: the first two are
hypotheses of everything else that is proved there, the last one follows from
`ImplementsIndex`.

## 5. What is not modelled

Within the modelled components, what section 2 lists under "Abstractions", and:

- project authorization: the same decorator on groups, data connectors, resource pools
  and sessions, which repeats the control flow of `ProjectAuthz` with other relationships;
  the evaluation of permissions by SpiceDB, whose schema (`authz/schemas.py`) is a
  program for another system;
- capacity reservation: the computation of occurrences from a recurrence rule
  (calendar arithmetic);
- builds: launchers, environments and their parameters as such, which are CRUD on rows;
- user secrets: the delivery of secrets to sessions, one decryption per request.

Components without a model:

- Solr migration: one optimistic lock and a chain of idempotent schema commands, run at
  a start; its hazard (the flag that stays set) is listed.
- OAuth connections: the refresh runs under a row lock with the token that the caller
  read before; what a second use of a refresh token does is decided by the provider.
- Alerts and quotas: two calls in a row without a lock; the hazard is listed and
  what follows from it can be read off the code.
- Task manager: it enters as the reason for fairness. Its own state is a map of
  asyncio tasks with growing delays.
- Namespaces, data connectors, resource pools, storage, repositories, platform:
  CRUD that the constraints of the database make safe, or the decorator above.
- Keycloak synchronisation, resource usage, metrics: batches from or to external
  services, arithmetic over samples.
- Notebooks and the classes generated from custom resources (`cr_*.py`,
  `apispec.py`): manifests and schemas, data without a protocol of their own. They are the
  greater part of the lines of the repository.
- The query parser, authentication, the web framework and the migrations of the
  database: text, I/O, or run before the service starts.

Worth adding next: the switch of an environment back to a build, and an abstract
specification of one project with its permissions that `ProjectAuthz` implements.
