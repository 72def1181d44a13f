--------------------------- MODULE K8sCacheProofs ---------------------------
(***************************************************************************)
(* Proofs about K8sCache for any sets of objects and requests and any      *)
(* values of the bounds.  The inductive invariant adds to the properties   *)
(* where versions come from (Genuine) and what the last event of a stream  *)
(* says (LastIsTruth); from it follows that K8sCache implements the safety *)
(* part of ObjectCache.                                                    *)
(***************************************************************************)
EXTENDS K8sCache, TLAPS

(* Every version on its way to the cache is one that the object had: that  *)
(* of a live object, of the listing, of a request, and of an event.        *)
LiveGenuine == \A o \in Objects : k8s[o].live => k8s[o].ver > 0

ListedGenuine ==
    \A o \in Objects :
       sync.pc = "upsert" /\ o \in sync.todo => sync.seen[o] \in 1 .. k8s[o].ver

PutsGenuine ==
    \A q \in Requests :
       api[q].op = "put" => api[q].ver \in 1 .. k8s[api[q].obj].ver

EventsGenuine ==
    \A o \in Objects : \A i \in 1 .. Len(stream[o]) :
       stream[o][i].ver \in 1 .. k8s[o].ver

Genuine == LiveGenuine /\ ListedGenuine /\ PutsGenuine /\ EventsGenuine

(* The last event of an open stream is the last change of the object.      *)
LastIsTruth ==
    \A o \in Objects :
       conn /\ stream[o] # <<>> =>
          stream[o][Len(stream[o])] =
             [type |-> IF k8s[o].live THEN "changed" ELSE "deleted",
              ver |-> k8s[o].ver]

CacheInv ==
    /\ CacheTypeOK
    /\ Genuine
    /\ DraftHasRequest
    /\ LastIsTruth
    /\ WatchedIsAccurate

-----------------------------------------------------------------------------
(* What the helpers do.                                                    *)

LEMMA NoOpType == NoOp \in [op : {"no"}, obj : Objects, ver : Nat]
<1>1. (CHOOSE o \in Objects : TRUE) \in Objects
  BY K8sCacheAssumption
<1>2. QED
  BY <1>1 DEF NoOp

LEMMA EntryTypes ==
  /\ NoEntry \in Entry
  /\ Draft \in Entry
  /\ \A v \in Nat : Real(v) \in Entry
BY DEF NoEntry, Draft, Real, Entry

(* A write of the cache is of one row, and keeps the types.                *)
LEMMA PutEffect ==
  ASSUME CacheTypeOK, NEW o \in Objects, NEW e \in Entry, Put(o, e)
  PROVE  /\ cache' \in [Objects -> Entry]
         /\ spoiled' \in [Objects -> BOOLEAN]
         /\ cache'[o] = e
         /\ ~spoiled'[o] => e = Truth(k8s, o)
         /\ \A p \in Objects \ {o} : cache'[p] = cache[p] /\ spoiled'[p] = spoiled[p]
BY DEF CacheTypeOK, Put

(* A change of an object makes one new version, and at most one event.     *)
LEMMA ChangedEffect ==
  ASSUME CacheTypeOK, NEW o \in Objects, NEW live \in BOOLEAN, Changed(o, live)
  PROVE  /\ k8s' \in [Objects -> Objs]
         /\ stream' \in [Objects -> Seq(Event)]
         /\ k8s'[o] = [live |-> live, ver |-> k8s[o].ver + 1]
         /\ k8s'[o].live = live
         /\ k8s'[o].ver = k8s[o].ver + 1
         /\ \A p \in Objects \ {o} : k8s'[p] = k8s[p] /\ stream'[p] = stream[p]
         /\ conn => stream'[o] = Append(stream[o],
               [type |-> IF live THEN "changed" ELSE "deleted",
                ver |-> k8s[o].ver + 1])
         /\ ~conn => stream' = stream
<1> USE DEF CacheTypeOK
<1>1. k8s[o].ver + 1 \in Nat
  BY DEF Objs
<1>2. [live |-> live, ver |-> k8s[o].ver + 1] \in Objs
  BY <1>1 DEF Objs
<1>3. [type |-> IF live THEN "changed" ELSE "deleted", ver |-> k8s[o].ver + 1] \in Event
  BY <1>1 DEF Event
<1>4. k8s' = [k8s EXCEPT ![o] = [live |-> live, ver |-> k8s[o].ver + 1]]
  BY DEF Changed
<1>5. CASE conn
  <2>1. stream' = [stream EXCEPT ![o] = Append(stream[o],
               [type |-> IF live THEN "changed" ELSE "deleted",
                ver |-> k8s[o].ver + 1])]
    BY <1>5 DEF Changed
  <2>2. Append(stream[o], [type |-> IF live THEN "changed" ELSE "deleted",
                ver |-> k8s[o].ver + 1]) \in Seq(Event)
    BY <1>3
  <2>3. QED
    BY <1>2, <1>4, <1>5, <2>1, <2>2
<1>6. CASE ~conn
  BY <1>2, <1>4, <1>6 DEF Changed
<1>7. QED
  BY <1>5, <1>6

-----------------------------------------------------------------------------
(* Types.                                                                  *)

LEMMA CacheTypeInit == CacheInit => CacheTypeOK
<1> SUFFICES ASSUME CacheInit PROVE CacheTypeOK
  OBVIOUS
<1>1. k8s \in [Objects -> Objs]
  BY DEF CacheInit, Objs
<1>2. cache \in [Objects -> Entry]
  BY EntryTypes DEF CacheInit
<1>3. api \in [Requests -> [op : {"no", "draft", "put", "drop"},
                             obj : Objects, ver : Nat]]
  BY NoOpType DEF CacheInit
<1>4. stream \in [Objects -> Seq(Event)]
  BY DEF CacheInit
<1>5. sync \in [pc : {"idle", "upsert", "delete"}, seen : [Objects -> Nat],
                todo : SUBSET Objects]
  BY DEF CacheInit, SyncIdle
<1>6. QED
  BY <1>1, <1>2, <1>3, <1>4, <1>5 DEF CacheInit, CacheTypeOK

(* A listing of live objects has their versions.                           *)
LEMMA ListedAsType ==
  ASSUME CacheTypeOK, NEW S \in SUBSET Objects, ListedAs(S)
  PROVE  sync' \in [pc : {"idle", "upsert", "delete"}, seen : [Objects -> Nat],
                    todo : SUBSET Objects]
BY DEF CacheTypeOK, ListedAs, Objs

LEMMA CacheTypeStep == CacheTypeOK /\ [CacheNext]_cacheVars => CacheTypeOK'
<1> SUFFICES ASSUME CacheTypeOK, [CacheNext]_cacheVars PROVE CacheTypeOK'
  OBVIOUS
<1> USE DEF watchVars
<1> DEFINE ApiOps == [Requests -> [op : {"no", "draft", "put", "drop"},
                                   obj : Objects, ver : Nat]]
<1>1. ASSUME NEW o \in Objects, ClusterChanges(o) PROVE CacheTypeOK'
  <2>1. PICK live \in BOOLEAN : Changed(o, live)
    BY <1>1 DEF ClusterChanges
  <2>2. QED
    BY <1>1, <2>1, ChangedEffect DEF ClusterChanges, CacheTypeOK
<1>2. CASE FullSync
  <2>1. CASE SyncList
    <3>1. ListedAs({o \in Objects : k8s[o].live})
      BY <2>1 DEF SyncList
    <3>2. QED
      BY <2>1, <3>1, ListedAsType DEF SyncList, CacheTypeOK
  <2>2. ASSUME NEW o \in Objects, SyncUpsert(o) PROVE CacheTypeOK'
    <3>1. Real(sync.seen[o]) \in Entry
      BY EntryTypes DEF CacheTypeOK
    <3>2. Put(o, Real(sync.seen[o]))
      BY <2>2 DEF SyncUpsert
    <3>3. QED
      BY <2>2, <3>1, <3>2, PutEffect DEF SyncUpsert, CacheTypeOK
  <2>3. CASE SyncCompare
    BY <2>3 DEF SyncCompare, CacheTypeOK
  <2>4. ASSUME NEW o \in Objects, SyncDelete(o) PROVE CacheTypeOK'
    <3>1. Put(o, NoEntry)
      BY <2>4 DEF SyncDelete
    <3>2. QED
      BY <2>4, <3>1, EntryTypes, PutEffect DEF SyncDelete, CacheTypeOK
  <2>5. CASE SyncDone
    BY <2>5 DEF SyncDone, SyncIdle, CacheTypeOK
  <2>6. QED
    BY <1>2, <2>1, <2>2, <2>3, <2>4, <2>5 DEF FullSync
<1>3. CASE Watching
  <2>1. CASE Connect
    <3>1. ASSUME NEW o \in Objects
          PROVE  (IF k8s[o].live THEN <<[type |-> "changed", ver |-> k8s[o].ver]>>
                  ELSE <<>>) \in Seq(Event)
      <4>1. [type |-> "changed", ver |-> k8s[o].ver] \in Event
        BY DEF CacheTypeOK, Objs, Event
      <4>2. QED
        BY <4>1
    <3>2. stream' \in [Objects -> Seq(Event)]
      BY <2>1, <3>1 DEF Connect
    <3>3. spoiled' \in [Objects -> BOOLEAN]
      BY <2>1 DEF Connect, CacheTypeOK
    <3>4. QED
      BY <2>1, <3>2, <3>3 DEF Connect, CacheTypeOK
  <2>2. CASE StreamEnds
    <3>1. stream' \in [Objects -> Seq(Event)]
      BY <2>2 DEF StreamEnds
    <3>2. QED
      BY <2>2, <3>1 DEF StreamEnds, CacheTypeOK
  <2>3. ASSUME NEW o \in Objects, HandleEvent(o) PROVE CacheTypeOK'
    <3>1. Head(stream[o]) \in Event /\ Tail(stream[o]) \in Seq(Event)
      BY <2>3 DEF HandleEvent, CacheTypeOK
    <3>2. Real(Head(stream[o]).ver) \in Entry
      BY <3>1, EntryTypes DEF Event
    <3>3. cache' \in [Objects -> Entry]
      BY <2>3, <3>2, EntryTypes DEF HandleEvent, CacheTypeOK
    <3>4. stream' \in [Objects -> Seq(Event)]
      BY <2>3, <3>1 DEF HandleEvent, CacheTypeOK
    <3>5. QED
      BY <2>3, <3>3, <3>4 DEF HandleEvent, CacheTypeOK
  <2>4. QED
    BY <1>3, <2>1, <2>2, <2>3 DEF Watching
<1>4. ASSUME NEW q \in Requests, NEW o \in Objects, ApiDraft(q, o) PROVE CacheTypeOK'
  <2>1. Put(o, Draft)
    BY <1>4 DEF ApiDraft
  <2>2. QED
    BY <1>4, <2>1, EntryTypes, PutEffect DEF ApiDraft, CacheTypeOK
<1>5. ASSUME NEW q \in Requests, NEW o \in Objects, ApiPatch(q, o) PROVE CacheTypeOK'
  <2>1. Changed(o, TRUE)
    BY <1>5 DEF ApiPatch
  <2>2. k8s[o].ver + 1 \in Nat
    BY DEF CacheTypeOK, Objs
  <2>3. k8s' \in [Objects -> Objs] /\ stream' \in [Objects -> Seq(Event)]
    BY <2>1, ChangedEffect
  <2>4. api' \in ApiOps /\ requests' \in Nat
    BY <1>5, <2>2 DEF ApiPatch, CacheTypeOK
  <2>5. QED
    BY <1>5, <2>3, <2>4 DEF ApiPatch, CacheTypeOK
<1>6. ASSUME NEW q \in Requests, Answer(q) PROVE CacheTypeOK'
  <2> DEFINE o == api[q].obj
  <2>1. o \in Objects
    BY DEF CacheTypeOK
  <2>2. CASE ApiCreate(q)
    <3>1. CASE Changed(o, TRUE) /\ api' = [api EXCEPT ![q].op = "put", ![q].ver = k8s[o].ver + 1]
      <4>1. k8s[o].ver + 1 \in Nat
        BY <2>1 DEF CacheTypeOK, Objs
      <4>2. k8s' \in [Objects -> Objs] /\ stream' \in [Objects -> Seq(Event)]
        BY <2>1, <3>1, ChangedEffect
      <4>3. api' \in ApiOps
        <5>1. api[q] \in [op : {"no", "draft", "put", "drop"}, obj : Objects, ver : Nat]
          BY DEF CacheTypeOK
        <5>2. [[api[q] EXCEPT !.op = "put"] EXCEPT !.ver = k8s[o].ver + 1]
                 \in [op : {"no", "draft", "put", "drop"}, obj : Objects, ver : Nat]
          BY <4>1, <5>1
        <5>3. api' = [api EXCEPT ![q] =
                 [[api[q] EXCEPT !.op = "put"] EXCEPT !.ver = k8s[o].ver + 1]]
          BY <3>1 DEF CacheTypeOK
        <5>4. QED
          BY <5>2, <5>3 DEF CacheTypeOK
      <4>4. QED
        BY <2>2, <4>2, <4>3 DEF ApiCreate, CacheTypeOK
    <3>2. CASE api' = [api EXCEPT ![q].op = "drop"] /\ UNCHANGED <<k8s, stream>>
      BY <2>2, <3>2 DEF ApiCreate, CacheTypeOK
    <3>3. QED
      BY <2>2, <3>1, <3>2 DEF ApiCreate
  <2>3. CASE ApiPut(q)
    <3>1. Put(o, Real(api[q].ver)) /\ Real(api[q].ver) \in Entry
      BY <2>3, EntryTypes DEF ApiPut, CacheTypeOK
    <3>2. QED
      BY <2>1, <2>3, <3>1, NoOpType, PutEffect DEF ApiPut, CacheTypeOK
  <2>4. CASE ApiDrop(q)
    <3>1. Put(o, NoEntry)
      BY <2>4 DEF ApiDrop
    <3>2. QED
      BY <2>1, <2>4, <3>1, EntryTypes, NoOpType, PutEffect DEF ApiDrop, CacheTypeOK
  <2>5. QED
    BY <1>6, <2>2, <2>3, <2>4 DEF Answer
<1>7. CASE CacheFault
  <2>1. CASE SyncListsPart
    <3>1. PICK S \in SUBSET {o \in Objects : k8s[o].live} : ListedAs(S)
      BY <2>1 DEF SyncListsPart
    <3>2. S \in SUBSET Objects
      OBVIOUS
    <3>3. QED
      BY <2>1, <3>1, <3>2, ListedAsType DEF SyncListsPart, CacheTypeOK
  <2>2. CASE WatcherDies
    <3>1. stream' \in [Objects -> Seq(Event)]
      BY <2>2 DEF WatcherDies
    <3>2. sync' \in [pc : {"idle", "upsert", "delete"}, seen : [Objects -> Nat],
                     todo : SUBSET Objects]
      BY <2>2 DEF WatcherDies, SyncIdle
    <3>3. faults' \in Nat
      BY <2>2 DEF WatcherDies, CacheTypeOK
    <3>4. QED
      BY <2>2, <3>1, <3>2, <3>3 DEF WatcherDies, CacheTypeOK
  <2>3. ASSUME NEW q \in Requests, ApiCreateFails(q) PROVE CacheTypeOK'
    <3>1. api[q].obj \in Objects
      BY DEF CacheTypeOK
    <3>0. api' \in ApiOps /\ faults' \in Nat
      <4>1. api' = [api EXCEPT ![q].op = "drop"] /\ faults' = faults + 1
        BY <2>3 DEF ApiCreateFails
      <4>2. api' \in ApiOps
        BY <4>1 DEF CacheTypeOK
      <4>3. faults' \in Nat
        BY <4>1 DEF CacheTypeOK
      <4>4. QED
        BY <4>2, <4>3
    <3>2. CASE UNCHANGED <<k8s, stream>>
      BY <2>3, <3>0, <3>2 DEF ApiCreateFails, CacheTypeOK
    <3>3. CASE Changed(api[q].obj, TRUE)
      <4>1. k8s' \in [Objects -> Objs] /\ stream' \in [Objects -> Seq(Event)]
        BY <3>1, <3>3, ChangedEffect
      <4>2. QED
        BY <2>3, <3>0, <4>1 DEF ApiCreateFails, CacheTypeOK
    <3>4. QED
      BY <2>3, <3>2, <3>3 DEF ApiCreateFails
  <2>4. ASSUME NEW q \in Requests, ApiDies(q) PROVE CacheTypeOK'
    BY <2>4, NoOpType DEF ApiDies, CacheTypeOK
  <2>5. QED
    BY <1>7, <2>1, <2>2, <2>3, <2>4 DEF CacheFault
<1>8. CASE UNCHANGED cacheVars
  BY <1>8 DEF cacheVars, CacheTypeOK
<1>9. QED
  BY <1>1, <1>2, <1>3, <1>4, <1>5, <1>6, <1>7, <1>8 DEF CacheNext

(* Every variable of the cache keeps its type.                             *)
THEOREM CacheTypeCorrect == CacheSpec => []CacheTypeOK
BY CacheTypeInit, CacheTypeStep, PTL DEF CacheSpec

-----------------------------------------------------------------------------
(* Versions.                                                               *)

LEMMA Numbers ==
  ASSUME CacheTypeOK
  PROVE  /\ \A o \in Objects : k8s[o].ver \in Nat /\ sync.seen[o] \in Nat
         /\ \A q \in Requests : api[q].obj \in Objects /\ api[q].ver \in Nat
BY DEF CacheTypeOK, Objs

Grows == \A o \in Objects : /\ k8s[o].ver \in Nat
                            /\ k8s'[o].ver \in Nat
                            /\ k8s[o].ver <= k8s'[o].ver

(* A change of an object makes a later version, for which there is an      *)
(* event if somebody watches.                                              *)
LEMMA ChangedGenuine ==
  ASSUME CacheTypeOK, Genuine, NEW o \in Objects, NEW live \in BOOLEAN,
         Changed(o, live)
  PROVE  Grows /\ LiveGenuine' /\ EventsGenuine'
<1>a. /\ k8s'[o].ver = k8s[o].ver + 1
      /\ \A p \in Objects \ {o} : k8s'[p] = k8s[p]
  BY ChangedEffect
<1>1. Grows
  BY <1>a, Numbers DEF Grows
<1>2. LiveGenuine'
  BY <1>a, Numbers DEF Genuine, LiveGenuine
<1>3. ASSUME NEW p \in Objects, NEW i \in 1 .. Len(stream'[p])
      PROVE  stream'[p][i].ver \in 1 .. k8s'[p].ver
  <2>1. CASE p # o \/ ~conn
    <3>1. stream'[p] = stream[p]
      BY <2>1, ChangedEffect
    <3>2. stream[p][i].ver \in 1 .. k8s[p].ver
      BY <3>1, <1>3 DEF Genuine, EventsGenuine
    <3>3. QED
      BY <1>1, <3>1, <3>2 DEF Grows
  <2>2. CASE p = o /\ conn
    <3> DEFINE e == [type |-> IF live THEN "changed" ELSE "deleted",
                     ver |-> k8s[o].ver + 1]
    <3>1. stream'[o] = Append(stream[o], e)
      BY <2>2, ChangedEffect
    <3>3. stream[o] \in Seq(Event)
      BY DEF CacheTypeOK
    <3>4. CASE i = Len(stream[o]) + 1
      <4>1. stream'[o][i] = e
        BY <3>1, <3>3, <3>4
      <4>2. QED
        BY <1>1, <1>a, <2>2, <4>1 DEF Grows
    <3>5. CASE i \in 1 .. Len(stream[o])
      <4>1. stream'[o][i] = stream[o][i]
        BY <3>1, <3>3, <3>5
      <4>2. stream[o][i].ver \in 1 .. k8s[o].ver
        BY <3>5 DEF Genuine, EventsGenuine
      <4>3. QED
        BY <1>1, <2>2, <4>1, <4>2 DEF Grows
    <3>6. QED
      BY <1>3, <2>2, <3>1, <3>3, <3>4, <3>5
  <2>3. QED
    BY <2>1, <2>2
<1>4. QED
  BY <1>1, <1>2, <1>3 DEF EventsGenuine

(* The synchronisation and the requests may keep what they have.           *)
LEMMA ListedKept ==
  ASSUME CacheTypeOK, Genuine, Grows, UNCHANGED sync PROVE ListedGenuine'
<1>1. ASSUME NEW o \in Objects, sync.pc = "upsert", o \in sync.todo
      PROVE  sync.seen[o] \in 1 .. k8s'[o].ver
  <2>1. sync.seen[o] \in 1 .. k8s[o].ver
    BY <1>1 DEF Genuine, ListedGenuine
  <2>2. QED
    BY <2>1 DEF Grows
<1>2. QED
  BY <1>1 DEF ListedGenuine

LEMMA PutsKept ==
  ASSUME CacheTypeOK, Genuine, Grows,
         \A q \in Requests :
            \/ api'[q] = api[q]
            \/ api'[q].op = "put" => api'[q].ver \in 1 .. k8s'[api'[q].obj].ver
  PROVE  PutsGenuine'
<1>1. ASSUME NEW q \in Requests, api[q].op = "put"
      PROVE  api[q].ver \in 1 .. k8s'[api[q].obj].ver
  <2>1. api[q].ver \in 1 .. k8s[api[q].obj].ver
    BY <1>1 DEF Genuine, PutsGenuine
  <2>2. api[q].obj \in Objects
    BY Numbers
  <2>3. QED
    BY <2>1, <2>2 DEF Grows
<1>2. ASSUME NEW q \in Requests, api'[q].op = "put"
      PROVE  api'[q].ver \in 1 .. k8s'[api'[q].obj].ver
  BY <1>1, <1>2
<1>3. QED
  BY <1>2 DEF PutsGenuine

LEMMA PutsSame ==
  ASSUME CacheTypeOK, Genuine, Grows, UNCHANGED api PROVE PutsGenuine'
BY PutsKept

(* What is left of a stream without its first event.                       *)
LEMMA TailEvents ==
  ASSUME NEW s \in Seq(Event), s # <<>>
  PROVE  /\ Head(s) = s[1]
         /\ Len(s) \in Nat \ {0}
         /\ Tail(s) \in Seq(Event)
         /\ Len(Tail(s)) = Len(s) - 1
         /\ \A i \in 1 .. Len(Tail(s)) : Tail(s)[i] = s[i + 1]
OBVIOUS

LEMMA GenuineStep == CacheTypeOK /\ Genuine /\ [CacheNext]_cacheVars => Genuine'
<1> SUFFICES ASSUME CacheTypeOK, Genuine, [CacheNext]_cacheVars PROVE Genuine'
  OBVIOUS
<1> USE DEF watchVars
<1>k. ASSUME UNCHANGED <<k8s, stream>> PROVE Grows /\ LiveGenuine' /\ EventsGenuine'
  BY <1>k DEF CacheTypeOK, Objs, Grows, Genuine, LiveGenuine, EventsGenuine
<1>e. ASSUME UNCHANGED k8s, \A o \in Objects : stream'[o] = <<>>
      PROVE  Grows /\ LiveGenuine' /\ EventsGenuine'
  BY <1>e DEF CacheTypeOK, Objs, Grows, Genuine, LiveGenuine, EventsGenuine
<1>l. ASSUME UNCHANGED k8s, NEW S \in SUBSET {o \in Objects : k8s[o].live}, ListedAs(S)
      PROVE  ListedGenuine'
  BY <1>l DEF CacheTypeOK, Objs, Genuine, LiveGenuine, ListedAs, ListedGenuine
<1>1. ASSUME NEW o \in Objects, ClusterChanges(o) PROVE Genuine'
  BY <1>1, ChangedGenuine, ListedKept, PutsSame DEF ClusterChanges, Genuine
<1>2. CASE FullSync
  <2>1. UNCHANGED <<k8s, stream, api>>
    BY <1>2 DEF FullSync, SyncList, SyncUpsert, SyncCompare, SyncDelete, SyncDone
  <2>2. ListedGenuine'
    <3>1. CASE SyncList
      BY <3>1, <1>l DEF SyncList
    <3>2. ASSUME NEW o \in Objects, SyncUpsert(o) PROVE ListedGenuine'
      BY <2>1, <3>2 DEF CacheTypeOK, Genuine, ListedGenuine, SyncUpsert
    <3>3. CASE SyncCompare \/ (\E o \in Objects : SyncDelete(o)) \/ SyncDone
      <4>1. SyncCompare => sync'.pc = "delete"
        BY DEF CacheTypeOK, SyncCompare
      <4>2. (\E o \in Objects : SyncDelete(o)) => sync'.pc = "delete"
        BY DEF CacheTypeOK, SyncDelete
      <4>3. SyncDone => sync'.pc = "idle"
        BY DEF SyncDone, SyncIdle
      <4>4. QED
        BY <3>3, <4>1, <4>2, <4>3 DEF ListedGenuine
    <3>4. QED
      BY <1>2, <3>1, <3>2, <3>3 DEF FullSync
  <2>3. QED
    BY <1>k, <2>1, <2>2, PutsSame DEF Genuine
<1>3. CASE Watching
  <2>1. UNCHANGED <<k8s, sync, api>>
    BY <1>3 DEF Watching, Connect, StreamEnds, HandleEvent
  <2>2. Grows /\ LiveGenuine'
    BY <2>1 DEF CacheTypeOK, Objs, Grows, Genuine, LiveGenuine
  <2>3. CASE Connect
    <3>1. ASSUME NEW o \in Objects, NEW i \in 1 .. Len(stream'[o])
          PROVE  stream'[o][i].ver \in 1 .. k8s'[o].ver
      BY <2>1, <2>3, <3>1 DEF CacheTypeOK, Objs, Genuine, LiveGenuine, Connect
    <3>2. QED
      BY <2>1, <2>2, <3>1, ListedKept, PutsSame DEF Genuine, EventsGenuine
  <2>4. CASE StreamEnds
    BY <1>e, <2>1, <2>4, ListedKept, PutsSame DEF StreamEnds, Genuine
  <2>5. ASSUME NEW o \in Objects, HandleEvent(o) PROVE Genuine'
    <3>1. stream[o] \in Seq(Event) /\ stream[o] # <<>>
          /\ stream' = [stream EXCEPT ![o] = Tail(stream[o])]
      BY <2>5 DEF HandleEvent, CacheTypeOK
    <3>2. ASSUME NEW p \in Objects, NEW i \in 1 .. Len(stream'[p])
          PROVE  stream'[p][i].ver \in 1 .. k8s'[p].ver
      <4>1. CASE p # o
        BY <2>1, <3>1, <3>2, <4>1 DEF CacheTypeOK, Genuine, EventsGenuine
      <4>2. CASE p = o
        <5>1. stream'[p] = Tail(stream[o])
          BY <3>1, <4>2 DEF CacheTypeOK
        <5>4. /\ Len(stream[o]) \in Nat \ {0}
              /\ Len(Tail(stream[o])) = Len(stream[o]) - 1
              /\ \A j \in 1 .. Len(Tail(stream[o])) :
                    Tail(stream[o])[j] = stream[o][j + 1]
          BY <3>1, TailEvents
        <5>5. i \in 1 .. Len(stream[o]) - 1
          BY <3>2, <5>1, <5>4
        <5>2. i + 1 \in 1 .. Len(stream[o]) /\ stream'[p][i] = stream[o][i + 1]
          BY <5>1, <5>4, <5>5
        <5>3. QED
          BY <2>1, <4>2, <5>2 DEF Genuine, EventsGenuine
      <4>3. QED
        BY <4>1, <4>2
    <3>3. QED
      BY <2>1, <2>2, <3>2, ListedKept, PutsSame DEF Genuine, EventsGenuine
  <2>6. QED
    BY <1>3, <2>3, <2>4, <2>5 DEF Watching
<1>4. ASSUME NEW q \in Requests, NEW o \in Objects, ApiDraft(q, o) PROVE Genuine'
  <2>1. UNCHANGED <<k8s, stream, sync>>
    BY <1>4 DEF ApiDraft
  <2>2. PutsGenuine'
    <3>1. api'[q].op = "draft" /\ \A p \in Requests \ {q} : api'[p] = api[p]
      BY <1>4 DEF ApiDraft, CacheTypeOK
    <3>2. QED
      BY <1>k, <2>1, <3>1, PutsKept
  <2>3. QED
    BY <1>k, <2>1, <2>2, ListedKept DEF Genuine
<1>5. ASSUME NEW q \in Requests, NEW o \in Objects, ApiPatch(q, o) PROVE Genuine'
  <2>1. Changed(o, TRUE) /\ UNCHANGED sync
    BY <1>5 DEF ApiPatch
  <2>2. Grows /\ LiveGenuine' /\ EventsGenuine'
    BY <2>1, ChangedGenuine
  <2>3. k8s'[o].ver = k8s[o].ver + 1
    BY <2>1, ChangedEffect
  <2>4. api' = [api EXCEPT ![q] = [op |-> "put", obj |-> o, ver |-> k8s[o].ver + 1]]
    BY <1>5 DEF ApiPatch
  <2>7. api'[q].obj = o /\ api'[q].ver = k8s'[o].ver
    BY <2>3, <2>4 DEF CacheTypeOK
  <2>8. api'[q].ver \in 1 .. k8s'[api'[q].obj].ver
    BY <2>2, <2>3, <2>7 DEF Grows
  <2>9. \A p \in Requests \ {q} : api'[p] = api[p]
    BY <2>4 DEF CacheTypeOK
  <2>5. PutsGenuine'
    BY <2>2, <2>8, <2>9, PutsKept
  <2>6. QED
    BY <2>1, <2>2, <2>5, ListedKept DEF Genuine
<1>6. ASSUME NEW q \in Requests, Answer(q) PROVE Genuine'
  <2> DEFINE o == api[q].obj
  <2>1. o \in Objects
    BY DEF CacheTypeOK
  <2>2. CASE Changed(o, TRUE) /\ UNCHANGED sync
             /\ api' = [api EXCEPT ![q].op = "put", ![q].ver = k8s[o].ver + 1]
    <3>1. Grows /\ LiveGenuine' /\ EventsGenuine'
      BY <2>1, <2>2, ChangedGenuine
    <3>2. k8s'[o].ver = k8s[o].ver + 1
      BY <2>1, <2>2, ChangedEffect
    <3>3. api'[q].ver = k8s[o].ver + 1 /\ api'[q].obj = o
      BY <2>2 DEF CacheTypeOK
    <3>4. api'[q].ver \in 1 .. k8s'[api'[q].obj].ver
      BY <2>1, <3>1, <3>2, <3>3 DEF Grows
    <3>5. \A p \in Requests \ {q} : api'[p] = api[p]
      BY <2>2 DEF CacheTypeOK
    <3>6. PutsGenuine'
      BY <3>1, <3>4, <3>5, PutsKept
    <3>7. QED
      BY <2>2, <3>1, <3>6, ListedKept DEF Genuine
  <2>3. CASE UNCHANGED <<k8s, stream, sync>> /\ api'[q].op # "put"
             /\ \A p \in Requests \ {q} : api'[p] = api[p]
    <3>1. PutsGenuine'
      BY <1>k, <2>3, PutsKept
    <3>2. QED
      BY <1>k, <2>3, <3>1, ListedKept DEF Genuine
  <2>4. CASE ApiCreate(q)
    <3>1. CASE api' = [api EXCEPT ![q].op = "drop"] /\ UNCHANGED <<k8s, stream>>
      <4>1. api'[q].op # "put" /\ \A p \in Requests \ {q} : api'[p] = api[p]
        BY <3>1 DEF CacheTypeOK
      <4>2. QED
        BY <2>3, <2>4, <3>1, <4>1 DEF ApiCreate
    <3>2. CASE Changed(o, TRUE)
               /\ api' = [api EXCEPT ![q].op = "put", ![q].ver = k8s[o].ver + 1]
      BY <2>2, <2>4, <3>2 DEF ApiCreate
    <3>3. QED
      BY <2>4, <3>1, <3>2 DEF ApiCreate
  <2>5. CASE ApiPut(q) \/ ApiDrop(q)
    <3>1. api'[q].op # "put" /\ \A p \in Requests \ {q} : api'[p] = api[p]
      BY <2>5, NoOpType DEF ApiPut, ApiDrop, CacheTypeOK
    <3>2. UNCHANGED <<k8s, stream, sync>>
      BY <2>5 DEF ApiPut, ApiDrop
    <3>3. QED
      BY <2>3, <3>1, <3>2
  <2>6. QED
    BY <1>6, <2>4, <2>5 DEF Answer
<1>7. CASE CacheFault
  <2>1. CASE SyncListsPart
    <3>1. UNCHANGED <<k8s, stream, api>>
      BY <2>1 DEF SyncListsPart
    <3>2. ListedGenuine'
      BY <1>l, <2>1 DEF SyncListsPart
    <3>3. QED
      BY <1>k, <3>1, <3>2, PutsSame DEF Genuine
  <2>2. CASE WatcherDies
    <3>1. UNCHANGED <<k8s, api>> /\ \A o \in Objects : stream'[o] = <<>>
      BY <2>2 DEF WatcherDies
    <3>2. ListedGenuine'
      BY <2>2 DEF WatcherDies, SyncIdle, ListedGenuine
    <3>3. QED
      BY <1>e, <3>1, <3>2, PutsSame DEF Genuine
  <2>3. ASSUME NEW q \in Requests, ApiCreateFails(q) \/ ApiDies(q) PROVE Genuine'
    <3>1. api'[q].op # "put" /\ (\A p \in Requests \ {q} : api'[p] = api[p])
          /\ UNCHANGED sync
      BY <2>3, NoOpType DEF ApiCreateFails, ApiDies, CacheTypeOK
    <3>2. api[q].obj \in Objects
      BY DEF CacheTypeOK
    <3>3. Grows /\ LiveGenuine' /\ EventsGenuine'
      BY <1>k, <2>3, <3>2, ChangedGenuine DEF ApiCreateFails, ApiDies
    <3>4. PutsGenuine'
      BY <3>1, <3>3, PutsKept
    <3>5. QED
      BY <3>1, <3>3, <3>4, ListedKept DEF Genuine
  <2>4. QED
    BY <1>7, <2>1, <2>2, <2>3 DEF CacheFault
<1>8. CASE UNCHANGED cacheVars
  BY <1>k, <1>8, ListedKept, PutsSame DEF cacheVars, Genuine
<1>9. QED
  BY <1>1, <1>2, <1>3, <1>4, <1>5, <1>6, <1>7, <1>8 DEF CacheNext

-----------------------------------------------------------------------------
(* Drafts.                                                                 *)

(* A step keeps DraftHasRequest if every draft there is after it has a     *)
(* request then, or was there before and loses none of its requests.       *)
LEMMA DraftKept ==
  ASSUME CacheTypeOK, DraftHasRequest, faults' >= faults, faults' \in Nat,
         \A o \in Objects : cache'[o].kind = "draft" =>
            \/ \E q \in Requests : api'[q].op # "no" /\ api'[q].obj = o
            \/ /\ cache[o].kind = "draft"
               /\ \A q \in Requests :
                     api[q].op # "no" /\ api[q].obj = o =>
                        api'[q].op # "no" /\ api'[q].obj = o
  PROVE  DraftHasRequest'
<1>1. ASSUME NEW o \in Objects, cache'[o].kind = "draft"
      PROVE  \/ \E q \in Requests : api'[q].op # "no" /\ api'[q].obj = o
             \/ faults' > 0
  <2>1. CASE faults > 0
    BY <2>1 DEF CacheTypeOK
  <2>2. CASE ~(faults > 0)
    BY <1>1, <2>2 DEF DraftHasRequest
  <2>3. QED
    BY <2>1, <2>2
<1>2. QED
  BY <1>1 DEF DraftHasRequest

LEMMA DraftStep ==
  CacheTypeOK /\ DraftHasRequest /\ [CacheNext]_cacheVars => DraftHasRequest'
<1> SUFFICES ASSUME CacheTypeOK, DraftHasRequest, [CacheNext]_cacheVars
             PROVE  DraftHasRequest'
  OBVIOUS
<1> USE DEF watchVars
<1>k. faults \in Nat /\ faults >= faults
  BY DEF CacheTypeOK
<1>n. NoEntry.kind = "none" /\ \A v : Real(v).kind = "real"
  BY DEF NoEntry, Real
(* Rows are only replaced by others than drafts.                           *)
<1>r. ASSUME UNCHANGED <<api, faults>>,
             \A o \in Objects : cache'[o] = cache[o] \/ cache'[o].kind # "draft"
      PROVE  DraftHasRequest'
  BY <1>k, <1>r, DraftKept
<1>p. ASSUME NEW o \in Objects, NEW e \in Entry, Put(o, e)
      PROVE  cache'[o] = e /\ \A p \in Objects \ {o} : cache'[p] = cache[p]
  BY <1>p, PutEffect
<1>1. ASSUME NEW o \in Objects, ClusterChanges(o) PROVE DraftHasRequest'
  BY <1>1, <1>r DEF ClusterChanges
<1>2. CASE FullSync
  <2>1. UNCHANGED <<api, faults>>
    BY <1>2 DEF FullSync, SyncList, SyncUpsert, SyncCompare, SyncDelete, SyncDone
  <2>2. ASSUME NEW o \in Objects, SyncUpsert(o) PROVE DraftHasRequest'
    <3>1. Put(o, Real(sync.seen[o])) /\ Real(sync.seen[o]) \in Entry
      BY <2>2, Numbers, EntryTypes DEF SyncUpsert
    <3>2. QED
      BY <1>n, <1>p, <1>r, <2>1, <3>1
  <2>3. ASSUME NEW o \in Objects, SyncDelete(o) PROVE DraftHasRequest'
    <3>1. Put(o, NoEntry) /\ NoEntry \in Entry
      BY <2>3, EntryTypes DEF SyncDelete
    <3>2. QED
      BY <1>n, <1>p, <1>r, <2>1, <3>1
  <2>4. CASE SyncList \/ SyncCompare \/ SyncDone
    BY <1>r, <2>1, <2>4 DEF SyncList, SyncCompare, SyncDone
  <2>5. QED
    BY <1>2, <2>2, <2>3, <2>4 DEF FullSync
<1>3. CASE Watching
  <2>1. UNCHANGED <<api, faults>>
    BY <1>3 DEF Watching, Connect, StreamEnds, HandleEvent
  <2>2. CASE Connect \/ StreamEnds
    BY <1>r, <2>1, <2>2 DEF Connect, StreamEnds
  <2>3. ASSUME NEW o \in Objects, HandleEvent(o) PROVE DraftHasRequest'
    <3>1. \A p \in Objects : cache'[p] = cache[p] \/ cache'[p].kind # "draft"
      BY <1>n, <2>3 DEF HandleEvent, CacheTypeOK
    <3>2. QED
      BY <1>r, <2>1, <3>1
  <2>4. QED
    BY <1>3, <2>2, <2>3 DEF Watching
<1>4. ASSUME NEW q \in Requests, NEW o \in Objects, ApiDraft(q, o)
      PROVE  DraftHasRequest'
  <2>1. Put(o, Draft) /\ Draft \in Entry /\ faults' = faults
    BY <1>4, EntryTypes DEF ApiDraft
  <2>2. api[q].op = "no" /\ api'[q].op = "draft" /\ api'[q].obj = o
        /\ \A p \in Requests \ {q} : api'[p] = api[p]
    BY <1>4 DEF ApiDraft, CacheTypeOK
  <2>3. QED
    BY <1>k, <1>p, <2>1, <2>2, DraftKept
<1>5. ASSUME NEW q \in Requests, NEW o \in Objects, ApiPatch(q, o)
      PROVE  DraftHasRequest'
  <2>1. api[q].op = "no" /\ \A p \in Requests \ {q} : api'[p] = api[p]
    BY <1>5 DEF ApiPatch, CacheTypeOK
  <2>2. cache' = cache /\ faults' = faults
    BY <1>5 DEF ApiPatch
  <2>3. QED
    BY <1>k, <2>1, <2>2, DraftKept
<1>6. ASSUME NEW q \in Requests, Answer(q) PROVE DraftHasRequest'
  <2>1. api[q].obj \in Objects
    BY Numbers
  <2>2. CASE ApiCreate(q)
    <3>1. cache' = cache /\ faults' = faults
      BY <2>2 DEF ApiCreate
    <3>2. api'[q].op # "no" /\ api'[q].obj = api[q].obj
          /\ \A p \in Requests \ {q} : api'[p] = api[p]
      <4>1. \/ api' = [api EXCEPT ![q].op = "drop"]
            \/ api' = [api EXCEPT ![q].op = "put",
                                  ![q].ver = k8s[api[q].obj].ver + 1]
        BY <2>2 DEF ApiCreate
      <4>2. QED
        BY <4>1 DEF CacheTypeOK
    <3>3. QED
      BY <1>k, <3>1, <3>2, DraftKept
  <2>3. CASE ApiPut(q) \/ ApiDrop(q)
    <3>1. PICK e \in Entry : Put(api[q].obj, e) /\ e.kind # "draft"
      BY <1>n, <2>3, Numbers, EntryTypes DEF ApiPut, ApiDrop
    <3>2. faults' = faults /\ \A p \in Requests \ {q} : api'[p] = api[p]
      BY <2>3 DEF ApiPut, ApiDrop, CacheTypeOK
    <3>3. cache'[api[q].obj] = e
          /\ \A o \in Objects \ {api[q].obj} : cache'[o] = cache[o]
      BY <1>p, <2>1, <3>1
    <3>4. QED
      BY <1>k, <3>1, <3>2, <3>3, DraftKept
  <2>4. QED
    BY <1>6, <2>2, <2>3 DEF Answer
<1>7. CASE CacheFault
  <2>1. faults' = faults + 1
    BY <1>7 DEF CacheFault, SyncListsPart, WatcherDies, ApiCreateFails, ApiDies
  <2>2. QED
    BY <1>k, <2>1 DEF DraftHasRequest
<1>8. CASE UNCHANGED cacheVars
  BY <1>8, <1>r DEF cacheVars
<1>9. QED
  BY <1>1, <1>2, <1>3, <1>4, <1>5, <1>6, <1>7, <1>8 DEF CacheNext

-----------------------------------------------------------------------------
(* The watch.                                                              *)

Watched == LastIsTruth /\ WatchedIsAccurate

(* A step that has no part in the watch but may write one row.             *)
LEMMA WatchedIfPut ==
  ASSUME CacheTypeOK, Watched, UNCHANGED <<k8s, conn, stream>>,
         NEW o \in Objects, NEW e \in Entry, Put(o, e)
  PROVE  Watched'
<1>1. LastIsTruth'
  BY DEF Watched, LastIsTruth
<1>2. ASSUME NEW p \in Objects, conn, stream[p] = <<>>, ~spoiled'[p]
      PROVE  cache'[p] = Truth(k8s, p)
  <2>1. CASE p = o
    BY <1>2, <2>1, PutEffect
  <2>2. CASE p # o
    <3>1. cache'[p] = cache[p] /\ spoiled'[p] = spoiled[p]
      BY <2>2, PutEffect
    <3>2. QED
      BY <1>2, <3>1 DEF Watched, WatchedIsAccurate, Agrees
  <2>3. QED
    BY <2>1, <2>2
<1>3. QED
  BY <1>1, <1>2 DEF Watched, WatchedIsAccurate, Agrees, Truth

LEMMA WatchedSame ==
  ASSUME Watched, UNCHANGED <<k8s, cache, conn, stream, spoiled>>
  PROVE  Watched'
BY DEF Watched, LastIsTruth, WatchedIsAccurate, Agrees, Truth

(* Nobody watches.                                                         *)
LEMMA WatchedUnlessOpen == ASSUME ~conn' PROVE Watched'
BY DEF Watched, LastIsTruth, WatchedIsAccurate

(* Who watches has an event of the change to handle.                       *)
LEMMA WatchedIfChanged ==
  ASSUME CacheTypeOK, Watched, UNCHANGED <<cache, conn, spoiled>>,
         NEW o \in Objects, NEW live \in BOOLEAN, Changed(o, live)
  PROVE  Watched'
<1>1. CASE ~conn
  BY <1>1, WatchedUnlessOpen
<1>2. CASE conn
  <2> DEFINE e == [type |-> IF live THEN "changed" ELSE "deleted",
                   ver |-> k8s[o].ver + 1]
  <2>1. stream'[o] = Append(stream[o], e)
    BY <1>2, ChangedEffect
  <2>2. k8s'[o].live = live /\ k8s'[o].ver = k8s[o].ver + 1
    BY ChangedEffect
  <2>3. \A p \in Objects \ {o} : k8s'[p] = k8s[p] /\ stream'[p] = stream[p]
    BY ChangedEffect
  <2>4. stream[o] \in Seq(Event)
    BY DEF CacheTypeOK
  <2>5. stream'[o] # <<>> /\ stream'[o][Len(stream'[o])] = e
    BY <2>1, <2>4
  <2>6. LastIsTruth'
    <3>1. ASSUME NEW p \in Objects, stream'[p] # <<>>
          PROVE  stream'[p][Len(stream'[p])] =
                    [type |-> IF k8s'[p].live THEN "changed" ELSE "deleted",
                     ver |-> k8s'[p].ver]
      <4>1. CASE p = o
        BY <2>2, <2>5, <4>1
      <4>2. CASE p # o
        BY <1>2, <2>3, <3>1, <4>2 DEF Watched, LastIsTruth
      <4>3. QED
        BY <4>1, <4>2
    <3>2. QED
      BY <3>1 DEF LastIsTruth
  <2>7. WatchedIsAccurate'
    BY <1>2, <2>3, <2>5 DEF Watched, WatchedIsAccurate, Agrees, Truth
  <2>8. QED
    BY <2>6, <2>7 DEF Watched
<1>3. QED
  BY <1>1, <1>2

LEMMA WatchedIfHandled ==
  ASSUME CacheTypeOK, Watched, NEW o \in Objects, HandleEvent(o)
  PROVE  Watched'
<1> DEFINE s == stream[o]
<1>1. s \in Seq(Event) /\ s # <<>> /\ stream' = [stream EXCEPT ![o] = Tail(s)]
  BY DEF HandleEvent, CacheTypeOK
<1>2. UNCHANGED <<k8s, conn>>
  BY DEF HandleEvent
<1>3. /\ Len(s) \in Nat \ {0}
      /\ Len(Tail(s)) = Len(s) - 1
      /\ Tail(s) \in Seq(Event)
      /\ Head(s) = s[1]
      /\ \A i \in 1 .. Len(Tail(s)) : Tail(s)[i] = s[i + 1]
  BY <1>1, TailEvents
<1>4. /\ stream'[o] = Tail(s)
      /\ \A p \in Objects \ {o} : stream'[p] = stream[p]
  BY <1>1 DEF CacheTypeOK
<1>5. ASSUME Tail(s) # <<>> PROVE Tail(s)[Len(Tail(s))] = s[Len(s)]
  <2>1. Len(Tail(s)) \in 1 .. Len(Tail(s))
    BY <1>3, <1>5
  <2>2. QED
    BY <1>3, <2>1
<1>6. LastIsTruth'
  <2>1. ASSUME NEW p \in Objects, conn, stream'[p] # <<>>
        PROVE  stream'[p][Len(stream'[p])] =
                  [type |-> IF k8s[p].live THEN "changed" ELSE "deleted",
                   ver |-> k8s[p].ver]
    <3>1. CASE p = o
      BY <1>1, <1>4, <1>5, <2>1, <3>1 DEF Watched, LastIsTruth
    <3>2. CASE p # o
      BY <1>4, <2>1, <3>2 DEF Watched, LastIsTruth
    <3>3. QED
      BY <3>1, <3>2
  <2>2. QED
    BY <1>2, <2>1 DEF LastIsTruth
<1>7. ASSUME NEW p \in Objects, conn, stream'[p] = <<>>, ~spoiled'[p]
      PROVE  cache'[p] = Truth(k8s, p)
  <2>1. CASE p = o
    <3>0. Tail(s) = <<>>
      BY <1>4, <1>7, <2>1
    <3>6. Len(Tail(s)) = 0
      <4> HIDE DEF s
      <4>1. Len(<<>>) = 0
        OBVIOUS
      <4>2. QED
        BY <3>0, <4>1, Zenon
    <3>7. Len(s) \in Nat /\ Len(Tail(s)) = Len(s) - 1
      BY <1>3
    <3>1. Len(s) = 1
      BY <3>6, <3>7
    <3>2. Head(s) = [type |-> IF k8s[o].live THEN "changed" ELSE "deleted",
                     ver |-> k8s[o].ver]
      BY <1>1, <1>3, <1>7, <3>1 DEF Watched, LastIsTruth
    <3>3. Head(s).type = (IF k8s[o].live THEN "changed" ELSE "deleted")
          /\ Head(s).ver = k8s[o].ver
      BY <3>2
    <3>4. cache'[o] = IF Head(s).type = "deleted" THEN NoEntry ELSE Real(Head(s).ver)
      BY DEF HandleEvent, CacheTypeOK
    <3>5. QED
      BY <2>1, <3>3, <3>4 DEF Truth
  <2>2. CASE p # o
    <3>1. cache'[p] = cache[p] /\ spoiled'[p] = spoiled[p]
      BY <2>2 DEF HandleEvent, CacheTypeOK
    <3>2. QED
      BY <1>4, <1>7, <2>2, <3>1 DEF Watched, WatchedIsAccurate, Agrees
  <2>3. QED
    BY <2>1, <2>2
<1>8. QED
  BY <1>2, <1>6, <1>7 DEF Watched, WatchedIsAccurate, Agrees, Truth

LEMMA WatchedIfConnected ==
  ASSUME CacheTypeOK, Connect PROVE Watched'
<1>1. UNCHANGED <<k8s, cache>>
  BY DEF Connect
<1>2. ASSUME NEW o \in Objects
      PROVE  /\ stream'[o] = IF k8s[o].live
                             THEN <<[type |-> "changed", ver |-> k8s[o].ver]>>
                             ELSE <<>>
             /\ ~spoiled'[o] => k8s[o].live \/ Agrees(o)
  BY DEF Connect
<1>3. ASSUME NEW o \in Objects, stream'[o] # <<>>
      PROVE  stream'[o][Len(stream'[o])] =
                [type |-> IF k8s[o].live THEN "changed" ELSE "deleted",
                 ver |-> k8s[o].ver]
  <2>1. k8s[o].live
    BY <1>2, <1>3
  <2>2. stream'[o] = <<[type |-> "changed", ver |-> k8s[o].ver]>>
    BY <1>2, <2>1
  <2>3. QED
    BY <2>1, <2>2
<1>4. ASSUME NEW o \in Objects, stream'[o] = <<>>, ~spoiled'[o]
      PROVE  cache[o] = Truth(k8s, o)
  <2>1. CASE k8s[o].live
    <3>1. stream'[o] = <<[type |-> "changed", ver |-> k8s[o].ver]>>
      BY <1>2, <2>1
    <3>2. QED
      BY <1>4, <3>1
  <2>2. CASE ~k8s[o].live
    BY <1>2, <1>4, <2>2 DEF Agrees
  <2>3. QED
    BY <2>1, <2>2
<1>6. LastIsTruth'
  BY <1>1, <1>3 DEF LastIsTruth
<1>7. WatchedIsAccurate'
  BY <1>1, <1>4 DEF WatchedIsAccurate, Agrees, Truth
<1>5. QED
  BY <1>6, <1>7 DEF Watched

LEMMA WatchedStep == CacheTypeOK /\ Watched /\ [CacheNext]_cacheVars => Watched'
<1> SUFFICES ASSUME CacheTypeOK, Watched, [CacheNext]_cacheVars PROVE Watched'
  OBVIOUS
<1> USE DEF watchVars
<1>1. ASSUME NEW o \in Objects, ClusterChanges(o) PROVE Watched'
  BY <1>1, WatchedIfChanged DEF ClusterChanges
<1>2. CASE FullSync
  <2>1. UNCHANGED <<k8s, conn, stream>>
    BY <1>2 DEF FullSync, SyncList, SyncUpsert, SyncCompare, SyncDelete, SyncDone
  <2>2. ASSUME NEW o \in Objects, SyncUpsert(o) PROVE Watched'
    <3>1. Put(o, Real(sync.seen[o])) /\ Real(sync.seen[o]) \in Entry
      BY <2>2, Numbers, EntryTypes DEF SyncUpsert
    <3>2. QED
      BY <2>1, <3>1, WatchedIfPut
  <2>3. ASSUME NEW o \in Objects, SyncDelete(o) PROVE Watched'
    <3>1. Put(o, NoEntry) /\ NoEntry \in Entry
      BY <2>3, EntryTypes DEF SyncDelete
    <3>2. QED
      BY <2>1, <3>1, WatchedIfPut
  <2>4. CASE SyncList \/ SyncCompare \/ SyncDone
    BY <2>1, <2>4, WatchedSame DEF SyncList, SyncCompare, SyncDone
  <2>5. QED
    BY <1>2, <2>2, <2>3, <2>4 DEF FullSync
<1>3. CASE Watching
  <2>1. CASE StreamEnds
    BY <2>1, WatchedUnlessOpen DEF StreamEnds
  <2>2. QED
    BY <1>3, <2>1, WatchedIfConnected, WatchedIfHandled DEF Watching
<1>4. ASSUME NEW q \in Requests, NEW o \in Objects, ApiDraft(q, o) PROVE Watched'
  <2>1. Put(o, Draft) /\ Draft \in Entry /\ UNCHANGED <<k8s, conn, stream>>
    BY <1>4, EntryTypes DEF ApiDraft
  <2>2. QED
    BY <2>1, WatchedIfPut
<1>5. ASSUME NEW q \in Requests, NEW o \in Objects, ApiPatch(q, o) PROVE Watched'
  BY <1>5, WatchedIfChanged DEF ApiPatch
<1>6. ASSUME NEW q \in Requests, Answer(q) PROVE Watched'
  <2>1. api[q].obj \in Objects
    BY Numbers
  <2>2. CASE ApiCreate(q)
    BY <2>1, <2>2, WatchedIfChanged, WatchedSame DEF ApiCreate
  <2>3. CASE ApiPut(q) \/ ApiDrop(q)
    <3>1. PICK e \in Entry : Put(api[q].obj, e)
      BY <2>3, Numbers, EntryTypes DEF ApiPut, ApiDrop
    <3>2. UNCHANGED <<k8s, conn, stream>>
      BY <2>3 DEF ApiPut, ApiDrop
    <3>3. QED
      BY <2>1, <3>1, <3>2, WatchedIfPut
  <2>4. QED
    BY <1>6, <2>2, <2>3 DEF Answer
<1>7. CASE CacheFault
  <2>1. CASE SyncListsPart
    BY <2>1, WatchedSame DEF SyncListsPart
  <2>2. CASE WatcherDies
    BY <2>2, WatchedUnlessOpen DEF WatcherDies
  <2>3. ASSUME NEW q \in Requests, ApiCreateFails(q) PROVE Watched'
    <3>1. api[q].obj \in Objects
      BY Numbers
    <3>2. QED
      BY <2>3, <3>1, WatchedIfChanged, WatchedSame DEF ApiCreateFails
  <2>4. ASSUME NEW q \in Requests, ApiDies(q) PROVE Watched'
    BY <2>4, WatchedSame DEF ApiDies
  <2>5. QED
    BY <1>7, <2>1, <2>2, <2>3, <2>4 DEF CacheFault
<1>8. CASE UNCHANGED cacheVars
  BY <1>8, WatchedSame DEF cacheVars
<1>9. QED
  BY <1>1, <1>2, <1>3, <1>4, <1>5, <1>6, <1>7, <1>8 DEF CacheNext

-----------------------------------------------------------------------------
(* The invariant.                                                          *)

LEMMA CacheInvInit == CacheInit => CacheInv
<1> SUFFICES ASSUME CacheInit PROVE CacheInv
  OBVIOUS
<1>1. CacheTypeOK
  BY CacheTypeInit
<1>2. Genuine
  BY DEF CacheInit, SyncIdle, NoOp, Genuine, LiveGenuine, ListedGenuine,
         PutsGenuine, EventsGenuine
<1>3. DraftHasRequest
  BY DEF CacheInit, NoEntry, DraftHasRequest
<1>4. Watched
  BY DEF CacheInit, Watched, LastIsTruth, WatchedIsAccurate
<1>5. QED
  BY <1>1, <1>2, <1>3, <1>4 DEF CacheInv, Watched

LEMMA CacheInvStep == CacheInv /\ [CacheNext]_cacheVars => CacheInv'
BY CacheTypeStep, GenuineStep, DraftStep, WatchedStep DEF CacheInv, Watched

LEMMA CacheInvCorrect == CacheSpec => []CacheInv
BY CacheInvInit, CacheInvStep, PTL DEF CacheSpec

(* What create writes before the object exists is written over by every    *)
(* path of create, unless a request dies.                                  *)
THEOREM DraftsHaveRequests == CacheSpec => []DraftHasRequest
<1>1. CacheInv => DraftHasRequest
  BY DEF CacheInv
<1>2. QED
  BY <1>1, CacheInvCorrect, PTL

(* The events of a stream that is open and empty were enough to know the   *)
(* objects nobody else wrote about.                                        *)
THEOREM WatchIsAccurate == CacheSpec => []WatchedIsAccurate
<1>1. CacheInv => WatchedIsAccurate
  BY DEF CacheInv
<1>2. QED
  BY <1>1, CacheInvCorrect, PTL

-----------------------------------------------------------------------------
(* K8sCache implements ObjectCache.                                        *)

LEMMA ViewedChange ==
  ASSUME NEW o \in Objects, NEW live \in BOOLEAN, k8s[o].live \/ live,
         k8s[o].ver < MaxVersion, Changed(o, live), UNCHANGED cache
  PROVE  View!ViewNext
<1>1. View!Change(o, live)
  BY DEF View!Change, Changed
<1>2. QED
  BY <1>1 DEF View!ViewNext

(* What is written to a row is a draft, nothing or a version of the object.*)
LEMMA ViewedPut ==
  ASSUME NEW o \in Objects, NEW e, UNCHANGED k8s,
         cache' = [cache EXCEPT ![o] = e],
         e = Draft \/ e = NoEntry \/ \E v \in 1 .. k8s[o].ver : e = Real(v)
  PROVE  View!ViewNext
<1>1. View!ShowDraft(o) \/ View!ShowNothing(o) \/ View!ShowVersion(o)
  BY DEF View!ShowDraft, View!ShowNothing, View!ShowVersion, View!Shows,
         View!Draft, View!NoEntry, View!Real, Draft, NoEntry, Real
<1>2. QED
  BY <1>1 DEF View!ViewNext

LEMMA ViewStep ==
  CacheTypeOK /\ Genuine /\ [CacheNext]_cacheVars
     => [View!ViewNext]_(View!viewVars)
<1> SUFFICES ASSUME CacheTypeOK, Genuine, [CacheNext]_cacheVars
             PROVE  View!ViewNext \/ UNCHANGED <<k8s, cache>>
  BY DEF View!viewVars
<1> USE DEF watchVars
<1>1. ASSUME NEW o \in Objects, ClusterChanges(o) PROVE View!ViewNext
  BY <1>1, ViewedChange DEF ClusterChanges
<1>2. CASE FullSync
  <2>1. ASSUME NEW o \in Objects, SyncUpsert(o) PROVE View!ViewNext
    <3>1. sync.seen[o] \in 1 .. k8s[o].ver
      BY <2>1 DEF Genuine, ListedGenuine, SyncUpsert
    <3>2. QED
      BY <2>1, <3>1, ViewedPut DEF SyncUpsert, Put
  <2>2. ASSUME NEW o \in Objects, SyncDelete(o) PROVE View!ViewNext
    BY <2>2, ViewedPut DEF SyncDelete, Put
  <2>3. CASE SyncList \/ SyncCompare \/ SyncDone
    BY <2>3 DEF SyncList, SyncCompare, SyncDone
  <2>4. QED
    BY <1>2, <2>1, <2>2, <2>3 DEF FullSync
<1>3. CASE Watching
  <2>1. CASE Connect \/ StreamEnds
    BY <2>1 DEF Connect, StreamEnds
  <2>2. ASSUME NEW o \in Objects, HandleEvent(o) PROVE View!ViewNext
    <3>1. stream[o] \in Seq(Event) /\ stream[o] # <<>> /\ UNCHANGED k8s
      BY <2>2 DEF HandleEvent, CacheTypeOK
    <3>2. Head(stream[o]) = stream[o][1] /\ Len(stream[o]) \in Nat \ {0}
      BY <3>1, TailEvents
    <3>3. Head(stream[o]).ver \in 1 .. k8s[o].ver
      BY <3>2 DEF Genuine, EventsGenuine
    <3>4. cache' = [cache EXCEPT ![o] =
                      IF Head(stream[o]).type = "deleted" THEN NoEntry
                      ELSE Real(Head(stream[o]).ver)]
      BY <2>2 DEF HandleEvent
    <3>5. QED
      BY <3>1, <3>3, <3>4, ViewedPut
  <2>3. QED
    BY <1>3, <2>1, <2>2 DEF Watching
<1>4. ASSUME NEW q \in Requests, NEW o \in Objects, ApiDraft(q, o)
      PROVE  View!ViewNext
  BY <1>4, ViewedPut DEF ApiDraft, Put
<1>5. ASSUME NEW q \in Requests, NEW o \in Objects, ApiPatch(q, o)
      PROVE  View!ViewNext
  BY <1>5, ViewedChange DEF ApiPatch
<1>6. ASSUME NEW q \in Requests, Answer(q)
      PROVE  View!ViewNext \/ UNCHANGED <<k8s, cache>>
  <2>1. api[q].obj \in Objects
    BY Numbers
  <2>2. CASE ApiCreate(q)
    BY <2>1, <2>2, ViewedChange DEF ApiCreate
  <2>3. CASE ApiPut(q)
    <3>1. api[q].ver \in 1 .. k8s[api[q].obj].ver
      BY <2>3 DEF Genuine, PutsGenuine, ApiPut
    <3>2. QED
      BY <2>1, <2>3, <3>1, ViewedPut DEF ApiPut, Put
  <2>4. CASE ApiDrop(q)
    BY <2>1, <2>4, ViewedPut DEF ApiDrop, Put
  <2>5. QED
    BY <1>6, <2>2, <2>3, <2>4 DEF Answer
<1>7. CASE CacheFault
  <2>1. CASE SyncListsPart \/ WatcherDies
    BY <2>1 DEF SyncListsPart, WatcherDies
  <2>2. ASSUME NEW q \in Requests, ApiCreateFails(q) \/ ApiDies(q)
        PROVE  View!ViewNext \/ UNCHANGED <<k8s, cache>>
    <3>1. api[q].obj \in Objects
      BY Numbers
    <3>2. QED
      BY <2>2, <3>1, ViewedChange DEF ApiCreateFails, ApiDies
  <2>3. QED
    BY <1>7, <2>1, <2>2 DEF CacheFault
<1>8. CASE UNCHANGED cacheVars
  BY <1>8 DEF cacheVars
<1>9. QED
  BY <1>1, <1>2, <1>3, <1>4, <1>5, <1>6, <1>7, <1>8 DEF CacheNext

(* Whatever the synchronisation, the watch and the API processes do to the *)
(* cache in any order, a reader sees what ObjectCache allows: no version   *)
(* that the object never had, and drafts.                                  *)
THEOREM CacheImplementsView == CacheSpec => View!ViewSpec
<1>1. CacheInit => View!ViewInit
  BY DEF CacheInit, View!ViewInit, View!NoEntry, NoEntry
<1>2. CacheInv /\ [CacheNext]_cacheVars => [View!ViewNext]_(View!viewVars)
  BY ViewStep DEF CacheInv
<1>3. QED
  BY <1>1, <1>2, CacheInvCorrect, PTL DEF CacheSpec, View!ViewSpec
=============================================================================
