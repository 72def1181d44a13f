---------------------------- MODULE BuildsProofs ----------------------------
(***************************************************************************)
(* Proofs about Builds for any builds, requests and bounds, and for        *)
(* whatever ObjectCache lets the cache show.                               *)
(***************************************************************************)
EXTENDS Builds, FiniteSetTheorems, WellFoundedInduction, TLAPS

LOCAL INSTANCE FiniteSetsExt

ReqType == [pc : {"idle", "check", "commit", "draft", "create", "patch"},
            op : {"no", "get", "start", "cancel"},
            b : Objects \cup {0}, todo : SUBSET Objects,
            upd : [Objects -> {"no", "succeeded", "failed"}]]
RowType == {"none", "in_progress", "succeeded", "failed", "cancelled"}
PhaseType == {"running", "stopping", "succeeded", "failed"}
HistType == [overlapped : BOOLEAN, late : BOOLEAN, busy : BOOLEAN,
             early : SUBSET Objects]

Unused == {b \in Objects : row[b] = "none"}
HasSucceeded(b) == \E v \in 1 .. Len(phases[b]) : phases[b][v] = "succeeded"

-----------------------------------------------------------------------------
(* The invariant, in parts.                                                *)

(* What a request has in hand: builds that have a row.                     *)
RequestSane(r) ==
    /\ r.pc = "check" => r.todo # {}
    /\ r.pc = "commit" => r.todo = {}
    /\ r.op # "no" <=> r.pc \in {"check", "commit"}
    /\ r.op = "cancel" => \A b \in Objects : r.upd[b] = "no"
    /\ r.op = "cancel" \/ r.pc \in {"draft", "create", "patch"}
          => r.b \in Objects /\ row[r.b] # "none"
    /\ \A b \in Objects : b \in r.todo \/ r.upd[b] # "no" => row[b] # "none"

RequestsSane == \A q \in Requests : RequestSane(req[q])

CacheGenuine ==
    \A b \in Objects :
       \/ cache[b] = NoEntry
       \/ cache[b] = Draft
       \/ \E v \in 1 .. k8s[b].ver : cache[b] = Real(v)

(* There is a row left for every start that is under way.                  *)
RoomForStarts == Cardinality(Starting) <= Cardinality(Unused)

FoundIsReal ==
    \A q \in Requests, b \in Objects : req[q].upd[b] = "succeeded" => HasSucceeded(b)

(* Builds are numbered as they are created.                                *)
InOrder ==
    \A b, c \in Objects : row[b] # "none" /\ row[c] = "none" => b < c

(* Without overlapping starts the one start under way has or will have     *)
(* settled every build in progress, and the build in progress is the last. *)
StartsSettle ==
    ~hist.overlapped =>
       /\ \A p, q \in Starting : p = q
       /\ \A q \in Starting : \A b \in InProgress :
             b \in req[q].todo \/ req[q].upd[b] # "no"
       /\ \A b \in InProgress : \A c \in Objects : row[c] # "none" => c <= b

ImageIsQuiet ==
    env.source = "image" /\ ~hist.busy =>
       InProgress = {} /\ Starting = {} /\ Refreshing = {}

(* A BuildRun is created once, and not before its row is there.            *)
CreatesOnce ==
    /\ \A q \in Requests :
          req[q].pc \in {"draft", "create"} => phases[req[q].b] = <<>>
    /\ \A p, q \in Requests :
          /\ req[p].pc \in {"draft", "create"}
          /\ req[q].pc \in {"draft", "create"}
          /\ req[p].b = req[q].b
          => p = q
    /\ \A b \in Objects : row[b] = "none" => phases[b] = <<>>
    /\ \A b \in Objects : k8s[b].live => phases[b] # <<>>

CancelledEarly ==
    \A b \in Objects : row[b] = "cancelled" /\ phases[b] = <<>> => b \in hist.early

BuildsInv ==
    /\ TypeOK
    /\ RequestsSane
    /\ CacheGenuine
    /\ RoomForStarts
    /\ FoundIsReal
    /\ InOrder
    /\ StartsSettle
    /\ ImageIsQuiet
    /\ CreatesOnce
    /\ CancelledEarly
    /\ SucceededIsReal
    /\ ImageFromNewest
    /\ UserImageKept
    /\ CancelStops

-----------------------------------------------------------------------------
(* Least and greatest builds.                                              *)

Less == {p \in Nat \X Nat : p[1] < p[2]}

LEMMA LessWellFounded == IsWellFoundedOn(Less, Nat)
<1>1. IsWellFoundedOn(OpToRel(<, Nat), Nat)
  BY NatLessThanWellFounded
<1>2. QED
  BY <1>1, Zenon DEF OpToRel, Less

LEMMA Least ==
  ASSUME NEW S \in SUBSET Nat, S # {}
  PROVE  \E m \in S : \A x \in S : m <= x
<1>1. PICK m \in S : \A x \in S : <<x, m>> \notin Less
  BY LessWellFounded, WFMin
<1>2. ASSUME NEW x \in S PROVE m <= x
  <2>1. x \in Nat /\ m \in Nat /\ <<x, m>> \notin Less
    BY <1>1
  <2>2. ~(x < m)
    BY <2>1 DEF Less
  <2>3. QED
    BY <2>1, <2>2
<1>3. QED
  BY <1>2

LEMMA MinIsLeast ==
  ASSUME NEW S \in SUBSET Nat, S # {}
  PROVE  Min(S) \in S /\ \A x \in S : Min(S) <= x
BY Least DEF Min

(* Fewest members above it: none.                                          *)
LEMMA MaxIsMember ==
  ASSUME NEW S \in SUBSET Nat, S # {}, IsFiniteSet(S) PROVE Max(S) \in S
<1> DEFINE Above(y) == {x \in S : x > y}
           T == {Cardinality(Above(y)) : y \in S}
<1>1. ASSUME NEW y \in S
      PROVE  IsFiniteSet(Above(y)) /\ Cardinality(Above(y)) \in Nat
  BY FS_Subset, FS_CardinalityType
<1>2. T \in SUBSET Nat /\ T # {}
  BY <1>1
<1>3. PICK d \in T : \A y \in T : d <= y
  BY <1>2, Least
<1>4. PICK m \in S : d = Cardinality(Above(m))
  OBVIOUS
<1>5. ASSUME NEW x \in S PROVE m >= x
  <2>0. x \in Nat /\ m \in Nat
    OBVIOUS
  <2>1. SUFFICES ASSUME x > m PROVE FALSE
    BY <2>0
  <2>2. Above(x) \subseteq Above(m) /\ x \in Above(m) /\ x \notin Above(x)
    <3>1. \A z \in S : z \in Nat
      OBVIOUS
    <3>2. \A z \in S : z > x => z > m
      BY <2>0, <2>1, <3>1
    <3>3. ~(x > x)
      BY <2>0
    <3>4. QED
      BY <2>1, <3>2, <3>3
  <2> HIDE DEF Above
  <2>3. /\ Cardinality(Above(x)) <= Cardinality(Above(m))
        /\ Cardinality(Above(x)) # Cardinality(Above(m))
    BY <1>1, <2>2, FS_Subset
  <2>4. Cardinality(Above(m)) <= Cardinality(Above(x))
    BY <1>3, <1>4
  <2>5. QED
    BY <1>1, <2>3, <2>4
<1>6. QED
  BY <1>5 DEF Max

-----------------------------------------------------------------------------
(* Types in the form in which the steps need them.                         *)

LEMMA Shapes ==
  ASSUME TypeOK
  PROVE  /\ k8s \in [Objects -> Objs] /\ cache \in [Objects -> Entry]
         /\ phases \in [Objects -> Seq(PhaseType)]
         /\ row \in [Objects -> RowType]
         /\ req \in [Requests -> ReqType]
         /\ hist \in HistType
         /\ env \in [source : {"build", "image"}, image : Objects \cup {0}]
         /\ cancels \in Nat /\ faults \in Nat
         /\ \A b \in Objects : Len(phases[b]) = k8s[b].ver
         /\ Objects \subseteq Nat \ {0}
BY BuildsAssumption DEF TypeOK, PhaseType, RowType, ReqType, HistType

LEMMA TypesKept ==
  ASSUME k8s' \in [Objects -> Objs], cache' \in [Objects -> Entry],
         phases' \in [Objects -> Seq(PhaseType)],
         row' \in [Objects -> RowType], req' \in [Requests -> ReqType],
         hist' \in HistType,
         env' \in [source : {"build", "image"}, image : Objects \cup {0}],
         cancels' \in Nat, faults' \in Nat,
         \A b \in Objects : Len(phases'[b]) = k8s'[b].ver
  PROVE  TypeOK'
BY DEF TypeOK, PhaseType, RowType, ReqType, HistType

LEMMA Finite ==
  /\ \A S \in SUBSET Objects : IsFiniteSet(S) /\ Cardinality(S) \in Nat
  /\ \A S \in SUBSET Requests : IsFiniteSet(S) /\ Cardinality(S) \in Nat
BY BuildsAssumption, FS_Subset, FS_CardinalityType

LEMMA IdleType ==
  /\ Idle \in ReqType
  /\ Idle.pc = "idle" /\ Idle.op = "no" /\ Idle.todo = {}
  /\ \A b \in Objects : Idle.upd[b] = "no"
BY DEF Idle, NoUpdate, ReqType

LEMMA BuildsInvInit == Init => BuildsInv
<1> SUFFICES ASSUME Init PROVE BuildsInv
  OBVIOUS
<1>1. /\ \A b \in Objects : /\ k8s[b] = [live |-> FALSE, ver |-> 0]
                            /\ cache[b] = NoEntry /\ phases[b] = <<>>
                            /\ row[b] = "none"
      /\ \A q \in Requests : req[q] = Idle
      /\ env = [source |-> "build", image |-> 0]
      /\ InProgress = {} /\ Starting = {}
  BY IdleType DEF Init, ViewInit, InProgress, Starting
<1>2. TypeOK
  <2>1. k8s \in [Objects -> Objs] /\ cache \in [Objects -> Entry]
    BY DEF Init, ViewInit, Objs, NoEntry, Entry
  <2>2. req \in [Requests -> ReqType]
    BY IdleType DEF Init
  <2>3. \A b \in Objects : Len(phases[b]) = k8s[b].ver
    BY <1>1
  <2>4. phases \in [Objects -> Seq(PhaseType)]
    BY DEF Init
  <2>5. QED
    BY <2>1, <2>2, <2>3, <2>4 DEF Init, TypeOK, ReqType, PhaseType
<1>3. RequestsSane /\ FoundIsReal /\ CreatesOnce
  BY <1>1, IdleType DEF RequestsSane, RequestSane, FoundIsReal, CreatesOnce
<1>4. CacheGenuine /\ InOrder /\ StartsSettle /\ ImageIsQuiet /\ CancelledEarly
  BY <1>1 DEF CacheGenuine, InOrder, StartsSettle, ImageIsQuiet, CancelledEarly
<1>5. RoomForStarts
  <2>1. Cardinality(Starting) = 0
    BY <1>1, FS_EmptySet
  <2>2. Cardinality(Unused) \in Nat
    BY Finite DEF Unused
  <2>3. QED
    BY <2>1, <2>2 DEF RoomForStarts
<1>6. SucceededIsReal /\ ImageFromNewest /\ UserImageKept /\ CancelStops
  BY <1>1, BuildsAssumption DEF SucceededIsReal, ImageFromNewest, UserImageKept, CancelStops
<1>7. QED
  BY <1>2, <1>3, <1>4, <1>5, <1>6 DEF BuildsInv

-----------------------------------------------------------------------------
(* Steps of one request, which leave the rows and the BuildRuns alone.     *)

LEMMA OneRequest ==
  ASSUME BuildsInv, NEW q \in Requests, NEW x \in ReqType,
         req' = [req EXCEPT ![q] = x], UNCHANGED <<k8s, phases, row, env>>,
         cache' \in [Objects -> Entry], CacheGenuine',
         hist' \in HistType, hist.overlapped => hist'.overlapped,
         hist'.late = hist.late, hist'.busy = hist.busy,
         hist'.early = hist.early,
         cancels' \in Nat, faults' \in Nat, faults > 0 => faults' > 0,
         RequestSane(x),
         \A b \in Objects : x.upd[b] = "succeeded" => HasSucceeded(b),
         x.pc \in {"draft", "create"}
            => req[q].pc \in {"draft", "create"} /\ x.b = req[q].b,
         CancelStops' \/ req[q].pc # "patch" \/ faults' > 0,
         RoomForStarts', StartsSettle', ImageIsQuiet'
  PROVE  BuildsInv'
<1> USE DEF BuildsInv
<1>1. /\ req'[q] = x
      /\ \A p \in Requests \ {q} : req'[p] = req[p]
      /\ req' \in [Requests -> ReqType]
  BY Shapes
<1>2. TypeOK'
  BY <1>1, Shapes, TypesKept
<1>3. RequestsSane'
  <2>1. \A p \in Requests : RequestSane(req'[p])
    BY <1>1 DEF RequestsSane
  <2>2. QED
    BY <2>1 DEF RequestsSane, RequestSane
<1>4. FoundIsReal'
  BY <1>1 DEF FoundIsReal, HasSucceeded
<1>5. InOrder' /\ CancelledEarly' /\ SucceededIsReal' /\ UserImageKept'
  BY DEF InOrder, CancelledEarly, SucceededIsReal, UserImageKept
<1>6. ImageFromNewest'
  BY DEF ImageFromNewest
<1>7. CreatesOnce'
  BY <1>1 DEF CreatesOnce
<1>8. CancelStops'
  <2>1. CASE faults' > 0
    BY <2>1 DEF CancelStops
  <2>2. CASE req[q].pc # "patch"
    BY <1>1, <2>2 DEF CancelStops, Phase
  <2>3. QED
    BY <2>1, <2>2
<1>9. QED
  BY <1>2, <1>3, <1>4, <1>5, <1>6, <1>7, <1>8

LEMMA FewerStarts ==
  ASSUME BuildsInv, TypeOK', env'.source = env.source,
         \A b \in Objects : /\ row'[b] = "none" <=> row[b] = "none"
                            /\ row'[b] = "in_progress" => row[b] = "in_progress",
         hist'.overlapped = hist.overlapped, hist'.busy = hist.busy,
         \A p \in Requests :
            req'[p].op = "get" => req[p].op = "get" \/ InProgress # {},
         \A p \in Requests :
            \/ req'[p] = req[p]
            \/ req'[p].op # "start"
            \/ req'[p].pc \notin {"check", "commit"}
            \/ /\ p \in Starting
               /\ \A b \in req[p].todo :
                     b \in req'[p].todo \/ req'[p].upd[b] # "no"
               /\ \A b \in Objects : req[p].upd[b] # "no"
                     => req'[p].upd[b] # "no"
  PROVE  RoomForStarts' /\ StartsSettle' /\ ImageIsQuiet'
<1> USE DEF BuildsInv
<1>1. Starting' \subseteq Starting /\ InProgress' \subseteq InProgress /\ Unused' = Unused
  BY DEF Starting, InProgress, Unused
<1>2. RoomForStarts'
  <2>1. IsFiniteSet(Starting) /\ Cardinality(Starting) \in Nat
    BY Finite DEF Starting
  <2>2. Starting' \in SUBSET Starting
    BY <1>1
  <2>3. Cardinality(Starting') <= Cardinality(Starting)
    BY <2>1, <2>2, FS_Subset
  <2>4. Cardinality(Starting') \in Nat
    BY <2>1, <2>2, FS_Subset, FS_CardinalityType
  <2>5. Cardinality(Unused) \in Nat
    BY Finite DEF Unused
  <2>6. QED
    BY <1>1, <2>1, <2>3, <2>4, <2>5 DEF RoomForStarts
<1>3. StartsSettle'
  <2>1. ASSUME ~hist.overlapped, NEW p \in Starting', NEW b \in InProgress
        PROVE  b \in req'[p].todo \/ req'[p].upd[b] # "no"
    <3>1. p \in Starting /\ b \in Objects /\ p \in Requests
      BY <1>1 DEF InProgress, Starting
    <3>2. b \in req[p].todo \/ req[p].upd[b] # "no"
      BY <2>1, <3>1 DEF StartsSettle
    <3>3. req'[p].op = "start" /\ req'[p].pc \in {"check", "commit"}
      BY <2>1 DEF Starting
    <3>4. QED
      BY <3>1, <3>2, <3>3
  <2>2. ASSUME ~hist.overlapped
        PROVE  \A b \in InProgress' : \A c \in Objects : row'[c] # "none" => c <= b
    BY <1>1, <2>2 DEF StartsSettle
  <2>3. QED
    BY <1>1, <2>1, <2>2 DEF StartsSettle
<1>4. ImageIsQuiet'
  BY <1>1 DEF ImageIsQuiet, Refreshing
<1>5. QED
  BY <1>2, <1>3, <1>4

LEMMA IdleIsSane == RequestSane(Idle)
BY IdleType DEF RequestSane

(* The cache shows a manifest that b had, a draft or nothing.              *)
LEMMA CacheShows ==
  ASSUME BuildsInv, UNCHANGED k8s,
         \/ UNCHANGED cache
         \/ \E b \in Objects : ShowNothing(b) \/ ShowDraft(b) \/ ShowVersion(b)
  PROVE  cache' \in [Objects -> Entry] /\ CacheGenuine'
<1>1. CASE UNCHANGED cache
  BY <1>1, Shapes DEF BuildsInv, CacheGenuine
<1>2. ASSUME NEW b \in Objects,
             ShowNothing(b) \/ ShowDraft(b) \/ ShowVersion(b)
      PROVE  cache' \in [Objects -> Entry] /\ CacheGenuine'
  <2>1. PICK e \in Entry :
           /\ cache' = [cache EXCEPT ![b] = e]
           /\ \/ e = NoEntry
              \/ e = Draft
              \/ \E v \in 1 .. k8s[b].ver : e = Real(v)
    <3>1. NoEntry \in Entry /\ Draft \in Entry /\ \A v \in Nat : Real(v) \in Entry
      BY DEF NoEntry, Draft, Real, Entry
    <3>2. k8s[b].ver \in Nat
      BY Shapes DEF BuildsInv, Objs
    <3>3. \A v \in 1 .. k8s[b].ver : v \in Nat
      BY <3>2
    <3>4. QED
      BY <1>2, <3>1, <3>3 DEF ShowNothing, ShowDraft, ShowVersion, Shows
  <2>2. cache' \in [Objects -> Entry]
    BY <2>1, Shapes DEF BuildsInv
  <2>3. CacheGenuine'
    BY <2>1, Shapes DEF BuildsInv, CacheGenuine
  <2>4. QED
    BY <2>2, <2>3
<1>3. QED
  BY <1>1, <1>2

(* A request that ends.                                                    *)
LEMMA EndsInv ==
  ASSUME BuildsInv, NEW q \in Requests, req' = [req EXCEPT ![q] = Idle],
         UNCHANGED <<k8s, phases, row, env, hist, cancels>>,
         cache' \in [Objects -> Entry], CacheGenuine',
         faults' \in Nat, faults > 0 => faults' > 0,
         CancelStops' \/ req[q].pc # "patch" \/ faults' > 0
  PROVE  BuildsInv'
<1>1. /\ req'[q] = Idle
      /\ \A p \in Requests \ {q} : req'[p] = req[p]
      /\ req' \in [Requests -> ReqType]
  BY Shapes, IdleType DEF BuildsInv
<1>2. TypeOK'
  BY <1>1, Shapes, TypesKept DEF BuildsInv
<1>3. RoomForStarts' /\ StartsSettle' /\ ImageIsQuiet'
  BY <1>1, <1>2, IdleType, FewerStarts
<1>4. QED
  BY <1>3, Shapes, IdleType, IdleIsSane, OneRequest DEF BuildsInv

LEMMA FailInv ==
  ASSUME BuildsInv, NEW q \in Requests, Fail(q) PROVE BuildsInv'
<1>1. faults' \in Nat /\ faults' > 0
  BY Shapes DEF BuildsInv, Fail
<1>2. cache' \in [Objects -> Entry] /\ CacheGenuine'
  BY CacheShows DEF Fail, clusterVars
<1>3. QED
  BY <1>1, <1>2, EndsInv DEF Fail, clusterVars

(* What a request has after it has read its rows.                          *)
LEMMA LooksFacts ==
  ASSUME BuildsInv, NEW q \in Requests, NEW op \in {"get", "start", "cancel"},
         NEW b \in Objects \cup {0}, NEW T \in SUBSET InProgress,
         op = "cancel" => b \in Objects /\ row[b] # "none",
         Looks(q, op, b, T)
  PROVE  /\ req[q] = Idle
         /\ \E x \in ReqType :
              /\ req' = [req EXCEPT ![q] = x]
              /\ x.pc \in {"check", "commit"}
              /\ x.op = op /\ x.b = b /\ x.todo = T
              /\ \A c \in Objects : x.upd[c] = "no"
              /\ RequestSane(x)
<1> DEFINE pc == IF T = {} THEN "commit" ELSE "check"
           x == [Idle EXCEPT !.op = op, !.b = b, !.todo = T, !.pc = pc]
<1>1. T \in SUBSET Objects /\ pc \in {"check", "commit"}
  BY DEF InProgress
<1> HIDE DEF pc
<1>2. x = [Idle EXCEPT !.op = op, !.b = b, !.todo = T, !.pc = pc]
  OBVIOUS
<1>3. req[q] = Idle /\ req' = [req EXCEPT ![q] = x]
  BY DEF Looks, pc
<1> HIDE DEF x
<1>4. /\ x \in ReqType
      /\ x.pc = pc /\ x.op = op /\ x.b = b /\ x.todo = T /\ x.upd = Idle.upd
  BY <1>1, <1>2, IdleType DEF ReqType
<1>5. RequestSane(x)
  BY <1>1, <1>4, IdleType DEF RequestSane, pc, InProgress
<1>6. QED
  BY <1>1, <1>3, <1>4, <1>5, IdleType

(* LookGet and LookCancel.                                                 *)
LEMMA LooksInv ==
  ASSUME BuildsInv, NEW q \in Requests, NEW op \in {"get", "cancel"},
         NEW b \in Objects \cup {0}, NEW T \in SUBSET InProgress,
         op = "cancel" => b \in Objects /\ row[b] # "none",
         op = "get" => T # {},
         Looks(q, op, b, T), cancels' \in Nat,
         UNCHANGED <<k8s, cache, phases, row, env, faults, hist>>
  PROVE  BuildsInv'
<1>1. req[q] = Idle
  BY LooksFacts
<1>2. PICK x \in ReqType :
         /\ req' = [req EXCEPT ![q] = x]
         /\ x.pc \in {"check", "commit"}
         /\ x.op = op
         /\ \A c \in Objects : x.upd[c] = "no"
         /\ RequestSane(x)
  BY LooksFacts
<1>3. /\ req'[q] = x
      /\ \A p \in Requests \ {q} : req'[p] = req[p]
      /\ req' \in [Requests -> ReqType]
  BY <1>2, Shapes DEF BuildsInv
<1>4. TypeOK'
  BY <1>3, Shapes, TypesKept DEF BuildsInv
<1>5. RoomForStarts' /\ StartsSettle' /\ ImageIsQuiet'
  BY <1>2, <1>3, <1>4, FewerStarts
<1>6. CacheGenuine'
  BY DEF BuildsInv, CacheGenuine
<1>7. QED
  BY <1>1, <1>2, <1>5, <1>6, Shapes, IdleType, OneRequest DEF BuildsInv

LEMMA LookGetInv ==
  ASSUME BuildsInv, NEW q \in Requests, LookGet(q) PROVE BuildsInv'
<1>1. PICK T \in {InProgress} \cup {{b} : b \in InProgress} :
         T # {} /\ Looks(q, "get", 0, T)
  BY DEF LookGet
<1>2. T \in SUBSET InProgress
  OBVIOUS
<1>3. QED
  BY <1>1, <1>2, Shapes, LooksInv DEF LookGet, clusterVars, BuildsInv

LEMMA LookCancelInv ==
  ASSUME BuildsInv, NEW q \in Requests, NEW b \in Objects, LookCancel(q, b)
  PROVE  BuildsInv'
<1>1. {b} \cap InProgress \in SUBSET InProgress /\ row[b] # "none"
  BY DEF LookCancel
<1>2. cancels' \in Nat
  BY Shapes DEF LookCancel, BuildsInv
<1>3. QED
  BY <1>1, <1>2, LooksInv DEF LookCancel, clusterVars

LEMMA LookStartInv ==
  ASSUME BuildsInv, NEW q \in Requests, LookStart(q) PROVE BuildsInv'
<1> USE DEF BuildsInv
<1>1. Looks(q, "start", 0, InProgress)
  BY DEF LookStart
<1>2. req[q] = Idle
  BY <1>1, LooksFacts
<1>3. PICK x \in ReqType :
         /\ req' = [req EXCEPT ![q] = x]
         /\ x.pc \in {"check", "commit"}
         /\ x.op = "start" /\ x.todo = InProgress
         /\ \A c \in Objects : x.upd[c] = "no"
         /\ RequestSane(x)
  BY <1>1, LooksFacts
<1>4. /\ req'[q] = x
      /\ \A p \in Requests \ {q} : req'[p] = req[p]
      /\ req' \in [Requests -> ReqType]
  BY <1>3, Shapes
<1>5. /\ UNCHANGED <<k8s, cache, phases, row, env, cancels, faults>>
      /\ env.source = "build"
  BY DEF LookStart, clusterVars
<1>6. /\ hist' \in HistType
      /\ hist'.overlapped = (hist.overlapped \/ Starting # {})
      /\ hist'.late = hist.late /\ hist'.busy = hist.busy
      /\ hist'.early = hist.early
  <2>1. hist' = [hist EXCEPT !.overlapped = hist.overlapped \/ Starting # {}]
    BY DEF LookStart
  <2>2. (hist.overlapped \/ Starting # {}) \in BOOLEAN
    OBVIOUS
  <2>3. QED
    BY <2>1, <2>2, Shapes DEF HistType
<1>7. Starting' = Starting \cup {q} /\ q \notin Starting
  BY <1>2, <1>3, <1>4, IdleType DEF Starting
<1>8. RoomForStarts'
  <2>1. IsFiniteSet(Starting) /\ Cardinality(Starting) \in Nat
    BY Finite DEF Starting
  <2>2. Cardinality(Starting') = Cardinality(Starting) + 1
    BY <1>7, <2>1, FS_AddElement
  <2>3. Cardinality(Starting) < Cardinality(Unused)
    BY DEF LookStart, Unused
  <2>4. Unused' = Unused
    BY <1>5 DEF Unused
  <2>5. Cardinality(Unused) \in Nat
    BY Finite DEF Unused
  <2>6. QED
    BY <2>1, <2>2, <2>3, <2>4, <2>5 DEF RoomForStarts
<1>9. StartsSettle'
  <2>1. InProgress' = InProgress
    BY <1>5 DEF InProgress
  <2>2. ~hist'.overlapped => Starting' = {q} /\ ~hist.overlapped
    BY <1>6, <1>7
  <2>3. QED
    BY <1>3, <1>4, <1>5, <2>1, <2>2 DEF StartsSettle
<1>10. ImageIsQuiet'
  BY <1>5 DEF ImageIsQuiet
<1>11. CacheGenuine'
  BY <1>5 DEF CacheGenuine
<1>12. QED
  BY <1>2, <1>3, <1>5, <1>6, <1>8, <1>9, <1>10, <1>11, Shapes, IdleType, OneRequest

LEMMA OutcomeIsReal ==
  ASSUME BuildsInv, NEW b \in Objects
  PROVE  /\ Outcome(b) \in {"no", "succeeded", "failed"}
         /\ Outcome(b) = "succeeded" => HasSucceeded(b)
<1>1. CASE cache[b] = NoEntry
  BY <1>1 DEF Outcome
<1>2. CASE cache[b] = Draft
  BY <1>2 DEF Outcome, NoEntry, Draft
<1>3. CASE cache[b] # NoEntry /\ cache[b] # Draft
  <2>1. PICK v \in 1 .. k8s[b].ver : cache[b] = Real(v)
    BY <1>3 DEF BuildsInv, CacheGenuine
  <2>2. cache[b].ver = v /\ v \in 1 .. Len(phases[b])
    BY <2>1, Shapes DEF Real, BuildsInv
  <2>3. QED
    BY <1>3, <2>2 DEF Outcome, Completed, HasSucceeded
<1>4. QED
  BY <1>1, <1>2, <1>3

LEMMA CheckInv ==
  ASSUME BuildsInv, NEW q \in Requests, Check(q) PROVE BuildsInv'
<1> DEFINE r == req[q]
           b == Max(r.todo)
           out == Outcome(b)
           rest == r.todo \ {b}
           pc == IF rest = {} THEN "commit" ELSE "check"
           x == [r EXCEPT !.todo = rest, !.upd[b] = out, !.pc = pc]
<1>1. /\ r.pc = "check" /\ r \in ReqType /\ RequestSane(r)
      /\ \A c \in Objects : r.upd[c] = "succeeded" => HasSucceeded(c)
  BY Shapes DEF Check, BuildsInv, RequestsSane, FoundIsReal
<1>2. r.todo \in SUBSET Objects /\ r.todo # {}
  BY <1>1 DEF ReqType, RequestSane
<1>3. b \in r.todo /\ b \in Objects
  <2>1. r.todo \in SUBSET Nat /\ IsFiniteSet(r.todo)
    BY <1>2, Finite, BuildsAssumption
  <2>2. Max(r.todo) \in r.todo
    BY <1>2, <2>1, MaxIsMember
  <2>3. QED
    BY <1>2, <2>2
<1>4. out \in {"no", "succeeded", "failed"} /\ (out = "succeeded" => HasSucceeded(b))
  BY <1>3, OutcomeIsReal
<1>5. UNCHANGED <<k8s, cache, phases, row, env, cancels, faults, hist>>
  BY DEF Check, clusterVars
<1>6. CASE \/ r.op = "start" /\ out = "no"
           \/ r.op = "cancel" /\ out # "no"
  <2>1. req' = [req EXCEPT ![q] = Idle]
    BY <1>6 DEF Check
  <2>2. cache' \in [Objects -> Entry] /\ CacheGenuine'
    BY <1>5, CacheShows
  <2>3. QED
    BY <1>1, <1>5, <2>1, <2>2, Shapes, EndsInv DEF BuildsInv
<1>7. CASE ~ \/ r.op = "start" /\ out = "no"
             \/ r.op = "cancel" /\ out # "no"
  <2>1. req' = [req EXCEPT ![q] = x]
    BY <1>7 DEF Check
  <2>2. rest \in SUBSET Objects /\ pc \in {"check", "commit"}
    BY <1>2
  <2>3. x = [r EXCEPT !.todo = rest, !.upd[b] = out, !.pc = pc]
    OBVIOUS
  <2>4. /\ r.todo = rest \cup {b}
        /\ rest = {} <=> pc = "commit"
    BY <1>3
  <2> HIDE DEF x, rest, pc, b, out, r
  <2>5. /\ x \in ReqType
        /\ x.pc = pc /\ x.op = r.op /\ x.b = r.b /\ x.todo = rest
        /\ x.upd[b] = out
        /\ \A c \in Objects \ {b} : x.upd[c] = r.upd[c]
    <3> DEFINE u == [r.upd EXCEPT ![b] = out]
    <3>1. /\ u \in [Objects -> {"no", "succeeded", "failed"}]
          /\ u[b] = out
          /\ \A c \in Objects \ {b} : u[c] = r.upd[c]
      BY <1>1, <1>3, <1>4 DEF ReqType
    <3>2. x = [r EXCEPT !.todo = rest, !.upd = u, !.pc = pc]
      BY <2>3
    <3> HIDE DEF u
    <3>3. /\ x \in ReqType
          /\ x.pc = pc /\ x.op = r.op /\ x.b = r.b /\ x.todo = rest /\ x.upd = u
      BY <1>1, <2>2, <3>1, <3>2 DEF ReqType
    <3>4. QED
      BY <3>1, <3>3
  <2>6. RequestSane(x)
    <3>1. r.op = "cancel" => out = "no"
      BY <1>7
    <3>2. row[b] # "none"
      BY <1>1, <1>3 DEF RequestSane
    <3>3. \A c \in Objects : c \in x.todo \/ x.upd[c] # "no" => row[c] # "none"
      BY <1>1, <2>4, <2>5, <3>2 DEF RequestSane
    <3>4. x.op = "cancel" => \A c \in Objects : x.upd[c] = "no"
      BY <1>1, <2>5, <3>1 DEF RequestSane
    <3>5. QED
      BY <1>1, <2>2, <2>4, <2>5, <3>3, <3>4 DEF RequestSane
  <2>7. \A c \in Objects : x.upd[c] = "succeeded" => HasSucceeded(c)
    BY <1>1, <1>4, <2>5
  <2>8. /\ req'[q] = x
        /\ \A p \in Requests \ {q} : req'[p] = req[p]
        /\ req' \in [Requests -> ReqType]
    BY <2>1, <2>5, Shapes DEF BuildsInv
  <2>9. TypeOK'
    BY <1>5, <2>8, Shapes, TypesKept DEF BuildsInv
  <2>10. \/ x.op # "start"
         \/ /\ q \in Starting
            /\ \A c \in req[q].todo : c \in x.todo \/ x.upd[c] # "no"
            /\ \A c \in Objects : req[q].upd[c] # "no" => x.upd[c] # "no"
    <3>1. SUFFICES ASSUME x.op = "start" 
                   PROVE  /\ q \in Starting
                          /\ \A c \in req[q].todo : c \in x.todo \/ x.upd[c] # "no"
                          /\ \A c \in Objects : req[q].upd[c] # "no"
                                => x.upd[c] # "no"
      OBVIOUS
    <3>2. out # "no" /\ r.op = "start"
      BY <1>7, <2>5, <3>1
    <3>3. q \in Starting
      BY <1>1, <3>2 DEF Starting, r
    <3>4. QED
      BY <2>4, <2>5, <3>2, <3>3 DEF r
  <2>11. RoomForStarts' /\ StartsSettle' /\ ImageIsQuiet'
    <3>1. x.op = "get" => req[q].op = "get"
      BY <2>5 DEF r
    <3>2. QED
      BY <1>5, <2>8, <2>9, <2>10, <3>1, FewerStarts
  <2>12. CacheGenuine'
    BY <1>5 DEF BuildsInv, CacheGenuine
  <2>13. req[q].pc = "check" /\ x.pc \notin {"draft", "create"}
    BY <1>1, <2>2, <2>5 DEF r
  <2>14. QED
    BY <1>5, <2>1, <2>5, <2>6, <2>7, <2>11, <2>12, <2>13, Shapes, OneRequest DEF BuildsInv
<1>8. QED
  BY <1>6, <1>7

LEMMA CacheMovesInv ==
  ASSUME BuildsInv, NEW b \in Objects, CacheMoves(b) PROVE BuildsInv'
<1>1. UNCHANGED <<k8s, phases, row, env, req, cancels, faults, hist>>
  BY DEF CacheMoves, ShowNothing, ShowVersion, Shows
<1>2. cache' \in [Objects -> Entry] /\ CacheGenuine'
  BY <1>1, CacheShows DEF CacheMoves
<1>3. TypeOK'
  BY <1>1, <1>2, Shapes, TypesKept DEF BuildsInv
<1>4. /\ RequestsSane' /\ RoomForStarts' /\ FoundIsReal' /\ InOrder'
      /\ StartsSettle' /\ ImageIsQuiet' /\ CreatesOnce' /\ CancelledEarly'
  BY <1>1 DEF BuildsInv, RequestsSane, RequestSane, RoomForStarts, Starting,
              Unused, FoundIsReal, HasSucceeded, InOrder, StartsSettle,
              InProgress, Refreshing, ImageIsQuiet, CreatesOnce, CancelledEarly
<1>5. SucceededIsReal' /\ ImageFromNewest' /\ UserImageKept' /\ CancelStops'
  BY <1>1 DEF BuildsInv, SucceededIsReal, ImageFromNewest, UserImageKept,
              CancelStops, Phase
<1>6. QED
  BY <1>2, <1>3, <1>4, <1>5 DEF BuildsInv

LEMMA DraftRunInv ==
  ASSUME BuildsInv, NEW q \in Requests, DraftRun(q) PROVE BuildsInv'
<1> DEFINE r == req[q]
           x == [r EXCEPT !.pc = "create"]
<1>1. /\ r.pc = "draft" /\ r \in ReqType /\ RequestSane(r)
      /\ \A c \in Objects : r.upd[c] = "succeeded" => HasSucceeded(c)
  BY Shapes DEF DraftRun, BuildsInv, RequestsSane, FoundIsReal
<1>2. /\ r.b \in Objects /\ r.op = "no"
      /\ UNCHANGED <<k8s, phases, row, env, cancels, faults, hist>>
      /\ req' = [req EXCEPT ![q] = x]
  BY <1>1 DEF DraftRun, ShowDraft, Shows, RequestSane, ReqType
<1>3. cache' \in [Objects -> Entry] /\ CacheGenuine'
  BY <1>2, CacheShows DEF DraftRun
<1>4. /\ x \in ReqType
      /\ x.pc = "create" /\ x.op = r.op /\ x.b = r.b /\ x.todo = r.todo
      /\ x.upd = r.upd
  BY <1>1 DEF ReqType
<1> HIDE DEF x
<1>5. RequestSane(x)
  BY <1>1, <1>2, <1>4 DEF RequestSane
<1>6. /\ req'[q] = x
      /\ \A p \in Requests \ {q} : req'[p] = req[p]
      /\ req' \in [Requests -> ReqType]
  BY <1>2, <1>4, Shapes DEF BuildsInv
<1>7. TypeOK'
  BY <1>2, <1>3, <1>6, Shapes, TypesKept DEF BuildsInv
<1>8. RoomForStarts' /\ StartsSettle' /\ ImageIsQuiet'
  BY <1>2, <1>4, <1>6, <1>7, FewerStarts
<1>9. QED
  BY <1>1, <1>2, <1>3, <1>4, <1>5, <1>8, Shapes, OneRequest DEF BuildsInv

-----------------------------------------------------------------------------
(* Steps in the cluster.                                                   *)

LEMMA Grows ==
  ASSUME BuildsInv, NEW b \in Objects, NEW phase \in PhaseType, Becomes(b, phase)
  PROVE  /\ k8s' \in [Objects -> Objs] /\ phases' \in [Objects -> Seq(PhaseType)]
         /\ \A c \in Objects : Len(phases'[c]) = k8s'[c].ver
         /\ \A c \in Objects \ {b} : phases'[c] = phases[c] /\ k8s'[c] = k8s[c]
         /\ phases'[b] # <<>>
         /\ Phase(b)' = phase
         /\ cache' = cache
         /\ CacheGenuine'
         /\ \A c \in Objects : HasSucceeded(c) =>
              \E v \in 1 .. Len(phases'[c]) : phases'[c][v] = "succeeded"
<1>1. /\ k8s' = [k8s EXCEPT ![b] = [live |-> TRUE, ver |-> k8s[b].ver + 1]]
      /\ phases' = [phases EXCEPT ![b] = Append(phases[b], phase)]
      /\ cache' = cache
  BY DEF Becomes, Change
<1>2. /\ k8s[b].ver \in Nat /\ phases[b] \in Seq(PhaseType)
      /\ Len(phases[b]) = k8s[b].ver
  BY Shapes DEF BuildsInv, Objs
<1>3. [live |-> TRUE, ver |-> k8s[b].ver + 1] \in Objs
  BY <1>2 DEF Objs
<1>4. /\ k8s' \in [Objects -> Objs]
      /\ k8s'[b].ver = k8s[b].ver + 1
      /\ \A c \in Objects \ {b} : k8s'[c] = k8s[c]
  BY <1>1, <1>3, Shapes DEF BuildsInv
<1> DEFINE s == Append(phases[b], phase)
<1>5. /\ s \in Seq(PhaseType) /\ Len(s) = Len(phases[b]) + 1
      /\ s[Len(s)] = phase
      /\ \A v \in 1 .. Len(phases[b]) : s[v] = phases[b][v]
  BY <1>2
<1> HIDE DEF s
<1>6. /\ phases' \in [Objects -> Seq(PhaseType)]
      /\ phases'[b] = s
      /\ \A c \in Objects \ {b} : phases'[c] = phases[c]
  BY <1>1, <1>5, Shapes DEF BuildsInv, s
<1>7. \A c \in Objects : Len(phases'[c]) = k8s'[c].ver
  BY <1>2, <1>4, <1>5, <1>6, Shapes DEF BuildsInv
<1>8. phases'[b] # <<>>
  BY <1>2, <1>5, <1>6
<1>9. Phase(b)' = phase
  BY <1>5, <1>6 DEF Phase
<1>10. CacheGenuine'
  <2>1. ASSUME NEW c \in Objects, NEW v \in 1 .. k8s[c].ver
        PROVE  v \in 1 .. k8s'[c].ver
    BY <1>2, <1>4
  <2>2. QED
    BY <1>1, <2>1 DEF BuildsInv, CacheGenuine
<1>11. ASSUME NEW c \in Objects, HasSucceeded(c)
       PROVE  \E v \in 1 .. Len(phases'[c]) : phases'[c][v] = "succeeded"
  <2>1. PICK v \in 1 .. Len(phases[c]) : phases[c][v] = "succeeded"
    BY <1>11 DEF HasSucceeded
  <2>2. CASE c = b
    <3>1. v \in 1 .. Len(s) /\ s[v] = "succeeded"
      BY <1>2, <1>5, <2>1, <2>2
    <3>2. QED
      BY <1>6, <2>2, <3>1
  <2>3. CASE c # b
    BY <1>6, <2>1, <2>3
  <2>4. QED
    BY <2>2, <2>3
<1>12. QED
  BY <1>1, <1>4, <1>6, <1>7, <1>8, <1>9, <1>10, <1>11

(* BuildRun b is created, told to stop or ends.                            *)
LEMMA RunChanges ==
  ASSUME BuildsInv, NEW b \in Objects, NEW phase \in PhaseType,
         Becomes(b, phase), row[b] # "none",
         UNCHANGED <<row, env, cancels, faults, hist>>,
         \/ UNCHANGED req
         \/ \E q \in Requests : req' = [req EXCEPT ![q] = Idle],
         \A p \in Requests : req'[p].pc \in {"draft", "create"} => req'[p].b # b,
         CancelStops'
  PROVE  BuildsInv'
<1> USE DEF BuildsInv
<1>1. /\ req' \in [Requests -> ReqType]
      /\ \A p \in Requests : req'[p] = req[p] \/ req'[p] = Idle
  BY Shapes, IdleType
<1>2. TypeOK' /\ CacheGenuine'
  BY <1>1, Grows, Shapes, TypesKept
<1>3. RoomForStarts' /\ StartsSettle' /\ ImageIsQuiet'
  BY <1>1, <1>2, IdleType, FewerStarts
<1>4. RequestsSane'
  <2>1. \A p \in Requests : RequestSane(req'[p])
    BY <1>1, IdleIsSane DEF RequestsSane
  <2>2. QED
    BY <2>1 DEF RequestsSane, RequestSane
<1>5. FoundIsReal'
  <2>1. ASSUME NEW p \in Requests, NEW c \in Objects, req'[p].upd[c] = "succeeded"
        PROVE  \E v \in 1 .. Len(phases'[c]) : phases'[c][v] = "succeeded"
    <3>1. req[p].upd[c] = "succeeded"
      BY <1>1, <2>1, IdleType
    <3>2. HasSucceeded(c)
      BY <3>1 DEF FoundIsReal
    <3>3. QED
      BY <3>2, Grows
  <2>2. QED
    BY <2>1 DEF FoundIsReal, HasSucceeded
<1>6. InOrder' /\ ImageFromNewest' /\ UserImageKept'
  BY DEF InOrder, ImageFromNewest, UserImageKept
<1>7. SucceededIsReal'
  <2>1. ASSUME NEW c \in Objects, row[c] = "succeeded" \/ env.image = c
        PROVE  \E v \in 1 .. Len(phases'[c]) : phases'[c][v] = "succeeded"
    BY <2>1, Grows DEF SucceededIsReal, HasSucceeded
  <2>2. QED
    BY <2>1 DEF SucceededIsReal
<1>8. /\ phases'[b] # <<>>
      /\ \A c \in Objects \ {b} : phases'[c] = phases[c] /\ k8s'[c] = k8s[c]
  BY Grows
<1>9. CreatesOnce'
  <2>1. \A p \in Requests : req'[p].pc \in {"draft", "create"}
           => req'[p] = req[p] /\ req[p].b \in Objects \ {b}
    BY <1>1, IdleType DEF RequestsSane, RequestSane
  <2>2. QED
    BY <1>8, <2>1 DEF CreatesOnce
<1>10. CancelledEarly'
  BY <1>8 DEF CancelledEarly
<1>11. QED
  BY <1>2, <1>3, <1>4, <1>5, <1>6, <1>7, <1>9, <1>10

LEMMA LiveHasRow ==
  ASSUME BuildsInv, NEW b \in Objects, k8s[b].live
  PROVE  /\ row[b] # "none"
         /\ \A p \in Requests : req[p].pc \in {"draft", "create"} => req[p].b # b
BY DEF BuildsInv, CreatesOnce

LEMMA ProgressInv ==
  ASSUME BuildsInv, NEW b \in Objects, Progress(b) PROVE BuildsInv'
<1>1. PICK phase \in Completed : Becomes(b, phase)
  BY DEF Progress
<1>2. phase \in PhaseType /\ phase # "running"
  BY DEF Completed, PhaseType
<1>3. k8s[b].live /\ UNCHANGED <<row, env, req, cancels, faults, hist>>
  BY DEF Progress
<1>4. CancelStops'
  <2>1. ASSUME NEW c \in Objects, row'[c] = "cancelled", k8s'[c].live, Phase(c)' = "running"
        PROVE  row[c] = "cancelled" /\ k8s[c].live /\ Phase(c) = "running"
    BY <1>1, <1>2, <1>3, <2>1, Grows DEF Phase
  <2>2. QED
    BY <1>3, <2>1 DEF BuildsInv, CancelStops, Phase
<1>5. QED
  BY <1>1, <1>2, <1>3, <1>4, LiveHasRow, RunChanges

LEMMA CreateRunInv ==
  ASSUME BuildsInv, NEW q \in Requests, CreateRun(q) PROVE BuildsInv'
<1>1. /\ req[q].pc = "create" /\ req' = [req EXCEPT ![q] = Idle]
      /\ UNCHANGED <<row, env, cancels, faults, hist>>
  BY DEF CreateRun
<1> PICK b \in Objects : b = req[q].b
  BY <1>1 DEF BuildsInv, RequestsSane, RequestSane
<1>2. /\ row[b] # "none" /\ phases[b] = <<>>
      /\ \A p \in Requests \ {q} : req[p].pc \in {"draft", "create"} => req[p].b # b
  BY <1>1 DEF BuildsInv, RequestsSane, RequestSane, CreatesOnce
<1>3. /\ req'[q] = Idle
      /\ \A p \in Requests \ {q} : req'[p] = req[p]
  BY <1>1, Shapes DEF BuildsInv
<1>4. CASE Becomes(b, "running")
  <2>1. "running" \in PhaseType
    BY DEF PhaseType
  <2>2. CancelStops'
    <3>1. ASSUME NEW c \in Objects, row'[c] = "cancelled", k8s'[c].live, Phase(c)' = "running"
          PROVE  \/ \E p \in Requests : req'[p].pc = "patch" /\ req'[p].b = c
                 \/ c \in hist'.early
                 \/ faults' > 0
      <4>1. CASE c = b
        BY <1>1, <1>2, <3>1, <4>1 DEF BuildsInv, CancelledEarly
      <4>2. CASE c # b
        <5>1. k8s[c].live /\ Phase(c) = "running" /\ row[c] = "cancelled"
          BY <1>1, <1>2, <1>4, <2>1, <3>1, <4>2, Grows DEF Phase
        <5>2. QED
          BY <1>1, <1>3, <5>1 DEF BuildsInv, CancelStops
      <4>3. QED
        BY <4>1, <4>2
    <3>2. QED
      BY <3>1 DEF CancelStops, Phase
  <2>3. \A p \in Requests : req'[p].pc \in {"draft", "create"} => req'[p].b # b
    BY <1>2, <1>3, IdleType
  <2>4. QED
    BY <1>1, <1>2, <1>4, <2>1, <2>2, <2>3, RunChanges
<1>5. CASE ShowNothing(b) /\ UNCHANGED phases
  <2>1. UNCHANGED k8s
    BY <1>5 DEF ShowNothing, Shows
  <2>2. cache' \in [Objects -> Entry] /\ CacheGenuine'
    BY <1>2, <1>5, <2>1, CacheShows
  <2>3. QED
    BY <1>1, <1>5, <2>1, <2>2, Shapes, EndsInv DEF BuildsInv
<1>6. QED
  BY <1>4, <1>5 DEF CreateRun

LEMMA PatchRunInv ==
  ASSUME BuildsInv, NEW q \in Requests, PatchRun(q) PROVE BuildsInv'
<1>1. /\ req[q].pc = "patch" /\ req' = [req EXCEPT ![q] = Idle]
      /\ UNCHANGED <<row, env, cancels, faults, hist>>
  BY DEF PatchRun
<1> PICK b \in Objects : b = req[q].b
  BY <1>1 DEF BuildsInv, RequestsSane, RequestSane
<1> PICK phase : phase = IF Phase(b) \in Completed THEN Phase(b) ELSE "stopping"
  OBVIOUS
<1>2. /\ req'[q] = Idle
      /\ \A p \in Requests \ {q} : req'[p] = req[p]
  BY <1>1, Shapes DEF BuildsInv
<1>3. phase \in PhaseType /\ phase # "running"
  BY DEF Completed, PhaseType
<1>4. IF k8s[b].live THEN Becomes(b, phase) ELSE UNCHANGED clusterVars
  BY DEF PatchRun
<1>5. \A c \in Objects : row'[c] = "cancelled" /\ k8s'[c].live /\ Phase(c)' = "running"
         => c # b /\ row[c] = "cancelled" /\ k8s[c].live /\ Phase(c) = "running"
  <2>1. CASE k8s[b].live
    <3>1. Becomes(b, phase)
      BY <1>4, <2>1
    <3>2. /\ \A c \in Objects \ {b} : phases'[c] = phases[c] /\ k8s'[c] = k8s[c]
          /\ Phase(b)' = phase
      BY <1>1, <1>3, <3>1, Grows
    <3>3. QED
      BY <1>1, <1>3, <3>2 DEF Phase
  <2>2. CASE ~k8s[b].live
    BY <1>1, <1>4, <2>2 DEF clusterVars, Phase
  <2>3. QED
    BY <2>1, <2>2
<1>6. CancelStops'
  <2>1. ASSUME NEW c \in Objects, row'[c] = "cancelled", k8s'[c].live, Phase(c)' = "running"
        PROVE  \/ \E p \in Requests : req'[p].pc = "patch" /\ req'[p].b = c
               \/ c \in hist'.early
               \/ faults' > 0
    <3>1. c # b /\ row[c] = "cancelled" /\ k8s[c].live /\ Phase(c) = "running"
      BY <1>5, <2>1
    <3>2. QED
      BY <1>1, <1>2, <3>1 DEF BuildsInv, CancelStops
  <2>2. QED
    BY <2>1 DEF CancelStops, Phase
<1>7. CASE k8s[b].live
  <2>1. /\ row[b] # "none"
        /\ \A p \in Requests : req'[p].pc \in {"draft", "create"} => req'[p].b # b
    BY <1>1, <1>2, <1>7, LiveHasRow, IdleType
  <2>2. QED
    BY <1>1, <1>3, <1>4, <1>6, <1>7, <2>1, RunChanges
<1>8. CASE ~k8s[b].live
  <2>1. /\ UNCHANGED <<k8s, cache, phases>>
        /\ cache' \in [Objects -> Entry] /\ CacheGenuine'
    BY <1>4, <1>8, CacheShows DEF clusterVars
  <2>2. QED
    BY <1>1, <1>6, <2>1, Shapes, EndsInv DEF BuildsInv
<1>9. QED
  BY <1>7, <1>8

-----------------------------------------------------------------------------
(* Transactions.                                                           *)

(* The transaction of request q, which has x to do after it.               *)
Commits(q, x) ==
    /\ req[q].pc = "commit"
    /\ x \in ReqType
    /\ req' = [req EXCEPT ![q] = x]
    /\ x.pc \in {"idle", "draft", "patch"}
    /\ x.op = "no"
    /\ x.todo = {}
    /\ \A b \in Objects : x.upd[b] = "no"
    /\ x.pc # "idle" => x.b \in Objects /\ row'[x.b] # "none"
    /\ x.pc = "draft" => row[x.b] = "none"
    /\ UNCHANGED <<k8s, cache, phases, cancels, faults>>
    /\ \A b \in Objects :
          /\ row'[b] = "none" => row[b] = "none"
          /\ row'[b] = "cancelled" =>
               \/ row[b] = "cancelled"
               \/ /\ x.pc = "patch" /\ x.b = b
                  /\ phases[b] = <<>> => b \in hist'.early
    /\ hist.early \subseteq hist'.early

LEMMA RowsChange ==
  ASSUME BuildsInv, NEW q \in Requests, NEW x, Commits(q, x),
         TypeOK', InOrder', RoomForStarts', StartsSettle', ImageIsQuiet',
         SucceededIsReal', ImageFromNewest', UserImageKept'
  PROVE  BuildsInv'
<1> USE DEF BuildsInv, Commits
<1>1. /\ req'[q] = x
      /\ \A p \in Requests \ {q} : req'[p] = req[p]
  BY Shapes
<1>2. RequestsSane'
  <2>1. ASSUME NEW p \in Requests \ {q}, NEW r \in ReqType, r = req[p]
        PROVE  /\ r.pc = "check" => r.todo # {}
               /\ r.pc = "commit" => r.todo = {}
               /\ r.op # "no" <=> r.pc \in {"check", "commit"}
               /\ r.op = "cancel" => \A b \in Objects : r.upd[b] = "no"
               /\ r.op = "cancel" \/ r.pc \in {"draft", "create", "patch"}
                     => r.b \in Objects /\ row'[r.b] # "none"
               /\ \A b \in Objects : b \in r.todo \/ r.upd[b] # "no"
                     => row'[b] # "none"
    BY <2>1 DEF RequestsSane, RequestSane
  <2>2. \A p \in Requests \ {q} : req[p] \in ReqType
    BY Shapes
  <2>3. QED
    BY <1>1, <2>1, <2>2 DEF RequestsSane, RequestSane
<1>3. CacheGenuine'
  BY DEF CacheGenuine
<1>4. FoundIsReal'
  BY <1>1 DEF FoundIsReal, HasSucceeded
<1>5. CreatesOnce'
  <2>1. ASSUME x.pc = "draft"
        PROVE  /\ phases[x.b] = <<>>
               /\ \A p \in Requests : req[p].pc \in {"draft", "create"}
                    => req[p].b # x.b
    BY <2>1 DEF CreatesOnce, RequestsSane, RequestSane
  <2>2. QED
    BY <1>1, <2>1 DEF CreatesOnce
<1>6. CancelledEarly'
  BY DEF CancelledEarly
<1>7. CancelStops'
  <2>1. ASSUME NEW b \in Objects, row'[b] = "cancelled", k8s[b].live, Phase(b) = "running"
        PROVE  \/ \E p \in Requests : req'[p].pc = "patch" /\ req'[p].b = b
               \/ b \in hist'.early
               \/ faults > 0
    <3>1. CASE row[b] = "cancelled"
      BY <1>1, <2>1, <3>1 DEF CancelStops
    <3>2. CASE x.pc = "patch" /\ x.b = b
      BY <1>1, <3>2
    <3>3. QED
      BY <2>1, <3>1, <3>2
  <2>2. QED
    BY <2>1 DEF CancelStops, Phase
<1>8. QED
  BY <1>2, <1>3, <1>4, <1>5, <1>6, <1>7

(* What a refresh makes of the rows and of the environment.                *)
LEMMA Refreshed ==
  ASSUME BuildsInv, NEW q \in Requests, NEW r \in ReqType, r = req[q]
  PROVE  /\ Written(r) \in [Objects -> RowType]
         /\ \A b \in Objects :
              /\ Written(r)[b] = "none" <=> row[b] = "none"
              /\ Written(r)[b] = "in_progress"
                    => row[b] = "in_progress" /\ r.upd[b] = "no"
              /\ Written(r)[b] = "cancelled" => row[b] = "cancelled"
              /\ Written(r)[b] = "succeeded" => HasSucceeded(b)
         /\ Equipped(r) \in [source : {"build", "image"}, image : Objects \cup {0}]
         /\ Equipped(r).source = env.source
         /\ \A b \in Objects : Equipped(r).image = b => HasSucceeded(b)
         /\ /\ ~hist.overlapped
            /\ ~(hist.late \/ Late(Writes(r)))
            /\ Equipped(r).image # 0
            => /\ Written(r)[Equipped(r).image] = "succeeded"
               /\ \A b \in Objects : Written(r)[b] = "succeeded"
                     => b <= Equipped(r).image
         /\ /\ env.source = "image"
            /\ r.op \in {"get", "start"} /\ r.pc = "commit"
            /\ Equipped(r).image # 0
            => hist.busy
<1> USE DEF BuildsInv
<1> DEFINE W == Written(r)
           E == Equipped(r)
<1>1. /\ RequestSane(r)
      /\ \A b \in Objects : r.upd[b] = "succeeded" => HasSucceeded(b)
      /\ \A b \in Objects : r.upd[b] \in {"no", "succeeded", "failed"}
      /\ \A b \in Objects : row[b] \in RowType
      /\ env \in [source : {"build", "image"}, image : Objects \cup {0}]
      /\ Objects \subseteq Nat \ {0}
  BY Shapes DEF RequestsSane, FoundIsReal, ReqType
<1>2. \A b \in Objects : W[b] = IF r.upd[b] # "no" THEN r.upd[b] ELSE row[b]
  BY DEF Written
<1>3. W \in [Objects -> RowType]
  BY <1>1 DEF Written, RowType
<1>4. ASSUME NEW b \in Objects
      PROVE  /\ W[b] = "none" <=> row[b] = "none"
             /\ W[b] = "in_progress" => row[b] = "in_progress" /\ r.upd[b] = "no"
             /\ W[b] = "cancelled" => row[b] = "cancelled"
             /\ W[b] = "succeeded" => HasSucceeded(b)
  <2>1. row[b] = "succeeded" => HasSucceeded(b)
    BY DEF SucceededIsReal, HasSucceeded
  <2>2. QED
    BY <1>1, <1>2, <2>1 DEF RequestSane
<1>5. CASE Built(r) = {}
  <2>1. E = env
    BY <1>5 DEF Equipped
  <2>2. \A b \in Objects : r.upd[b] \in {"no", "failed"}
    BY <1>1, <1>5 DEF Built
  <2>3. \A b \in Objects : env.image = b => HasSucceeded(b)
    BY DEF SucceededIsReal, HasSucceeded
  <2>4. ASSUME ~hist.overlapped, ~(hist.late \/ Late(Writes(r))), env.image # 0
        PROVE  /\ W[env.image] = "succeeded"
               /\ \A b \in Objects : W[b] = "succeeded" => b <= env.image
    <3>1. /\ row[env.image] = "succeeded"
          /\ \A b \in Objects : row[b] = "succeeded" => b <= env.image
      BY <2>4 DEF ImageFromNewest
    <3>2. env.image \in Objects
      BY <1>1, <2>4
    <3>3. r.upd[env.image] = "no"
      BY <1>1, <2>4, <3>1, <3>2 DEF Late, Writes
    <3>4. \A b \in Objects : W[b] = "succeeded" => row[b] = "succeeded"
      BY <1>2, <2>2
    <3>5. QED
      BY <1>2, <3>1, <3>2, <3>3, <3>4
  <2>5. env.source = "image" /\ env.image # 0 => hist.busy
    BY DEF UserImageKept
  <2> HIDE DEF W, E
  <2>6. QED
    BY <1>1, <1>3, <1>4, <2>1, <2>3, <2>4, <2>5 DEF W, E
<1>6. CASE Built(r) # {}
  <2> DEFINE m == Min(Built(r))
  <2>1. Built(r) \in SUBSET Nat /\ Built(r) \in SUBSET Objects
    BY <1>1 DEF Built
  <2>2. m \in Built(r) /\ m \in Objects /\ \A b \in Built(r) : m <= b
    BY <1>6, <2>1, MinIsLeast
  <2>3. E = [env EXCEPT !.image = m]
    BY <1>6 DEF Equipped
  <2> HIDE DEF m
  <2>4. /\ E \in [source : {"build", "image"}, image : Objects \cup {0}]
        /\ E.source = env.source /\ E.image = m
    BY <1>1, <2>2, <2>3
  <2>5. HasSucceeded(m)
    BY <1>1, <2>2 DEF Built
  <2>6. ASSUME ~Late(Writes(r))
        PROVE  \A b \in Objects : r.upd[b] # "no" => b \in InProgress
    BY <2>6 DEF Late, Writes, InProgress
  <2>7. ASSUME ~hist.overlapped, ~(hist.late \/ Late(Writes(r)))
        PROVE  /\ W[m] = "succeeded"
               /\ \A b \in Objects : W[b] = "succeeded" => b <= m
    <3>1. m \in InProgress /\ r.upd[m] = "succeeded"
      BY <2>2, <2>6, <2>7 DEF Built
    <3>2. ASSUME NEW b \in Objects, W[b] = "succeeded" PROVE row[b] # "none"
      BY <1>4, <3>2
    <3>3. QED
      BY <1>2, <2>2, <2>7, <3>1, <3>2 DEF StartsSettle
  <2>8. env.source = "image" /\ r.op \in {"get", "start"} /\ r.pc = "commit" => hist.busy
    <3>1. r.op = "get" => q \in Refreshing
      BY DEF Refreshing
    <3>2. r.op = "start" /\ r.pc = "commit" => q \in Starting
      BY DEF Starting
    <3>3. QED
      BY <3>1, <3>2, Shapes DEF ImageIsQuiet, HistType
  <2> HIDE DEF W, E
  <2>9. QED
    BY <1>3, <1>4, <2>4, <2>5, <2>7, <2>8 DEF W, E
<1>7. QED
  BY <1>5, <1>6

LEMMA CommitGetInv ==
  ASSUME BuildsInv, NEW q \in Requests, CommitGet(q) PROVE BuildsInv'
<1> USE DEF BuildsInv
<1> PICK r \in ReqType : r = req[q]
  BY Shapes
<1>1. /\ req[q].pc = "commit" /\ r.pc = "commit" /\ r.op = "get"
      /\ row' = Written(r) /\ env' = Equipped(r)
      /\ req' = [req EXCEPT ![q] = Idle]
      /\ hist' = [hist EXCEPT !.late = hist.late \/ Late(Writes(r))]
      /\ UNCHANGED <<k8s, cache, phases, cancels, faults>>
  BY DEF CommitGet, clusterVars
<1>2. /\ hist' \in HistType
      /\ hist'.late = (hist.late \/ Late(Writes(r)))
      /\ hist'.overlapped = hist.overlapped /\ hist'.busy = hist.busy
      /\ hist'.early = hist.early
  BY <1>1, Shapes DEF HistType, Late
<1>3. /\ req' \in [Requests -> ReqType]
      /\ req'[q] = Idle
      /\ \A p \in Requests \ {q} : req'[p] = req[p]
  BY <1>1, Shapes, IdleType
<1>4. TypeOK'
  BY <1>1, <1>2, <1>3, Shapes, Refreshed, TypesKept
<1>5. RoomForStarts' /\ StartsSettle' /\ ImageIsQuiet'
  BY <1>1, <1>2, <1>3, <1>4, Refreshed, IdleType, FewerStarts
<1>6. InOrder'
  BY <1>1, Refreshed DEF InOrder
<1>7. SucceededIsReal'
  BY <1>1, Refreshed DEF SucceededIsReal, HasSucceeded
<1>8. ImageFromNewest'
  BY <1>1, <1>2, Refreshed DEF ImageFromNewest
<1>9. UserImageKept'
  <2>1. ASSUME env.source = "image", Equipped(r).image # 0 PROVE hist.busy
    BY <1>1, <2>1, Refreshed
  <2>2. env'.source = env.source /\ env'.image = Equipped(r).image
    BY <1>1, Refreshed
  <2>3. QED
    BY <1>2, <2>1, <2>2 DEF UserImageKept
<1>10. ASSUME NEW b \in Objects
       PROVE  /\ row'[b] = "none" => row[b] = "none"
              /\ row'[b] = "cancelled" => row[b] = "cancelled"
  BY <1>1, Refreshed
<1>11. Commits(q, Idle)
  BY <1>1, <1>2, <1>10, IdleType DEF Commits
<1>12. QED
  BY <1>4, <1>5, <1>6, <1>7, <1>8, <1>9, <1>11, RowsChange

LEMMA CommitStartInv ==
  ASSUME BuildsInv, NEW q \in Requests, CommitStart(q) PROVE BuildsInv'
<1> USE DEF BuildsInv
<1> PICK r \in ReqType : r = req[q]
  BY Shapes
<1> PICK b : b = Min(Unused)
  OBVIOUS
<1>1. /\ req[q].pc = "commit" /\ r.pc = "commit" /\ r.op = "start"
      /\ UNCHANGED <<k8s, cache, phases, cancels, faults>>
      /\ \/ /\ row' = [Written(r) EXCEPT ![b] = "in_progress"]
            /\ env' = Equipped(r)
            /\ req' = [req EXCEPT ![q] = [Idle EXCEPT !.pc = "draft", !.b = b]]
            /\ hist' = [hist EXCEPT !.late = hist.late \/ Late(Writes(r))]
         \/ /\ req' = [req EXCEPT ![q] = Idle]
            /\ UNCHANGED <<row, env, hist>>
  BY DEF CommitStart, clusterVars, Unused
<1>2. CASE /\ req' = [req EXCEPT ![q] = Idle]
           /\ UNCHANGED <<row, env, hist>>
  <2>1. cache' \in [Objects -> Entry] /\ CacheGenuine'
    BY <1>1, CacheShows
  <2>2. QED
    BY <1>1, <1>2, <2>1, Shapes, EndsInv
<1>3. CASE /\ row' = [Written(r) EXCEPT ![b] = "in_progress"]
           /\ env' = Equipped(r)
           /\ req' = [req EXCEPT ![q] = [Idle EXCEPT !.pc = "draft", !.b = b]]
           /\ hist' = [hist EXCEPT !.late = hist.late \/ Late(Writes(r))]
  <2>1. q \in Starting
    BY <1>1 DEF Starting
  <2>2. /\ IsFiniteSet(Starting) /\ Cardinality(Starting) \in Nat
        /\ IsFiniteSet(Unused) /\ Cardinality(Unused) \in Nat
    BY Finite DEF Starting, Unused
  <2>3. Unused # {}
    BY <2>1, <2>2, FS_EmptySet DEF RoomForStarts
  <2>4. b \in Unused /\ \A c \in Unused : b <= c
    <3>1. Unused \in SUBSET Nat
      BY BuildsAssumption DEF Unused
    <3>2. QED
      BY <2>3, <3>1, MinIsLeast
  <2>5. b \in Objects /\ row[b] = "none" /\ b \in Nat
    BY <2>4, Shapes DEF Unused
  <2>6. /\ row' \in [Objects -> RowType]
        /\ row'[b] = "in_progress"
        /\ \A c \in Objects \ {b} : row'[c] = Written(r)[c]
    BY <1>3, <2>5, Refreshed DEF RowType
  <2>7. /\ hist' \in HistType
        /\ hist'.late = (hist.late \/ Late(Writes(r)))
        /\ hist'.overlapped = hist.overlapped /\ hist'.busy = hist.busy
        /\ hist'.early = hist.early
    BY <1>3, Shapes DEF HistType, Late
  <2> PICK x : x = [Idle EXCEPT !.pc = "draft", !.b = b]
    OBVIOUS
  <2>8. /\ x \in ReqType /\ x.pc = "draft" /\ x.op = "no" /\ x.b = b
        /\ x.todo = {} /\ x.upd = Idle.upd
    BY <2>5, IdleType DEF ReqType
  <2>9. /\ req' = [req EXCEPT ![q] = x]
        /\ req' \in [Requests -> ReqType]
        /\ req'[q] = x
        /\ \A p \in Requests \ {q} : req'[p] = req[p]
    BY <1>3, <2>8, Shapes
  <2>10. TypeOK'
    BY <1>1, <1>3, <2>6, <2>7, <2>9, Shapes, Refreshed, TypesKept
  <2>11. Starting' = Starting \ {q}
    BY <2>8, <2>9 DEF Starting
  <2>12. Unused' = Unused \ {b}
    BY <2>5, <2>6, Refreshed DEF Unused
  <2>13. RoomForStarts'
    <3>1. Cardinality(Starting') = Cardinality(Starting) - 1
      BY <2>1, <2>2, <2>11, FS_RemoveElement
    <3>2. Cardinality(Unused') = Cardinality(Unused) - 1
      BY <2>2, <2>4, <2>12, FS_RemoveElement
    <3>3. QED
      BY <2>2, <3>1, <3>2 DEF RoomForStarts
  <2>14. ASSUME NEW c \in Objects
         PROVE  /\ row'[c] = "none" <=> row[c] = "none" /\ c # b
                /\ row'[c] = "cancelled" => row[c] = "cancelled"
                /\ row'[c] = "succeeded" => c # b /\ Written(r)[c] = "succeeded"
                /\ row'[c] = "in_progress" /\ c # b
                      => row[c] = "in_progress" /\ r.upd[c] = "no"
    BY <2>5, <2>6, Refreshed
  <2>15. InOrder'
    <3>1. ASSUME NEW c \in Objects, NEW d \in Objects, row'[c] # "none", row'[d] = "none"
          PROVE  c < d
      <4>1. row[d] = "none" /\ d # b /\ d \in Nat /\ b <= d
        BY <2>4, <2>14, <3>1, Shapes DEF Unused
      <4>2. CASE c = b
        BY <2>5, <4>1, <4>2
      <4>3. CASE c # b
        BY <2>14, <3>1, <4>1, <4>3 DEF InOrder
      <4>4. QED
        BY <4>2, <4>3
    <3>2. QED
      BY <3>1 DEF InOrder
  <2>16. StartsSettle'
    <3>1. SUFFICES ASSUME ~hist.overlapped PROVE StartsSettle'
      BY <2>7 DEF StartsSettle
    <3>2. Starting' = {}
      BY <2>1, <2>11, <3>1 DEF StartsSettle
    <3>3. ASSUME NEW c \in Objects, row'[c] = "in_progress" PROVE c = b
      <4>1. SUFFICES ASSUME c # b PROVE FALSE
        OBVIOUS
      <4>2. c \in InProgress /\ r.upd[c] = "no"
        BY <2>14, <3>3, <4>1 DEF InProgress
      <4>3. r.todo = {}
        BY <1>1 DEF RequestsSane, RequestSane
      <4>4. QED
        BY <2>1, <3>1, <4>2, <4>3 DEF StartsSettle
    <3>4. ASSUME NEW c \in Objects, row'[c] # "none" PROVE c <= b
      <4>1. CASE c = b
        BY <2>5, <4>1
      <4>2. CASE c # b
        <5>1. c < b /\ c \in Nat
          BY <2>5, <2>14, <3>4, <4>2, Shapes DEF InOrder
        <5>2. QED
          BY <2>5, <5>1
      <4>3. QED
        BY <4>1, <4>2
    <3>5. QED
      BY <3>2, <3>3, <3>4 DEF StartsSettle, InProgress
  <2>17. ImageIsQuiet'
    <3>1. env.source = "image" => hist.busy
      BY <2>1, Shapes DEF ImageIsQuiet, HistType
    <3>2. QED
      BY <1>3, <2>7, <3>1, Refreshed DEF ImageIsQuiet
  <2>18. SucceededIsReal'
    BY <1>1, <1>3, <2>14, Refreshed DEF SucceededIsReal, HasSucceeded
  <2>19. ImageFromNewest'
    <3>1. SUFFICES ASSUME ~hist.overlapped, ~(hist.late \/ Late(Writes(r))),
                          Equipped(r).image # 0
                   PROVE  /\ row'[Equipped(r).image] = "succeeded"
                          /\ \A c \in Objects : row'[c] = "succeeded"
                                => c <= Equipped(r).image
      BY <1>3, <2>7 DEF ImageFromNewest
    <3>2. /\ Equipped(r).image \in Objects
          /\ Written(r)[Equipped(r).image] = "succeeded"
          /\ \A c \in Objects : Written(r)[c] = "succeeded" => c <= Equipped(r).image
      BY <3>1, Refreshed
    <3>3. Equipped(r).image # b
      BY <2>5, <3>2, Refreshed
    <3>4. QED
      BY <2>6, <2>14, <3>2, <3>3
  <2>20. UserImageKept'
    <3>1. ASSUME env.source = "image", Equipped(r).image # 0 PROVE hist.busy
      BY <1>1, <3>1, Refreshed
    <3>2. env'.source = env.source /\ env'.image = Equipped(r).image
      BY <1>3, Refreshed
    <3>3. QED
      BY <2>7, <3>1, <3>2 DEF UserImageKept
  <2>21. \A c \in Objects : x.upd[c] = "no"
    BY <2>8, IdleType
  <2>22. ASSUME NEW c \in Objects
         PROVE  /\ row'[c] = "none" => row[c] = "none"
                /\ row'[c] = "cancelled" => row[c] = "cancelled"
    BY <2>14
  <2>23. /\ x.pc # "idle" => x.b \in Objects /\ row'[x.b] # "none"
         /\ x.pc = "draft" => row[x.b] = "none"
         /\ hist.early \subseteq hist'.early
    BY <2>5, <2>6, <2>7, <2>8
  <2>24. Commits(q, x)
    BY <1>1, <2>8, <2>9, <2>21, <2>22, <2>23 DEF Commits
  <2>25. QED
    BY <2>10, <2>13, <2>15, <2>16, <2>17, <2>18, <2>19, <2>20, <2>24, RowsChange
<1>4. QED
  BY <1>1, <1>2, <1>3

LEMMA CommitCancelInv ==
  ASSUME BuildsInv, NEW q \in Requests, CommitCancel(q) PROVE BuildsInv'
<1> USE DEF BuildsInv
<1> PICK r \in ReqType : r = req[q]
  BY Shapes
<1> PICK b \in Objects : b = r.b /\ row[b] # "none"
  BY DEF CommitCancel, RequestsSane, RequestSane
<1>1. /\ req[q].pc = "commit" /\ r.pc = "commit" /\ r.op = "cancel"
      /\ \/ /\ row' = [Written(r) EXCEPT ![b] = "cancelled"]
            /\ hist' = [hist EXCEPT
                           !.late = hist.late \/ row[b] \in Completed,
                           !.early = IF phases[b] = <<>> THEN hist.early \cup {b}
                                     ELSE hist.early]
         \/ row' = Written(r) /\ hist' = hist
      /\ req' = [req EXCEPT ![q] = [Idle EXCEPT !.pc = "patch", !.b = b]]
      /\ UNCHANGED <<k8s, cache, phases, env, cancels, faults>>
  BY DEF CommitCancel, clusterVars
<1>2. /\ \A c \in Objects : Written(r)[c] = row[c]
      /\ Written(r) \in [Objects -> RowType]
  <2>1. \A c \in Objects : r.upd[c] = "no"
    BY <1>1 DEF RequestsSane, RequestSane
  <2>2. Written(r) \in [Objects -> RowType]
    BY Refreshed
  <2>3. QED
    BY <2>1, <2>2 DEF Written
<1>3. /\ row' \in [Objects -> RowType]
      /\ row'[b] = "cancelled" \/ row'[b] = row[b]
      /\ \A c \in Objects \ {b} : row'[c] = row[c]
  BY <1>1, <1>2 DEF RowType
<1>4. /\ hist' \in HistType
      /\ hist.late => hist'.late
      /\ row'[b] = row[b] \/ hist'.late = (hist.late \/ row[b] \in Completed)
      /\ hist'.overlapped = hist.overlapped /\ hist'.busy = hist.busy
      /\ hist.early \subseteq hist'.early
      /\ row'[b] = row[b] \/ (phases[b] = <<>> => b \in hist'.early)
  <2>a. CASE row' = Written(r) /\ hist' = hist
    BY <1>2, <2>a, Shapes
  <2>b. CASE hist' # hist \/ row' # Written(r)
    <3> PICK e : e = IF phases[b] = <<>> THEN hist.early \cup {b} ELSE hist.early
      OBVIOUS
    <3> PICK l \in BOOLEAN : l = (hist.late \/ row[b] \in Completed)
      OBVIOUS
    <3>1. e \in SUBSET Objects
      BY Shapes DEF HistType
    <3>2. hist' = [hist EXCEPT !.late = l, !.early = e]
      BY <1>1, <2>b
    <3>3. /\ hist' \in HistType
          /\ hist'.late = l /\ hist'.early = e
          /\ hist'.overlapped = hist.overlapped /\ hist'.busy = hist.busy
      BY <3>1, <3>2, Shapes DEF HistType
    <3>4. QED
      BY <3>3
  <2>c. QED
    BY <2>a, <2>b
<1> PICK x : x = [Idle EXCEPT !.pc = "patch", !.b = b]
  OBVIOUS
<1>5. /\ x \in ReqType /\ x.pc = "patch" /\ x.op = "no" /\ x.b = b
      /\ x.todo = {} /\ x.upd = Idle.upd
  BY IdleType DEF ReqType
<1>6. /\ req' = [req EXCEPT ![q] = x]
      /\ req' \in [Requests -> ReqType]
      /\ req'[q] = x
      /\ \A p \in Requests \ {q} : req'[p] = req[p]
  BY <1>1, <1>5, Shapes
<1>7. TypeOK'
  BY <1>1, <1>3, <1>4, <1>6, Shapes, TypesKept
<1>8. RoomForStarts' /\ StartsSettle' /\ ImageIsQuiet'
  BY <1>1, <1>3, <1>4, <1>5, <1>6, <1>7, FewerStarts
<1>9. InOrder' /\ SucceededIsReal'
  BY <1>1, <1>3 DEF InOrder, SucceededIsReal
<1>10. ImageFromNewest' /\ UserImageKept'
  <2>1. env.image # 0 => env.image \in Objects
    BY Shapes
  <2>2. QED
    BY <1>1, <1>3, <1>4, <2>1 DEF ImageFromNewest, UserImageKept, Completed
<1>11. \A c \in Objects : x.upd[c] = "no"
  BY <1>5, IdleType
<1>12. ASSUME NEW c \in Objects
       PROVE  /\ row'[c] = "none" => row[c] = "none"
              /\ row'[c] = "cancelled" =>
                   \/ row[c] = "cancelled"
                   \/ /\ x.pc = "patch" /\ x.b = c
                      /\ phases[c] = <<>> => c \in hist'.early
  BY <1>3, <1>4, <1>5
<1>13. /\ x.pc # "idle" => x.b \in Objects /\ row'[x.b] # "none"
       /\ x.pc = "draft" => row[x.b] = "none"
  BY <1>3, <1>5
<1>14. Commits(q, x)
  BY <1>1, <1>4, <1>5, <1>6, <1>11, <1>12, <1>13 DEF Commits
<1>15. QED
  BY <1>7, <1>8, <1>9, <1>10, <1>14, RowsChange

LEMMA SetImageInv ==
  ASSUME BuildsInv, SetImage PROVE BuildsInv'
<1> USE DEF BuildsInv
<1>1. /\ env' = [env EXCEPT !.source = "image", !.image = 0]
      /\ hist' = [hist EXCEPT !.busy = hist.busy \/ InProgress # {} \/ Starting # {}
                                                \/ Refreshing # {}]
      /\ UNCHANGED <<k8s, cache, phases, row, req, cancels, faults>>
  BY DEF SetImage, clusterVars
<1>2. /\ env' \in [source : {"build", "image"}, image : Objects \cup {0}]
      /\ env'.image = 0 /\ 0 \notin Objects
  BY <1>1, Shapes
<1>3. /\ hist' \in HistType
      /\ hist'.busy = (hist.busy \/ InProgress # {} \/ Starting # {} \/ Refreshing # {})
      /\ hist'.overlapped = hist.overlapped /\ hist'.late = hist.late
      /\ hist'.early = hist.early
  <2> PICK l \in BOOLEAN :
         l = (hist.busy \/ InProgress # {} \/ Starting # {} \/ Refreshing # {})
    OBVIOUS
  <2>1. hist' = [hist EXCEPT !.busy = l]
    BY <1>1
  <2>2. QED
    BY <2>1, Shapes DEF HistType
<1>4. TypeOK'
  BY <1>1, <1>2, <1>3, Shapes, TypesKept
<1>5. /\ RequestsSane' /\ CacheGenuine' /\ RoomForStarts' /\ FoundIsReal'
      /\ InOrder' /\ CreatesOnce' /\ CancelledEarly'
  BY <1>1, <1>3 DEF RequestsSane, RequestSane, CacheGenuine, RoomForStarts,
     Starting, Unused, FoundIsReal, HasSucceeded, InOrder, CreatesOnce,
     CancelledEarly
<1>6. StartsSettle' /\ ImageIsQuiet'
  <2>1. InProgress' = InProgress /\ Starting' = Starting /\ Refreshing' = Refreshing
    BY <1>1 DEF InProgress, Starting, Refreshing
  <2>2. QED
    BY <1>1, <1>3, <2>1 DEF StartsSettle, ImageIsQuiet
<1>7. SucceededIsReal' /\ ImageFromNewest' /\ UserImageKept' /\ CancelStops'
  BY <1>1, <1>2, <1>3 DEF SucceededIsReal, ImageFromNewest, UserImageKept,
     CancelStops, Phase
<1>8. QED
  BY <1>3, <1>4, <1>5, <1>6, <1>7, <1>1 DEF CacheGenuine

-----------------------------------------------------------------------------
(* The theorems.                                                           *)

LEMMA BuildsInvNext ==
  ASSUME BuildsInv, [Next]_vars PROVE BuildsInv'
<1>1. ASSUME NEW b \in Objects, Progress(b) \/ CacheMoves(b) PROVE BuildsInv'
  BY <1>1, ProgressInv, CacheMovesInv
<1>2. CASE SetImage
  BY <1>2, SetImageInv
<1>3. ASSUME NEW q \in Requests, LookGet(q) \/ LookStart(q) PROVE BuildsInv'
  BY <1>3, LookGetInv, LookStartInv
<1>4. ASSUME NEW q \in Requests, NEW b \in Objects, LookCancel(q, b)
      PROVE  BuildsInv'
  BY <1>4, LookCancelInv
<1>5. ASSUME NEW q \in Requests, GoesOn(q) PROVE BuildsInv'
  BY <1>5, CheckInv, CommitGetInv, CommitStartInv, CommitCancelInv,
     DraftRunInv, CreateRunInv, PatchRunInv DEF GoesOn
<1>6. ASSUME NEW q \in Requests, Fail(q) PROVE BuildsInv'
  BY <1>6, FailInv
<1>7. CASE UNCHANGED vars
  <2>1. UNCHANGED <<k8s, cache, phases, row, env, req, cancels, faults, hist>>
    BY <1>7 DEF vars
  <2>2. TypeOK' /\ CacheGenuine'
    BY <2>1, Shapes, TypesKept DEF BuildsInv, CacheGenuine
  <2>3. /\ RequestsSane' /\ RoomForStarts' /\ FoundIsReal' /\ InOrder'
        /\ StartsSettle' /\ ImageIsQuiet' /\ CreatesOnce' /\ CancelledEarly'
    BY <2>1 DEF BuildsInv, RequestsSane, RequestSane, RoomForStarts, Starting,
                Unused, FoundIsReal, HasSucceeded, InOrder, StartsSettle,
                InProgress, Refreshing, ImageIsQuiet, CreatesOnce, CancelledEarly
  <2>4. SucceededIsReal' /\ ImageFromNewest' /\ UserImageKept' /\ CancelStops'
    BY <2>1 DEF BuildsInv, SucceededIsReal, ImageFromNewest, UserImageKept,
                CancelStops, Phase
  <2>5. QED
    BY <2>2, <2>3, <2>4 DEF BuildsInv
<1>8. QED
  BY <1>1, <1>2, <1>3, <1>4, <1>5, <1>6, <1>7 DEF Next

LEMMA BuildsInvariant == Spec => []BuildsInv
<1>1. QED
  BY BuildsInvInit, BuildsInvNext, PTL DEF Spec

(* The rows, the requests, the BuildRuns and the environment keep their    *)
(* types, and a BuildRun has a phase for each of its versions.             *)
THEOREM BuildsTypeCorrect == Spec => []TypeOK
<1>1. BuildsInv => TypeOK
  BY DEF BuildsInv
<1>2. QED
  BY <1>1, BuildsInvariant, PTL

(* A build that is shown as succeeded, or whose image the environment has, *)
(* has succeeded in the cluster.                                           *)
THEOREM NoMadeUpSuccess == Spec => []SucceededIsReal
<1>1. BuildsInv => SucceededIsReal
  BY DEF BuildsInv
<1>2. QED
  BY <1>1, BuildsInvariant, PTL

(* As long as no two starts overlap there is one build in progress.        *)
THEOREM OneBuildAtATime == Spec => []OneInProgress
<1>1. ASSUME BuildsInv PROVE OneInProgress
  <2>1. SUFFICES ASSUME ~hist.overlapped PROVE Cardinality(InProgress) <= 1
    BY DEF OneInProgress
  <2>2. ASSUME NEW b \in InProgress, NEW c \in InProgress PROVE b = c
    <3>1. b \in Objects /\ c \in Objects /\ b \in Nat /\ c \in Nat
      BY <1>1, Shapes DEF InProgress, BuildsInv
    <3>2. b <= c /\ c <= b
      BY <1>1, <2>1, <3>1 DEF BuildsInv, StartsSettle, InProgress
    <3>3. QED
      BY <3>1, <3>2
  <2>3. CASE InProgress = {}
    BY <2>3, FS_EmptySet
  <2>4. CASE InProgress # {}
    <3>1. PICK b : InProgress = {b}
      BY <2>2, <2>4
    <3>2. QED
      BY <3>1, FS_Singleton
  <2>5. QED
    BY <2>3, <2>4
<1>2. QED
  BY <1>1, BuildsInvariant, PTL

(* The environment has the image of the last build that succeeded, unless  *)
(* starts overlapped or a request wrote late.                              *)
THEOREM ImageIsNewest == Spec => []ImageFromNewest
<1>1. BuildsInv => ImageFromNewest
  BY DEF BuildsInv
<1>2. QED
  BY <1>1, BuildsInvariant, PTL

(* The image that a user gave is not replaced, unless a build was under way*)
(* when it was given, or in the hands of a request.                        *)
THEOREM UserImageStays == Spec => []UserImageKept
<1>1. BuildsInv => UserImageKept
  BY DEF BuildsInv
<1>2. QED
  BY <1>1, BuildsInvariant, PTL

(* A cancelled build does not run on, but for the cases that the property  *)
(* lists.                                                                  *)
THEOREM CancelledStops == Spec => []CancelStops
<1>1. BuildsInv => CancelStops
  BY DEF BuildsInv
<1>2. QED
  BY <1>1, BuildsInvariant, PTL

(* A build that is settled is never in progress again.                     *)
THEOREM SettledStays == Spec => NeverReopened
<1>1. ASSUME BuildsInv, [Next]_vars,
             NEW b \in Objects, row[b] \in Completed \cup {"cancelled"}
      PROVE  row'[b] # "in_progress"
  <2>1. row[b] # "in_progress" /\ row[b] # "none"
    BY <1>1 DEF Completed
  <2>2. ASSUME NEW q \in Requests, CommitGet(q) PROVE row'[b] # "in_progress"
    BY <1>1, <2>1, <2>2, Shapes, Refreshed DEF CommitGet, BuildsInv
  <2>3. ASSUME NEW q \in Requests, CommitStart(q) PROVE row'[b] # "in_progress"
    <3>1. SUFFICES ASSUME row' = [Written(req[q]) EXCEPT ![Min(Unused)] = "in_progress"]
                   PROVE  row'[b] # "in_progress"
      BY <2>1, <2>3 DEF CommitStart, Unused
    <3>2. Min(Unused) \in Unused
      <4>1. q \in Starting
        BY <2>3 DEF CommitStart, Starting
      <4>2. /\ IsFiniteSet(Starting) /\ Cardinality(Starting) \in Nat
            /\ IsFiniteSet(Unused) /\ Cardinality(Unused) \in Nat
        BY Finite DEF Starting, Unused
      <4>3. Unused # {}
        BY <1>1, <4>1, <4>2, FS_EmptySet DEF BuildsInv, RoomForStarts
      <4>4. Unused \in SUBSET Nat
        BY BuildsAssumption DEF Unused
      <4>5. QED
        BY <4>3, <4>4, MinIsLeast
    <3>3. Min(Unused) # b
      BY <2>1, <3>2 DEF Unused
    <3>4. Written(req[q])[b] # "in_progress"
      BY <1>1, <2>1, Shapes, Refreshed DEF BuildsInv
    <3>5. row'[b] = Written(req[q])[b]
      BY <3>1, <3>3 DEF Written
    <3>6. QED
      BY <3>4, <3>5
  <2>4. ASSUME NEW q \in Requests, CommitCancel(q) PROVE row'[b] # "in_progress"
    <3>1. \/ row' = [Written(req[q]) EXCEPT ![req[q].b] = "cancelled"]
          \/ row' = Written(req[q])
      BY <2>4 DEF CommitCancel
    <3>2. Written(req[q])[b] # "in_progress"
      BY <1>1, <2>1, Shapes, Refreshed DEF BuildsInv
    <3>3. row'[b] = Written(req[q])[b] \/ row'[b] = "cancelled"
      BY <3>1 DEF Written
    <3>4. QED
      BY <3>2, <3>3
  <2>5. CASE UNCHANGED row
    BY <2>1, <2>5
  <2>6. QED
    BY <1>1, <2>2, <2>3, <2>4, <2>5
       DEF Next, Progress, CacheMoves, SetImage, LookGet, LookStart,
           LookCancel, GoesOn, Check, DraftRun, CreateRun, PatchRun, Fail, vars
<1>2. ASSUME BuildsInv, [Next]_vars
      PROVE  [\A b \in Objects : row[b] \in Completed \cup {"cancelled"}
                => row'[b] # "in_progress"]_vars
  BY <1>1, <1>2
<1>3. QED
  BY <1>2, BuildsInvariant, PTL DEF Spec, NeverReopened

(* Builds uses the cluster and the cache as ObjectCache allows: what it    *)
(* relies on is what K8sCache is shown to implement.                       *)
THEOREM BuildsReadsView == Spec => ViewSpec
<1>1. Init => ViewInit
  BY DEF Init
<1>2. ASSUME BuildsInv, [Next]_vars PROVE [ViewNext]_viewVars
  <2>1. ASSUME NEW b \in Objects, NEW phase, Becomes(b, phase) PROVE ViewNext
    BY <2>1 DEF Becomes, ViewNext
  <2>2. ASSUME NEW b \in Objects, Progress(b) PROVE ViewNext
    BY <2>1, <2>2 DEF Progress
  <2>3. ASSUME NEW b \in Objects, CacheMoves(b) PROVE ViewNext
    BY <2>3 DEF CacheMoves, ViewNext
  <2>4. ASSUME NEW q \in Requests, DraftRun(q) \/ CreateRun(q) \/ PatchRun(q)
        PROVE  [ViewNext]_viewVars
    <3>1. req[q].b \in Objects
      BY <1>2, <2>4 DEF DraftRun, CreateRun, PatchRun, BuildsInv, RequestsSane,
                        RequestSane
    <3>2. CASE DraftRun(q)
      BY <3>1, <3>2 DEF DraftRun, ViewNext
    <3>3. CASE CreateRun(q)
      BY <2>1, <3>1, <3>3 DEF CreateRun, ViewNext
    <3>4. CASE PatchRun(q)
      BY <2>1, <3>1, <3>4 DEF PatchRun, clusterVars, viewVars
    <3>5. QED
      BY <2>4, <3>2, <3>3, <3>4
  <2>5. CASE UNCHANGED <<k8s, cache>>
    BY <2>5 DEF viewVars
  <2>6. QED
    BY <1>2, <2>2, <2>3, <2>4, <2>5
       DEF Next, SetImage, LookGet, LookStart, LookCancel, GoesOn, Check,
           CommitGet, CommitStart, CommitCancel, Fail, clusterVars, vars
<1>3. QED
  BY <1>1, <1>2, BuildsInvariant, PTL DEF Spec, ViewSpec
=============================================================================
