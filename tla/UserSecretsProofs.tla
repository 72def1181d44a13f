------------------------- MODULE UserSecretsProofs -------------------------
(***************************************************************************)
(* Proofs about UserSecrets for any secrets, requests, size of the batches *)
(* and bounds.  The invariant says what the copies that the rotation holds *)
(* have to do with the rows and the key of the user.                       *)
(***************************************************************************)
EXTENDS UserSecrets, FiniteSetTheorems, WellFoundedInduction, TLAPS

LOCAL INSTANCE FiniteSetsExt

Row == [live : BOOLEAN, val : Nat, inner : Nat, outer : {"none", "old", "new"}]
RotType == [pc : {"no", "read", "write", "done", "errored"}, offset : Nat,
            batch : SUBSET Secrets, copy : [Secrets -> Row]]
HistType == [overlapped : BOOLEAN, deleted : BOOLEAN, raced : SUBSET Secrets,
             outdated : SUBSET Secrets, skipped : SUBSET Secrets]

(* A request that is about to store has a key that was made.               *)
StoreHasKey == \A q \in Requests : req[q].pc = "store" => req[q].key # 0

(* What the rotation is about to write is a secret under a key, and that   *)
(* of the user as the user stored it last, unless there was a race.        *)
CopiesFaithful ==
    \A s \in rot.batch :
       /\ rot.copy[s].live
       /\ rot.copy[s].inner \in 1 .. keys
       /\ rot.copy[s].val = latest[s] \/ s \in hist.raced

(* Unless two requests found no key, one at a time creates a key, and only *)
(* while there is none; what is stored or copied is under the user's key.  *)
OneKey ==
    ~hist.overlapped =>
       /\ \A p, q \in Requests : req[p].pc = "create" /\ req[q].pc = "create" => p = q
       /\ \A q \in Requests : req[q].pc = "create" => secretKey = 0
       /\ \A q \in Requests : req[q].pc = "store" => req[q].key = secretKey
       /\ \A s \in rot.batch : rot.copy[s].inner = secretKey

SecretsInv ==
    /\ TypeOK
    /\ StoreHasKey
    /\ CopiesFaithful
    /\ OneKey
    /\ OpensWithKey
    /\ ValueKept

-----------------------------------------------------------------------------
(* What the helpers return.                                                *)

Less == {p \in Nat \X Nat : p[1] < p[2]}

LEMMA LessWellFounded == IsWellFoundedOn(Less, Nat)
<1>1. IsWellFoundedOn(OpToRel(<, Nat), Nat)
  BY NatLessThanWellFounded
<1>2. QED
  BY <1>1, Zenon DEF OpToRel, Less

LEMMA MinIsMember ==
  ASSUME NEW S \in SUBSET Nat, S # {}
  PROVE  Min(S) \in S /\ \A x \in S : Min(S) <= x
<1>1. PICK m \in S : \A x \in S : <<x, m>> \notin Less
  BY LessWellFounded, WFMin
<1>2. ASSUME NEW x \in S PROVE m <= x
  <2>1. x \in Nat /\ m \in Nat /\ <<x, m>> \notin Less
    BY <1>1
  <2>2. ~(x < m)
    BY <2>1 DEF Less
  <2>3. QED
    BY <2>1, <2>2
<1>3. QED
  BY <1>2 DEF Min

LEMMA RowTypes ==
  /\ NoSecret \in Row
  /\ RotIdle \in RotType /\ RotIdle.batch = {}
  /\ \A v, k \in Nat, p \in {"old", "new"} : Encrypted(v, k, p) \in Row
BY DEF NoSecret, Encrypted, RotIdle, Row, RotType

-----------------------------------------------------------------------------

LEMMA SecretsInvInit == Init => SecretsInv
<1> SUFFICES ASSUME Init PROVE SecretsInv
  OBVIOUS
<1>1. TypeOK
  <2>1. sec \in [Secrets -> Row] /\ Live = {}
    BY RowTypes DEF Init, Live, NoSecret
  <2>2. rot \in RotType
    BY RowTypes DEF Init
  <2>3. req \in [Requests -> [pc : {"idle", "key", "create", "store"},
                             s : Secrets \cup {0}, key : 0 .. keys]]
    BY DEF Init, Idle
  <2>4. QED
    BY <2>1, <2>2, <2>3 DEF Init, TypeOK, Row, RotType
<1>2. StoreHasKey /\ CopiesFaithful /\ OneKey /\ OpensWithKey /\ ValueKept
  BY RowTypes DEF Init, Idle, Live, NoSecret, StoreHasKey, CopiesFaithful, OneKey,
                  OpensWithKey, ValueKept
<1>3. QED
  BY <1>1, <1>2 DEF SecretsInv

(* The types in the form in which the steps need them.                     *)
LEMMA Shapes ==
  ASSUME TypeOK
  PROVE  /\ sec \in [Secrets -> Row] /\ rot \in RotType /\ hist \in HistType
         /\ keys \in Nat /\ secretKey \in 0 .. keys /\ writes \in Nat
         /\ rot.batch \subseteq Secrets /\ Live \subseteq Secrets
         /\ 0 \notin Secrets /\ Secrets \subseteq Nat
         /\ \A q \in Requests : /\ req[q].key \in 0 .. keys
                                /\ req[q].s \in Secrets \cup {0}
BY SecretsAssumption DEF TypeOK, Row, RotType, HistType, Live

ReqRec == [pc : {"idle", "key", "create", "store"}, s : Secrets \cup {0}, key : Nat]

LEMMA ReqRecUpdate ==
  ASSUME NEW r \in ReqRec, NEW pc \in {"idle", "key", "create", "store"}
  PROVE  /\ [r EXCEPT !.pc = pc] \in ReqRec
         /\ \A k \in Nat : [r EXCEPT !.pc = pc, !.key = k] \in ReqRec
         /\ \A s \in Secrets \cup {0} :
              /\ [r EXCEPT !.pc = pc, !.s = s] \in ReqRec
              /\ [r EXCEPT !.pc = pc, !.s = s].pc = pc
              /\ [r EXCEPT !.pc = pc, !.s = s].key = r.key
BY DEF ReqRec

(* Assembling the types again.                                             *)
LEMMA TypesKept ==
  ASSUME keys' \in Nat, secretKey' \in 0 .. keys', sec' \in [Secrets -> Row],
         \A s \in Secrets : sec'[s].live => /\ sec'[s].inner \in 1 .. keys'
                                            /\ sec'[s].outer # "none",
         svc' \in SUBSET {"old", "new"}, pubs' \in SUBSET {"old", "new"},
         rot' \in RotType, hist' \in HistType, writes' \in Nat, restarts' \in Nat,
         req' \in [Requests -> ReqRec], \A q \in Requests : req'[q].key <= keys',
         latest' \in [Secrets -> Nat]
  PROVE  TypeOK'
<1>1. ASSUME NEW q \in Requests
      PROVE  req'[q] \in [pc : {"idle", "key", "create", "store"},
                          s : Secrets \cup {0}, key : 0 .. keys']
  <2>1. req'[q] \in ReqRec /\ req'[q].key <= keys' /\ keys' \in Nat
    OBVIOUS
  <2>2. QED
    BY <2>1 DEF ReqRec
<1>2. req' \in [Requests -> [pc : {"idle", "key", "create", "store"},
                             s : Secrets \cup {0}, key : 0 .. keys']]
  BY <1>1
<1>3. QED
  BY <1>2 DEF TypeOK, Row, RotType, HistType, Live

LEMMA Rows ==
  ASSUME TypeOK
  PROVE  /\ \A s \in Secrets : sec[s].live => /\ sec[s].inner \in 1 .. keys
                                              /\ sec[s].outer # "none"
         /\ svc \in SUBSET {"old", "new"} /\ pubs \in SUBSET {"old", "new"}
         /\ restarts \in Nat /\ latest \in [Secrets -> Nat]
         /\ req \in [Requests -> ReqRec]
         /\ \A q \in Requests : req[q].key <= keys
<1>1. ASSUME NEW q \in Requests PROVE req[q] \in ReqRec /\ req[q].key <= keys
  <2>1. req[q] \in [pc : {"idle", "key", "create", "store"},
                    s : Secrets \cup {0}, key : 0 .. keys] /\ keys \in Nat
    BY DEF TypeOK
  <2>2. QED
    BY <2>1 DEF ReqRec
<1>2. req \in [Requests -> ReqRec]
  BY <1>1 DEF TypeOK
<1>3. QED
  BY <1>1, <1>2 DEF TypeOK, Live

-----------------------------------------------------------------------------
(* Steps of the requests.                                                  *)

(* Steps that touch only the requests and, in the history, overlapped.     *)
LEMMA RequestsOnly ==
  ASSUME SecretsInv,
         UNCHANGED <<secretKey, keys, sec, svc, pubs, rot, writes, restarts, latest>>,
         req' \in [Requests -> ReqRec], \A q \in Requests : req'[q].key <= keys,
         hist' \in HistType, hist'.raced = hist.raced,
         hist.overlapped => hist'.overlapped
  PROVE  TypeOK' /\ CopiesFaithful' /\ OpensWithKey' /\ ValueKept'
<1>1. TypeOK'
  BY Shapes, Rows, TypesKept DEF SecretsInv
<1>2. CopiesFaithful'
  BY DEF SecretsInv, CopiesFaithful
<1>3. OpensWithKey'
  BY DEF SecretsInv, OpensWithKey, Live
<1>4. ValueKept'
  BY DEF SecretsInv, ValueKept, Live
<1>5. QED
  BY <1>1, <1>2, <1>3, <1>4

LEMMA AskKeeps == ASSUME SecretsInv, NEW q \in Requests, Ask(q) PROVE SecretsInv'
<1>1. PICK s \in Live \cup {0} :
         req' = [req EXCEPT ![q] = [Idle EXCEPT !.pc = "key", !.s = s]]
  BY DEF Ask
<1> DEFINE x == [Idle EXCEPT !.pc = "key", !.s = s]
<1>3. s \in Secrets \cup {0} /\ keys \in Nat /\ hist \in HistType
  BY Shapes DEF SecretsInv
<1>4. req \in [Requests -> ReqRec] /\ \A p \in Requests : req[p].key <= keys
  BY Rows DEF SecretsInv
<1>2. x \in ReqRec /\ x.pc = "key" /\ x.key = 0
  <2>1. Idle \in ReqRec /\ Idle.key = 0
    BY DEF Idle, ReqRec
  <2>2. QED
    BY <1>3, <2>1, ReqRecUpdate
<1> HIDE DEF x
<1>5. req'[q] = x /\ \A p \in Requests \ {q} : req'[p] = req[p]
  BY <1>1, <1>4 DEF x
<1>6. req' \in [Requests -> ReqRec] /\ \A p \in Requests : req'[p].key <= keys
  <2>1. req' = [req EXCEPT ![q] = x]
    BY <1>1 DEF x
  <2>2. QED
    BY <1>2, <1>3, <1>4, <1>5, <2>1
<1>7. UNCHANGED <<secretKey, keys, sec, svc, pubs, rot, writes, restarts, latest, hist>>
  BY DEF Ask, keyVars, rsaVars
<1>8. TypeOK' /\ CopiesFaithful' /\ OpensWithKey' /\ ValueKept'
  BY <1>3, <1>6, <1>7, RequestsOnly
<1>9. StoreHasKey'
  BY <1>2, <1>5 DEF SecretsInv, StoreHasKey
<1>10. OneKey'
  BY <1>2, <1>5, <1>7 DEF SecretsInv, OneKey
<1>11. QED
  BY <1>8, <1>9, <1>10 DEF SecretsInv

LEMMA GetKeyKeeps == ASSUME SecretsInv, NEW q \in Requests, GetKey(q) PROVE SecretsInv'
<1>s. /\ keys \in Nat /\ secretKey \in 0 .. keys /\ hist \in HistType
      /\ req \in [Requests -> ReqRec] /\ \A p \in Requests : req[p].key <= keys
  BY Shapes, Rows DEF SecretsInv
<1>7. UNCHANGED <<secretKey, keys, sec, svc, pubs, rot, writes, restarts, latest>>
  BY DEF GetKey, keyVars, rsaVars
<1>1. CASE secretKey # 0
  <2>1. hist' = hist /\ req' = [req EXCEPT ![q].pc = "store", ![q].key = secretKey]
    BY <1>1 DEF GetKey
  <2>2. /\ req'[q].pc = "store" /\ req'[q].key = secretKey /\ req'[q].s = req[q].s
        /\ \A p \in Requests \ {q} : req'[p] = req[p]
    BY <1>s, <2>1 DEF ReqRec
  <2>3. req' \in [Requests -> ReqRec] /\ \A p \in Requests : req'[p].key <= keys
    <3>1. req' = [req EXCEPT ![q] = [[req[q] EXCEPT !.pc = "store"] EXCEPT !.key = secretKey]]
      BY <1>s, <2>1
    <3>2. [[req[q] EXCEPT !.pc = "store"] EXCEPT !.key = secretKey] \in ReqRec
      <4>1. req[q] \in ReqRec /\ secretKey \in Nat
        BY <1>s
      <4>2. QED
        BY <4>1, ReqRecUpdate
    <3>3. QED
      BY <1>s, <2>2, <3>1, <3>2
  <2>4. TypeOK' /\ CopiesFaithful' /\ OpensWithKey' /\ ValueKept'
    BY <1>s, <1>7, <2>1, <2>3, RequestsOnly
  <2>5. StoreHasKey'
    BY <1>1, <2>2 DEF SecretsInv, StoreHasKey
  <2>6. OneKey'
    BY <1>7, <2>1, <2>2 DEF SecretsInv, OneKey
  <2>7. QED
    BY <2>4, <2>5, <2>6 DEF SecretsInv
<1>2. CASE secretKey = 0
  <2>1. /\ req' = [req EXCEPT ![q].pc = "create"]
        /\ hist' = [hist EXCEPT !.overlapped = hist.overlapped \/ Creating # {}]
    BY <1>2 DEF GetKey
  <2>2. /\ req'[q] = [req[q] EXCEPT !.pc = "create"]
        /\ req'[q].pc = "create" /\ req'[q].key = req[q].key
        /\ \A p \in Requests \ {q} : req'[p] = req[p]
    BY <1>s, <2>1 DEF ReqRec
  <2>3. req' \in [Requests -> ReqRec] /\ \A p \in Requests : req'[p].key <= keys
    <3>1. [req[q] EXCEPT !.pc = "create"] \in ReqRec
      BY <1>s DEF ReqRec
    <3>2. QED
      BY <1>s, <2>1, <2>2, <3>1
  <2>4. /\ hist' \in HistType /\ hist'.raced = hist.raced
        /\ hist.overlapped => hist'.overlapped
        /\ Creating # {} => hist'.overlapped
    BY <1>s, <2>1 DEF HistType
  <2>5. TypeOK' /\ CopiesFaithful' /\ OpensWithKey' /\ ValueKept'
    BY <1>7, <2>3, <2>4, RequestsOnly
  <2>6. StoreHasKey'
    BY <2>2 DEF SecretsInv, StoreHasKey
  <2>7. OneKey'
    <3> SUFFICES ASSUME ~hist'.overlapped PROVE OneKey'
      BY DEF OneKey
    <3>1. ~hist.overlapped /\ \A p \in Requests : req[p].pc # "create"
      BY <2>4 DEF Creating
    <3>2. \A p \in Requests : (req'[p].pc = "create") => p = q
      BY <2>2, <3>1
    <3>3. \A p \in Requests : req'[p].pc = "store" => req'[p].key = secretKey
      BY <2>2, <3>1 DEF SecretsInv, OneKey
    <3>4. QED
      BY <1>2, <1>7, <3>1, <3>2, <3>3 DEF SecretsInv, OneKey
  <2>8. QED
    BY <2>5, <2>6, <2>7 DEF SecretsInv
<1>3. QED
  BY <1>1, <1>2

LEMMA CreateKeyKeeps ==
  ASSUME SecretsInv, NEW q \in Requests, CreateKey(q) PROVE SecretsInv'
<1>s. /\ keys \in Nat /\ secretKey \in 0 .. keys /\ hist \in HistType
      /\ sec \in [Secrets -> Row] /\ rot \in RotType /\ writes \in Nat
      /\ rot.batch \subseteq Secrets /\ Live \subseteq Secrets
      /\ req \in [Requests -> ReqRec] /\ \A p \in Requests : req[p].key <= keys
      /\ \A s \in Secrets : sec[s].live => /\ sec[s].inner \in 1 .. keys
                                           /\ sec[s].outer # "none"
      /\ svc \in SUBSET {"old", "new"} /\ pubs \in SUBSET {"old", "new"}
      /\ restarts \in Nat /\ latest \in [Secrets -> Nat]
  BY Shapes, Rows DEF SecretsInv
<1>1. /\ keys' = keys + 1 /\ secretKey' = keys + 1 /\ req[q].pc = "create"
      /\ req' = [req EXCEPT ![q].pc = "store", ![q].key = keys + 1]
      /\ UNCHANGED <<sec, svc, pubs, rot, writes, restarts, latest, hist>>
  BY DEF CreateKey, rsaVars
<1>2. /\ req'[q].pc = "store" /\ req'[q].key = keys + 1
      /\ \A p \in Requests \ {q} : req'[p] = req[p]
  BY <1>s, <1>1 DEF ReqRec
<1>3. TypeOK'
  <2>1. req' = [req EXCEPT ![q] = [[req[q] EXCEPT !.pc = "store"] EXCEPT !.key = keys + 1]]
    BY <1>s, <1>1
  <2>2. [[req[q] EXCEPT !.pc = "store"] EXCEPT !.key = keys + 1] \in ReqRec
    <3>1. req[q] \in ReqRec /\ keys + 1 \in Nat
      BY <1>s
    <3>2. QED
      BY <3>1, ReqRecUpdate
  <2>3. req' \in [Requests -> ReqRec]
    BY <1>s, <2>1, <2>2
  <2>4. \A p \in Requests : req'[p].key <= keys'
    <3>1. \A p \in Requests : req[p].key \in Nat /\ req[p].key <= keys
      BY <1>s DEF ReqRec
    <3>2. QED
      BY <1>s, <1>1, <1>2, <3>1
  <2>5. \A s \in Secrets : sec'[s].live => /\ sec'[s].inner \in 1 .. keys'
                                           /\ sec'[s].outer # "none"
    BY <1>s, <1>1
  <2>6. keys' \in Nat /\ secretKey' \in 0 .. keys'
    BY <1>s, <1>1
  <2>7. QED
    BY <1>s, <1>1, <2>3, <2>4, <2>5, <2>6, TypesKept
<1>4. StoreHasKey'
  BY <1>s, <1>2 DEF SecretsInv, StoreHasKey
<1>5. CopiesFaithful'
  BY <1>s, <1>1 DEF SecretsInv, CopiesFaithful
(* As there was no key before, nothing was under one.                      *)
<1>6. ASSUME ~hist.overlapped
      PROVE  /\ \A p \in Requests \ {q} : req[p].pc # "create" /\ req[p].pc # "store"
             /\ rot.batch = {} /\ Live = {}
  <2>1. secretKey = 0
    BY <1>1, <1>6 DEF SecretsInv, OneKey
  <2>2. \A p \in Requests \ {q} : req[p].pc # "create"
    BY <1>1, <1>6 DEF SecretsInv, OneKey
  <2>3. \A p \in Requests : req[p].pc # "store"
    BY <1>6, <2>1 DEF SecretsInv, OneKey, StoreHasKey
  <2>4. rot.batch = {}
    <3>1. \A s \in rot.batch : rot.copy[s].inner \in 1 .. keys /\ rot.copy[s].inner = 0
      BY <1>6, <2>1 DEF SecretsInv, OneKey, CopiesFaithful
    <3>2. QED
      BY <3>1
  <2>5. Live = {}
    <3>1. \A s \in Live : sec[s].inner \in 1 .. keys /\ sec[s].inner = 0
      BY <1>6, <1>s, <2>1 DEF SecretsInv, OpensWithKey, Live
    <3>2. QED
      BY <3>1
  <2>6. QED
    BY <2>2, <2>3, <2>4, <2>5
<1>7. OneKey'
  BY <1>1, <1>2, <1>6 DEF OneKey
<1>8. OpensWithKey'
  BY <1>1, <1>6 DEF OpensWithKey, Live
<1>9. ValueKept'
  BY <1>1 DEF SecretsInv, ValueKept, Live
<1>10. QED
  BY <1>3, <1>4, <1>5, <1>7, <1>8, <1>9 DEF SecretsInv

LEMMA StoreKeeps == ASSUME SecretsInv, NEW q \in Requests, Store(q) PROVE SecretsInv'
<1>s. /\ keys \in Nat /\ secretKey \in 0 .. keys /\ hist \in HistType
      /\ sec \in [Secrets -> Row] /\ rot \in RotType /\ writes \in Nat
      /\ rot.batch \subseteq Secrets /\ Live \subseteq Secrets
      /\ Secrets \subseteq Nat /\ 0 \notin Secrets
      /\ req \in [Requests -> ReqRec] /\ \A p \in Requests : req[p].key <= keys
      /\ \A s \in Secrets : sec[s].live => /\ sec[s].inner \in 1 .. keys
                                           /\ sec[s].outer # "none"
      /\ svc \in SUBSET {"old", "new"} /\ pubs \in SUBSET {"old", "new"}
      /\ restarts \in Nat /\ latest \in [Secrets -> Nat]
  BY Shapes, Rows DEF SecretsInv
<1> DEFINE new == {x \in Secrets : sec[x] = NoSecret}
           s == IF req[q].s # 0 THEN req[q].s ELSE Min(new)
           v == writes + 1
           k == req[q].key
<1>1. /\ req[q].pc = "store" /\ req' = [req EXCEPT ![q] = Idle]
      /\ UNCHANGED <<secretKey, keys, svc, pubs, rot, restarts>>
  BY DEF Store, keyVars, rsaVars
<1>2. req'[q].pc = "idle" /\ \A p \in Requests \ {q} : req'[p] = req[p]
  BY <1>s, <1>1 DEF Idle
<1>3. req' \in [Requests -> ReqRec] /\ \A p \in Requests : req'[p].key <= keys
  <2>1. Idle \in ReqRec /\ Idle.key = 0 /\ 0 <= keys
    BY <1>s DEF Idle, ReqRec
  <2>2. QED
    BY <1>s, <1>1, <2>1
<1>4. StoreHasKey'
  BY <1>2 DEF SecretsInv, StoreHasKey
<1>5. CASE UNCHANGED <<sec, latest, writes, hist>>
  <2>1. TypeOK' /\ CopiesFaithful' /\ OpensWithKey' /\ ValueKept'
    BY <1>s, <1>1, <1>3, <1>5, RequestsOnly
  <2>2. OneKey'
    BY <1>1, <1>2, <1>5 DEF SecretsInv, OneKey
  <2>3. QED
    BY <1>4, <2>1, <2>2 DEF SecretsInv
<1>6. CASE /\ (req[q].s = 0 /\ new # {}) \/ req[q].s \in Live
           /\ \E p \in pubs :
                 /\ sec' = [sec EXCEPT ![s] = Encrypted(v, k, p)]
                 /\ latest' = [latest EXCEPT ![s] = v]
                 /\ writes' = v
                 /\ hist' = [hist EXCEPT
                      !.raced = IF s \in rot.batch THEN @ \cup {s} ELSE @,
                      !.outdated = IF p = "old" THEN @ \cup {s} ELSE @ \ {s}]
  <2>1. s \in Secrets
    <3>1. new \in SUBSET Nat /\ new \subseteq Secrets
      BY <1>s
    <3>2. new # {} => Min(new) \in new
      BY <3>1, MinIsMember
    <3>3. QED
      BY <1>s, <1>6, <3>1, <3>2
  <2> HIDE DEF s
  <2>2. PICK p \in pubs :
          /\ sec' = [sec EXCEPT ![s] = Encrypted(v, k, p)]
          /\ latest' = [latest EXCEPT ![s] = v]
          /\ writes' = v
          /\ hist' = [hist EXCEPT
               !.raced = IF s \in rot.batch THEN @ \cup {s} ELSE @,
               !.outdated = IF p = "old" THEN @ \cup {s} ELSE @ \ {s}]
    BY <1>6
  <2>3. p \in {"old", "new"} /\ v \in Nat /\ k \in 1 .. keys
    <3>1. p \in {"old", "new"} /\ v \in Nat
      BY <1>s
    <3>2. k \in Nat /\ k # 0 /\ k <= keys
      BY <1>s, <1>1 DEF SecretsInv, StoreHasKey, ReqRec
    <3>3. QED
      BY <1>s, <3>1, <3>2
  <2>4. Encrypted(v, k, p) \in Row
    BY <2>3, RowTypes
  <2>5. /\ sec' \in [Secrets -> Row]
        /\ sec'[s] = Encrypted(v, k, p)
        /\ \A t \in Secrets \ {s} : sec'[t] = sec[t]
    BY <1>s, <2>1, <2>2, <2>4
  <2>6. /\ sec'[s].live /\ sec'[s].val = v /\ sec'[s].inner = k /\ sec'[s].outer = p
    BY <2>5 DEF Encrypted
  <2>7. /\ latest' \in [Secrets -> Nat] /\ latest'[s] = v
        /\ \A t \in Secrets \ {s} : latest'[t] = latest[t]
    BY <1>s, <2>1, <2>2, <2>3
  <2>8. /\ hist' \in HistType /\ hist'.overlapped = hist.overlapped
        /\ hist.raced \subseteq hist'.raced
        /\ s \in rot.batch => s \in hist'.raced
    BY <1>s, <2>1, <2>2 DEF HistType
  <2>9. TypeOK'
    <3>1. \A t \in Secrets : sec'[t].live => /\ sec'[t].inner \in 1 .. keys
                                             /\ sec'[t].outer # "none"
      BY <1>s, <2>3, <2>5, <2>6
    <3>2. QED
      BY <1>s, <1>1, <1>3, <2>2, <2>3, <2>5, <2>7, <2>8, <3>1, TypesKept
  <2>10. CopiesFaithful'
    BY <1>s, <1>1, <2>7, <2>8 DEF SecretsInv, CopiesFaithful
  <2>11. OneKey'
    BY <1>1, <1>2, <2>8 DEF SecretsInv, OneKey
  <2>12. OpensWithKey'
    <3>1. ~hist.overlapped => k = secretKey
      BY <1>1 DEF SecretsInv, OneKey
    <3>2. QED
      BY <1>1, <2>5, <2>6, <2>8, <3>1 DEF SecretsInv, OpensWithKey, Live
  <2>13. ValueKept'
    BY <2>5, <2>6, <2>7, <2>8 DEF SecretsInv, ValueKept, Live
  <2>14. QED
    BY <1>4, <2>9, <2>10, <2>11, <2>12, <2>13 DEF SecretsInv
<1>7. QED
  BY <1>5, <1>6 DEF Store

LEMMA DeleteKeeps == ASSUME SecretsInv, NEW s \in Secrets, Delete(s) PROVE SecretsInv'
<1>s. TypeOK /\ sec \in [Secrets -> Row] /\ hist \in HistType
  BY Shapes DEF SecretsInv
<1>1. /\ sec' = [sec EXCEPT ![s].live = FALSE]
      /\ hist' = [hist EXCEPT !.deleted = TRUE]
      /\ UNCHANGED <<secretKey, keys, svc, pubs, rot, req, writes, restarts, latest>>
  BY DEF Delete, keyVars, rsaVars
<1>2. sec' \in [Secrets -> Row] /\ \A t \in Secrets : sec'[t].live => sec'[t] = sec[t]
  BY <1>s, <1>1 DEF Row
<1>3. /\ hist' \in HistType /\ hist'.overlapped = hist.overlapped
      /\ hist'.raced = hist.raced
  BY <1>s, <1>1 DEF HistType
<1>4. TypeOK'
  BY <1>s, <1>1, <1>2, <1>3, Shapes, Rows, TypesKept
<1>5. StoreHasKey' /\ CopiesFaithful' /\ OneKey'
  BY <1>1, <1>3 DEF SecretsInv, StoreHasKey, CopiesFaithful, OneKey
<1>6. OpensWithKey' /\ ValueKept'
  BY <1>1, <1>2, <1>3 DEF SecretsInv, OpensWithKey, ValueKept, Live
<1>7. QED
  BY <1>4, <1>5, <1>6 DEF SecretsInv

-----------------------------------------------------------------------------
(* Steps of the rotation.                                                  *)

LEMMA RotatesKeeps ==
  ASSUME SecretsInv, Rotates, svc' \in SUBSET {"old", "new"}, restarts' \in Nat,
         UNCHANGED <<secretKey, keys, sec, pubs, req, writes, latest>>
  PROVE  SecretsInv'
<1>1. rot' \in RotType /\ rot'.batch = {}
  BY DEF Rotates, RotIdle, RotType, NoSecret, Row
<1>2. /\ hist' \in HistType /\ hist'.overlapped = hist.overlapped
      /\ hist'.raced = hist.raced
  BY Shapes DEF Rotates, SecretsInv, HistType
<1>3. TypeOK'
  BY <1>1, <1>2, Shapes, Rows, TypesKept DEF SecretsInv
<1>4. StoreHasKey' /\ CopiesFaithful' /\ OneKey'
  BY <1>1, <1>2 DEF SecretsInv, StoreHasKey, CopiesFaithful, OneKey
<1>5. OpensWithKey' /\ ValueKept'
  BY <1>2 DEF SecretsInv, OpensWithKey, ValueKept, Live
<1>6. QED
  BY <1>3, <1>4, <1>5 DEF SecretsInv

LEMMA RollOutKeeps == ASSUME SecretsInv, RollOut PROVE SecretsInv'
<1>1. /\ pubs' \in SUBSET {"old", "new"}
      /\ UNCHANGED <<secretKey, keys, sec, svc, rot, req, writes, restarts, latest, hist>>
  BY DEF RollOut, keyVars
<1>2. TypeOK'
  BY <1>1, Shapes, Rows, TypesKept DEF SecretsInv
<1>3. QED
  BY <1>1, <1>2 DEF SecretsInv, StoreHasKey, CopiesFaithful, OneKey, OpensWithKey,
                    ValueKept, Live

LEMMA ReadBatchKeeps == ASSUME SecretsInv, ReadBatch PROVE SecretsInv'
<1> DEFINE B == Batch(rot.offset)
           behind == Behind(B)
<1>s. sec \in [Secrets -> Row] /\ rot \in RotType /\ Live \subseteq Secrets
      /\ hist \in HistType /\ \A s \in Secrets : sec[s].live => sec[s].inner \in 1 .. keys
  BY Shapes, Rows DEF SecretsInv
<1>1. UNCHANGED <<secretKey, keys, sec, svc, pubs, req, writes, restarts, latest>>
  BY DEF ReadBatch, keyVars, rsaVars
<1>2. B \subseteq Live
  BY DEF Batch
<1>f. PICK failing \in SUBSET behind :
        /\ rot' = IF B = {} THEN [rot EXCEPT !.pc = "done"]
                  ELSE [rot EXCEPT !.pc = "write",
                                   !.batch = behind \ failing,
                                   !.copy = [s \in Secrets |->
                                     IF s \in B THEN sec[s] ELSE NoSecret]]
        /\ hist' = [hist EXCEPT !.skipped = @ \cup failing]
  BY DEF ReadBatch
<1>b. behind \subseteq B /\ behind \subseteq Secrets
  BY <1>s, <1>2 DEF Behind
<1> HIDE DEF B, behind
<1>h. /\ hist' \in HistType /\ hist'.overlapped = hist.overlapped
      /\ hist'.raced = hist.raced
  BY <1>s, <1>b, <1>f DEF HistType
<1>3. CASE rot' = [rot EXCEPT !.pc = "done"]
  <2>1. rot' \in RotType /\ rot'.batch = rot.batch /\ rot'.copy = rot.copy
    BY <1>s, <1>3 DEF RotType
  <2>2. TypeOK'
    BY <1>1, <1>h, <2>1, Shapes, Rows, TypesKept DEF SecretsInv
  <2>3. QED
    BY <1>1, <1>h, <2>1, <2>2 DEF SecretsInv, StoreHasKey, CopiesFaithful, OneKey,
                                  OpensWithKey, ValueKept, Live
<1>4. CASE rot' = [rot EXCEPT !.pc = "write",
                              !.batch = behind \ failing,
                              !.copy = [s \in Secrets |->
                                IF s \in B THEN sec[s] ELSE NoSecret]]
  <2>1. [s \in Secrets |-> IF s \in B THEN sec[s] ELSE NoSecret] \in [Secrets -> Row]
    BY <1>s, RowTypes
  <2>2. behind \ failing \in SUBSET Secrets
    BY <1>b
  <2>3. /\ rot' \in RotType /\ rot'.batch \subseteq B
        /\ rot'.copy = [s \in Secrets |-> IF s \in B THEN sec[s] ELSE NoSecret]
    BY <1>s, <1>b, <1>4, <2>1, <2>2 DEF RotType
  <2>4. \A s \in rot'.batch : rot'.copy[s] = sec[s] /\ s \in Live
    BY <1>s, <1>2, <2>3
  <2>5. TypeOK'
    BY <1>1, <1>h, <2>3, Shapes, Rows, TypesKept DEF SecretsInv
  <2>6. CopiesFaithful'
    BY <1>1, <1>h, <1>s, <2>4 DEF SecretsInv, CopiesFaithful, ValueKept, Live
  <2>7. OneKey'
    BY <1>1, <1>h, <2>4 DEF SecretsInv, OneKey, OpensWithKey
  <2>8. QED
    BY <1>1, <1>h, <2>5, <2>6, <2>7 DEF SecretsInv, StoreHasKey, OpensWithKey,
                                        ValueKept, Live
<1>5. QED
  BY <1>3, <1>4, <1>f

LEMMA WriteBatchKeeps == ASSUME SecretsInv, WriteBatch PROVE SecretsInv'
<1>s. /\ sec \in [Secrets -> Row] /\ rot \in RotType
      /\ rot.batch \subseteq Secrets /\ BatchSize \in Nat
      /\ \A s \in Secrets : sec[s].live => /\ sec[s].inner \in 1 .. keys
                                           /\ sec[s].outer # "none"
  BY Shapes, Rows, SecretsAssumption DEF SecretsInv
<1>1. UNCHANGED <<secretKey, keys, svc, pubs, req, writes, restarts, latest, hist>>
  BY DEF WriteBatch, keyVars, rsaVars
<1>2. rot' \in RotType /\ rot'.batch = {}
  <2>1. rot.offset + BatchSize \in Nat
    BY <1>s DEF RotType
  <2>2. \/ rot' = [RotIdle EXCEPT !.pc = "read", !.offset = rot.offset + BatchSize]
        \/ rot' = [RotIdle EXCEPT !.pc = "errored"]
    BY DEF WriteBatch
  <2>3. RotIdle \in RotType /\ RotIdle.batch = {}
    BY RowTypes
  <2>4. QED
    BY <2>1, <2>2, <2>3 DEF RotType
<1>3. CASE sec' = sec
  <2>1. TypeOK'
    BY <1>1, <1>2, <1>3, Shapes, Rows, TypesKept DEF SecretsInv
  <2>2. QED
    BY <1>1, <1>2, <1>3, <2>1 DEF SecretsInv, StoreHasKey, CopiesFaithful, OneKey,
                                  OpensWithKey, ValueKept, Live
<1>4. CASE sec' = [s \in Secrets |->
                     IF s \in rot.batch
                     THEN [rot.copy[s] EXCEPT !.outer = "new"] ELSE sec[s]]
  <2>1. \A s \in rot.batch : rot.copy[s] \in Row
    BY <1>s DEF RotType
  <2>2. ASSUME NEW s \in rot.batch
        PROVE  /\ sec'[s] \in Row /\ sec'[s].outer = "new"
               /\ sec'[s].inner = rot.copy[s].inner /\ sec'[s].val = rot.copy[s].val
    <3>1. sec'[s] = [rot.copy[s] EXCEPT !.outer = "new"]
      BY <1>s, <1>4
    <3>2. QED
      BY <2>1, <3>1 DEF Row
  <2>3. \A s \in Secrets \ rot.batch : sec'[s] = sec[s]
    BY <1>4
  <2>4. sec' \in [Secrets -> Row]
    BY <1>s, <1>4, <2>2, <2>3
  <2>5. \A s \in Secrets : sec'[s].live => /\ sec'[s].inner \in 1 .. keys
                                           /\ sec'[s].outer # "none"
    BY <1>s, <2>2, <2>3 DEF SecretsInv, CopiesFaithful
  <2>6. TypeOK'
    BY <1>1, <1>2, <2>4, <2>5, Shapes, Rows, TypesKept DEF SecretsInv
  <2>7. StoreHasKey' /\ CopiesFaithful' /\ OneKey'
    BY <1>1, <1>2 DEF SecretsInv, StoreHasKey, CopiesFaithful, OneKey
  <2>8. OpensWithKey'
    BY <1>1, <2>2, <2>3 DEF SecretsInv, OneKey, OpensWithKey, Live
  <2>9. ValueKept'
    BY <1>1, <2>2, <2>3 DEF SecretsInv, CopiesFaithful, ValueKept, Live
  <2>10. QED
    BY <2>6, <2>7, <2>8, <2>9 DEF SecretsInv
<1>5. QED
  BY <1>3, <1>4 DEF WriteBatch

-----------------------------------------------------------------------------

LEMMA SecretsInvStep == SecretsInv /\ [Next]_vars => SecretsInv'
<1> SUFFICES ASSUME SecretsInv, [Next]_vars PROVE SecretsInv'
  OBVIOUS
<1>1. CASE Deploy
  BY <1>1, RotatesKeeps, Rows DEF Deploy, SecretsInv, keyVars
<1>2. CASE Restart
  <2>1. restarts' \in Nat /\ svc' \in SUBSET {"old", "new"}
    BY <1>2, Rows DEF Restart, SecretsInv, rsaVars
  <2>2. QED
    BY <1>2, <2>1, RotatesKeeps DEF Restart, keyVars, rsaVars
<1>3. CASE UNCHANGED vars
  BY <1>3 DEF vars, SecretsInv, TypeOK, StoreHasKey, CopiesFaithful, OneKey,
              OpensWithKey, ValueKept, Live
<1>4. QED
  BY <1>1, <1>2, <1>3, AskKeeps, GetKeyKeeps, CreateKeyKeeps, StoreKeeps,
     DeleteKeeps, RollOutKeeps, ReadBatchKeeps, WriteBatchKeeps DEF Next

LEMMA SecretsInvCorrect == Spec => []SecretsInv
BY SecretsInvInit, SecretsInvStep, PTL DEF Spec

(* Every secret there is was encrypted with a key that was made before.    *)
THEOREM SecretsTypeCorrect == Spec => []TypeOK
<1>1. SecretsInv => TypeOK
  BY DEF SecretsInv
<1>2. QED
  BY <1>1, SecretsInvCorrect, PTL

(* As long as no two requests found no key, the user's key opens every     *)
(* secret: also those that the rotation wrote from its copies.             *)
THEOREM KeyOpensSecrets == Spec => []OpensWithKey
<1>1. SecretsInv => OpensWithKey
  BY DEF SecretsInv
<1>2. QED
  BY <1>1, SecretsInvCorrect, PTL

(* The rotation brings no old value back, through crashes and deletions,   *)
(* but that of a secret which was stored while it was in a batch.          *)
THEOREM RotationKeepsValues == Spec => []ValueKept
<1>1. SecretsInv => ValueKept
  BY DEF SecretsInv
<1>2. QED
  BY <1>1, SecretsInvCorrect, PTL

-----------------------------------------------------------------------------
(* The rotation pages by an offset into the rows in the order of their     *)
(* ids.  As long as no row is deleted a secret keeps its rank, because new *)
(* secrets come last.                                                      *)

Rank(s) == Cardinality({x \in Live : x < s})
Fine(s) == sec[s].outer = "new" \/ s \in hist.outdated \cup hist.skipped

NewComeLast ==
    \A x, y \in Secrets : sec[x] = NoSecret /\ sec[y] # NoSecret => y < x

PassedFine ==
    ~hist.deleted =>
       /\ rot.pc = "read" => \A s \in Live : Rank(s) < rot.offset => Fine(s)
       /\ rot.pc = "write" =>
             \A s \in Live : Rank(s) < rot.offset + BatchSize =>
                                Fine(s) \/ s \in rot.batch
       /\ rot.pc = "done" => \A s \in Live : Fine(s)

PageInv == SecretsInv /\ NewComeLast /\ PassedFine

LEMMA RankType ==
  ASSUME TypeOK, NEW s \in Secrets
  PROVE  IsFiniteSet({x \in Live : x < s}) /\ Rank(s) \in Nat
<1>1. {x \in Live : x < s} \subseteq Secrets /\ IsFiniteSet(Secrets)
  BY SecretsAssumption DEF Live
<1>2. QED
  BY <1>1, FS_Subset, FS_CardinalityType DEF Rank

(* An empty page has nothing behind it: the first secret behind it would   *)
(* come right after the one before it, and so be on the page.              *)
LEMMA NothingBehind ==
  ASSUME TypeOK, NEW n \in Nat, Batch(n) = {}, NEW t \in Live
  PROVE  Rank(t) < n
<1> DEFINE T == {x \in Live : ~(Rank(x) < n)}
<1>0. Live \subseteq Secrets /\ Secrets \subseteq Nat /\ BatchSize \in Nat \ {0}
  BY SecretsAssumption DEF Live
<1> SUFFICES ASSUME t \in T PROVE FALSE
  OBVIOUS
<1>1. PICK m \in T : \A x \in T : <<x, m>> \notin Less
  <2>1. T \subseteq Nat /\ T # {}
    BY <1>0
  <2> HIDE DEF T
  <2>2. QED
    BY <2>1, LessWellFounded, WFMin
<1> DEFINE D == {x \in Live : x < m}
<1>2. /\ m \in Live /\ m \in Nat /\ m \in Secrets /\ Rank(m) \in Nat
      /\ Rank(m) >= n /\ Rank(m) = Cardinality(D) /\ IsFiniteSet(D)
  <2>1. m \in Live /\ m \in Secrets /\ m \in Nat /\ ~(Rank(m) < n)
    BY <1>0, <1>1
  <2>2. Rank(m) \in Nat /\ IsFiniteSet(D)
    BY <2>1, RankType
  <2>3. QED
    BY <2>1, <2>2 DEF Rank
<1>3. ASSUME NEW x \in D PROVE Rank(x) \in Nat /\ Rank(x) < n /\ x \in Nat /\ x \in Live
  <2>1. x \in Live /\ x < m /\ x \in Nat /\ x \in Secrets
    BY <1>0, <1>3
  <2>2. <<x, m>> \in Less
    BY <1>2, <2>1 DEF Less
  <2>3. x \notin T
    BY <1>1, <2>2
  <2>4. QED
    BY <2>1, <2>3, RankType
<1>4. Rank(m) <= n
  <2>1. CASE D = {}
    BY <1>2, <2>1, FS_EmptySet
  <2>2. CASE D # {}
    <3> DEFINE K == {m - x : x \in D}
    <3>1. \A x \in D : x \in Nat /\ x < m
      BY <1>3
    <3>2. K \subseteq Nat /\ K # {}
      <4>1. ASSUME NEW x \in D PROVE m - x \in Nat
        <5>1. x \in Nat /\ x < m
          BY <3>1
        <5>2. QED
          BY <1>2, <5>1
      <4>2. QED
        BY <2>2, <4>1
    <3>3. PICK k \in K : \A j \in K : <<j, k>> \notin Less
      <4> HIDE DEF K
      <4>1. QED
        BY <3>2, LessWellFounded, WFMin
    <3>4. PICK d \in D : k = m - d
      BY <3>3
    <3>5. ASSUME NEW x \in D PROVE x <= d
      <4>1. m - x \in K /\ m - x \in Nat /\ k \in Nat
        BY <3>2, <3>3
      <4>2. ~(m - x < k)
        BY <3>3, <4>1 DEF Less
      <4>3. QED
        BY <1>2, <3>1, <3>4, <4>2
    <3>6. D = {x \in Live : x < d} \cup {d} /\ d \notin {x \in Live : x < d}
      <4>1. d \in Live /\ d \in Nat /\ d < m
        BY <3>1, <3>4
      <4>2. ASSUME NEW x \in Live PROVE x < m <=> x < d \/ x = d
        <5>1. x \in Nat /\ (x < m => x <= d)
          BY <1>0, <3>5
        <5>2. QED
          BY <1>2, <4>1, <5>1
      <4>3. D \subseteq {x \in Live : x < d} \cup {d}
        BY <4>2
      <4>4. {x \in Live : x < d} \cup {d} \subseteq D
        BY <3>4, <4>2
      <4>5. d \notin {x \in Live : x < d}
        BY <4>1
      <4>6. QED
        BY <4>3, <4>4, <4>5
    <3>7. IsFiniteSet({x \in Live : x < d})
      BY <1>0, <1>3, <3>4, RankType
    <3>8. Cardinality(D) = Rank(d) + 1
      BY <3>6, <3>7, FS_AddElement DEF Rank
    <3>9. Rank(d) \in Nat /\ Rank(d) < n
      BY <1>3, <3>4
    <3>10. QED
      BY <1>2, <3>8, <3>9
  <2>3. QED
    BY <2>1, <2>2
<1>5. m \in Batch(n)
  <2>1. Rank(m) \in n .. n + BatchSize - 1
    BY <1>0, <1>2, <1>4
  <2>2. QED
    BY <1>2, <2>1 DEF Batch, Rank
<1>6. QED
  BY <1>5

LEMMA PageInit == Init => PageInv
<1> SUFFICES ASSUME Init PROVE PageInv
  OBVIOUS
<1>1. NewComeLast /\ PassedFine
  BY DEF Init, NewComeLast, PassedFine, RotIdle
<1>2. QED
  BY <1>1, SecretsInvInit DEF PageInv

(* Steps that leave rows and rotation alone.                               *)
LEMMA PageFrame ==
  ASSUME PageInv, UNCHANGED <<sec, rot>>, hist'.deleted = hist.deleted,
         hist'.outdated = hist.outdated, hist'.skipped = hist.skipped
  PROVE  NewComeLast' /\ PassedFine'
BY DEF PageInv, NewComeLast, PassedFine, Rank, Fine, Live

LEMMA PageStore ==
  ASSUME PageInv, NEW q \in Requests, Store(q) PROVE NewComeLast' /\ PassedFine'
<1>s. /\ sec \in [Secrets -> Row] /\ rot \in RotType /\ hist \in HistType
      /\ Live \subseteq Secrets /\ Secrets \subseteq Nat /\ 0 \notin Secrets
      /\ pubs \in SUBSET {"old", "new"}
  BY Shapes, Rows DEF PageInv, SecretsInv
<1> DEFINE new == {x \in Secrets : sec[x] = NoSecret}
           s == IF req[q].s # 0 THEN req[q].s ELSE Min(new)
           v == writes + 1
           k == req[q].key
<1>1. UNCHANGED rot
  BY DEF Store
<1>2. CASE UNCHANGED <<sec, latest, writes, hist>>
  BY <1>1, <1>2, PageFrame
<1>3. CASE /\ (req[q].s = 0 /\ new # {}) \/ req[q].s \in Live
           /\ \E p \in pubs :
                 /\ sec' = [sec EXCEPT ![s] = Encrypted(v, k, p)]
                 /\ latest' = [latest EXCEPT ![s] = v]
                 /\ writes' = v
                 /\ hist' = [hist EXCEPT
                      !.raced = IF s \in rot.batch THEN @ \cup {s} ELSE @,
                      !.outdated = IF p = "old" THEN @ \cup {s} ELSE @ \ {s}]
  <2>1. s \in Live \/ (s \in new /\ \A x \in new : s <= x)
    <3>1. new \in SUBSET Nat
      BY <1>s
    <3>2. new # {} => Min(new) \in new /\ \A x \in new : Min(new) <= x
      BY <3>1, MinIsMember
    <3>3. QED
      BY <1>s, <1>3, <3>2
  <2>2. s \in Secrets
    BY <1>s, <2>1
  <2>3. s \in new => \A t \in Live : t < s
    <3>1. \A t \in Live : sec[t] # NoSecret
      BY DEF Live, NoSecret
    <3>2. QED
      BY <1>s, <3>1 DEF PageInv, NewComeLast
  <2>u. PICK u \in Secrets : u = s
    BY <2>2
  <2> HIDE DEF s
  <2>4. PICK p \in pubs :
          /\ sec' = [sec EXCEPT ![u] = Encrypted(v, k, p)]
          /\ hist' = [hist EXCEPT
               !.raced = IF u \in rot.batch THEN @ \cup {u} ELSE @,
               !.outdated = IF p = "old" THEN @ \cup {u} ELSE @ \ {u}]
    BY <1>3, <2>u
  <2>5. /\ sec'[u] = Encrypted(v, k, p)
        /\ \A t \in Secrets \ {u} : sec'[t] = sec[t]
    BY <1>s, <2>2, <2>4
  <2>6. sec'[u].live /\ sec'[u].outer = p /\ p \in {"old", "new"}
    BY <1>s, <2>5 DEF Encrypted
  <2>7. /\ hist'.deleted = hist.deleted /\ hist'.skipped = hist.skipped
        /\ hist'.outdated = IF p = "old" THEN hist.outdated \cup {u}
                                         ELSE hist.outdated \ {u}
    BY <1>s, <2>4 DEF HistType
  <2>8. Fine(u)'
    BY <2>6, <2>7 DEF Fine
  <2>9. \A t \in Live \ {u} : Fine(t) => Fine(t)'
    BY <1>s, <2>5, <2>7 DEF Fine
  <2>10. Live' = Live \cup {u}
    BY <1>s, <2>2, <2>5, <2>6 DEF Live
  <2>11. ASSUME NEW t \in Live PROVE Rank(t)' = Rank(t)
    <3>1. ~(u < t) \/ u \in Live
      BY <1>s, <2>1, <2>2, <2>3, <2>u
    <3>2. {x \in Live' : x < t} = {x \in Live : x < t}
      BY <2>10, <3>1
    <3>3. QED
      BY <3>2 DEF Rank
  <2>12. NewComeLast'
    <3> SUFFICES ASSUME NEW x \in Secrets, NEW y \in Secrets,
                        sec'[x] = NoSecret, sec'[y] # NoSecret
                 PROVE  y < x
      BY DEF NewComeLast
    <3>1. x # u /\ sec[x] = NoSecret
      BY <2>5, <2>6 DEF NoSecret
    <3>2. CASE y # u
      BY <2>5, <3>1, <3>2 DEF PageInv, NewComeLast
    <3>3. CASE y = u
      <4>1. CASE u \in Live
        BY <3>1, <3>3, <4>1, <2>2 DEF PageInv, NewComeLast, Live, NoSecret
      <4>2. CASE u \notin Live
        BY <1>s, <2>1, <2>2, <2>u, <3>1, <3>3, <4>2
      <4>3. QED
        BY <4>1, <4>2
    <3>4. QED
      BY <3>2, <3>3
  <2>13. PassedFine'
    <3>1. \A t \in Live' : t = u \/ (t \in Live /\ t # u)
      BY <2>10
    <3>2. QED
      BY <1>1, <2>7, <2>8, <2>9, <2>11, <3>1 DEF PageInv, PassedFine
  <2>14. QED
    BY <2>12, <2>13
<1>4. QED
  BY <1>2, <1>3 DEF Store

LEMMA PageDelete ==
  ASSUME PageInv, NEW s \in Secrets, Delete(s) PROVE NewComeLast' /\ PassedFine'
<1>s. sec \in [Secrets -> Row] /\ hist \in HistType /\ keys \in Nat
  BY Shapes DEF PageInv, SecretsInv
<1>1. sec' = [sec EXCEPT ![s].live = FALSE] /\ hist' = [hist EXCEPT !.deleted = TRUE]
  BY DEF Delete
<1>2. hist'.deleted
  BY <1>s, <1>1 DEF HistType
<1>3. sec[s].inner \in 1 .. keys /\ sec[s] # NoSecret
  BY DEF Delete, PageInv, SecretsInv, TypeOK, Live, NoSecret
<1>4. /\ sec'[s].inner = sec[s].inner
      /\ \A t \in Secrets \ {s} : sec'[t] = sec[t]
  BY <1>s, <1>1 DEF Row
<1>5. sec'[s] # NoSecret
  BY <1>s, <1>3, <1>4 DEF NoSecret
<1>6. NewComeLast'
  BY <1>3, <1>4, <1>5 DEF PageInv, NewComeLast
<1>7. QED
  BY <1>2, <1>6 DEF PassedFine

LEMMA PageRotates ==
  ASSUME PageInv, Rotates, UNCHANGED sec PROVE NewComeLast' /\ PassedFine'
<1>1. rot'.pc = "read" /\ rot'.offset = 0
  BY DEF Rotates, RotIdle
<1>2. ASSUME NEW s \in Live PROVE ~(Rank(s) < 0)
  <2>1. Rank(s) \in Nat
    BY RankType DEF PageInv, SecretsInv, Live
  <2>2. QED
    BY <2>1
<1>3. Live' = Live /\ \A s \in Live : Rank(s)' = Rank(s)
  BY DEF Live, Rank
<1>4. NewComeLast'
  BY DEF PageInv, NewComeLast
<1>5. QED
  BY <1>1, <1>2, <1>3, <1>4 DEF PassedFine

LEMMA PageRead ==
  ASSUME PageInv, ReadBatch PROVE NewComeLast' /\ PassedFine'
<1> DEFINE B == Batch(rot.offset)
           behind == Behind(B)
<1>s. /\ TypeOK /\ rot \in RotType /\ sec \in [Secrets -> Row] /\ hist \in HistType
      /\ Live \subseteq Secrets /\ BatchSize \in Nat \ {0} /\ rot.offset \in Nat
      /\ \A s \in Live : sec[s].outer # "none"
  BY Shapes, Rows, SecretsAssumption DEF PageInv, SecretsInv, RotType, Live
<1>1. UNCHANGED sec /\ rot.pc = "read"
  BY DEF ReadBatch
<1>f. PICK failing \in SUBSET behind :
        /\ rot' = IF B = {} THEN [rot EXCEPT !.pc = "done"]
                  ELSE [rot EXCEPT !.pc = "write",
                                   !.batch = behind \ failing,
                                   !.copy = [s \in Secrets |->
                                     IF s \in B THEN sec[s] ELSE NoSecret]]
        /\ hist' = [hist EXCEPT !.skipped = @ \cup failing]
  BY DEF ReadBatch
<1>b. \A s \in B : sec[s].outer = "old" => s \in behind
  BY DEF Behind
<1>B. \A s \in Live : Rank(s) \in rot.offset .. rot.offset + BatchSize - 1 => s \in B
  BY DEF Batch, Rank
<1>e. B = {} => \A s \in Live : Rank(s) < rot.offset
  BY <1>s, NothingBehind
<1> HIDE DEF B, behind
<1>h. /\ hist'.deleted = hist.deleted /\ hist'.outdated = hist.outdated
      /\ hist'.skipped = hist.skipped \cup failing
  BY <1>s, <1>f DEF HistType
<1>2. /\ NewComeLast' /\ Live' = Live
      /\ \A s \in Live : (Fine(s) => Fine(s)') /\ Rank(s)' = Rank(s)
  BY <1>1, <1>h DEF PageInv, NewComeLast, Fine, Live, Rank
<1>3. CASE B = {}
  <2>1. rot'.pc = "done"
    BY <1>s, <1>f, <1>3 DEF RotType
  <2>2. \A s \in Live : Rank(s) < rot.offset
    BY <1>3, <1>e
  <2>3. QED
    BY <1>1, <1>h, <1>2, <2>1, <2>2 DEF PageInv, PassedFine
<1>4. CASE B # {}
  <2>1. /\ rot'.pc = "write" /\ rot'.offset = rot.offset
        /\ rot'.batch = behind \ failing
    BY <1>s, <1>f, <1>4 DEF RotType
  <2>2. ASSUME NEW s \in Live, Rank(s) < rot.offset + BatchSize, ~hist.deleted
        PROVE  Fine(s)' \/ s \in rot'.batch
    <3>1. Rank(s) \in Nat
      BY <1>s, RankType
    <3>2. CASE Rank(s) < rot.offset
      BY <1>1, <1>2, <2>2, <3>2 DEF PageInv, PassedFine
    <3>3. CASE ~(Rank(s) < rot.offset)
      <4>1. Rank(s) \in rot.offset .. rot.offset + BatchSize - 1
        BY <1>s, <2>2, <3>1, <3>3
      <4>2. s \in B
        BY <1>B, <4>1
      <4>3. sec[s].outer \in {"old", "new"}
        BY <1>s DEF Row
      <4>4. sec[s].outer = "new" \/ s \in failing \/ s \in behind \ failing
        BY <1>b, <4>2, <4>3
      <4>5. QED
        BY <1>1, <1>h, <2>1, <4>4 DEF Fine
    <3>4. QED
      BY <3>2, <3>3
  <2>3. QED
    BY <1>h, <1>2, <2>1, <2>2 DEF PassedFine
<1>5. QED
  BY <1>3, <1>4

LEMMA PageWrite ==
  ASSUME PageInv, WriteBatch PROVE NewComeLast' /\ PassedFine'
<1>s. /\ rot \in RotType /\ sec \in [Secrets -> Row] /\ rot.batch \subseteq Secrets
      /\ BatchSize \in Nat /\ rot.offset \in Nat
      /\ \A s \in rot.batch : rot.copy[s].live /\ rot.copy[s] \in Row
  BY Shapes, SecretsAssumption DEF PageInv, SecretsInv, CopiesFaithful, RotType
<1>1. UNCHANGED hist /\ rot.pc = "write"
  BY DEF WriteBatch
<1>2. CASE rot' = [RotIdle EXCEPT !.pc = "errored"] /\ sec' = sec
  <2>1. rot'.pc = "errored"
    BY <1>2 DEF RotIdle
  <2>2. QED
    BY <1>2, <2>1 DEF PageInv, NewComeLast, PassedFine
<1>3. CASE /\ rot.batch \subseteq Live
           /\ sec' = [s \in Secrets |->
                        IF s \in rot.batch
                        THEN [rot.copy[s] EXCEPT !.outer = "new"] ELSE sec[s]]
           /\ rot' = [RotIdle EXCEPT !.pc = "read",
                                     !.offset = rot.offset + BatchSize]
  <2>1. rot'.pc = "read" /\ rot'.offset = rot.offset + BatchSize
    BY <1>3 DEF RotIdle
  <2>2. ASSUME NEW s \in rot.batch PROVE sec'[s].live /\ sec'[s].outer = "new"
    <3>1. sec'[s] = [rot.copy[s] EXCEPT !.outer = "new"]
      BY <1>s, <1>3
    <3>2. QED
      BY <1>s, <3>1 DEF Row
  <2>3. \A s \in Secrets \ rot.batch : sec'[s] = sec[s]
    BY <1>3
  <2>4. Live' = Live
    BY <1>s, <1>3, <2>2, <2>3 DEF Live
  <2>5. \A s \in Live : Rank(s)' = Rank(s)
    BY <2>4 DEF Rank
  <2>6. \A s \in Live : Fine(s) \/ s \in rot.batch => Fine(s)'
    BY <1>1, <2>2, <2>3 DEF Fine, Live
  <2>7. \A s \in Secrets : sec'[s] = NoSecret <=> sec[s] = NoSecret
    <3>1. \A s \in rot.batch : sec[s] # NoSecret /\ sec'[s] # NoSecret
      BY <1>3, <2>2 DEF Live, NoSecret
    <3>2. QED
      BY <2>3, <3>1
  <2>8. NewComeLast'
    BY <2>7 DEF PageInv, NewComeLast
  <2>9. PassedFine'
    BY <1>1, <2>1, <2>4, <2>5, <2>6 DEF PageInv, PassedFine
  <2>10. QED
    BY <2>8, <2>9
<1>4. QED
  BY <1>2, <1>3 DEF WriteBatch

LEMMA PageStep == PageInv /\ [Next]_vars => PageInv'
<1> SUFFICES ASSUME PageInv, [Next]_vars PROVE NewComeLast' /\ PassedFine'
  BY SecretsInvStep DEF PageInv
<1>1. ASSUME NEW q \in Requests, Ask(q) \/ GetKey(q) \/ CreateKey(q)
      PROVE  NewComeLast' /\ PassedFine'
  <2>1. hist \in HistType
    BY Shapes DEF PageInv, SecretsInv
  <2>2. UNCHANGED <<sec, rot>> /\ hist'.deleted = hist.deleted
                               /\ hist'.outdated = hist.outdated
                               /\ hist'.skipped = hist.skipped
    BY <1>1, <2>1 DEF Ask, GetKey, CreateKey, HistType
  <2>3. QED
    BY <2>2, PageFrame
<1>2. CASE Deploy \/ Restart
  BY <1>2, PageRotates DEF Deploy, Restart
<1>3. CASE RollOut \/ UNCHANGED vars
  BY <1>3, PageFrame DEF RollOut, vars
<1>4. QED
  BY <1>1, <1>2, <1>3, PageStore, PageDelete, PageRead, PageWrite DEF Next

(* A rotation that ends well has rotated every secret but those it could   *)
(* not encrypt anew, for any number of them and any size of the batches,   *)
(* whatever is stored meanwhile; apart from those only a deletion makes it *)
(* miss one, and only a replica that still has the old key leaves a secret *)
(* under it.                                                               *)
THEOREM RotationIsComplete == Spec => []RotationComplete
<1>1. PageInv => RotationComplete
  BY DEF PageInv, PassedFine, Fine, RotationComplete
<1>2. QED
  BY <1>1, PageInit, PageStep, PTL DEF Spec
=============================================================================
