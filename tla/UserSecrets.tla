---------------------------- MODULE UserSecrets -----------------------------
(***************************************************************************)
(* The secrets of a user.  A value is encrypted twice: with the secret key *)
(* of the user, which the first use creates, and around that with a random *)
(* key that is encrypted with the RSA key of the secrets service.  When    *)
(* the secrets service starts with a new RSA key and the previous one it   *)
(* rotates all secrets, in batches, while users go on writing.             *)
(*                                                                         *)
(* Encryption is modelled by the key it was done with.  Secrets are        *)
(* numbers: their ids are ULIDs, and a new one is the greatest.            *)
(***************************************************************************)
EXTENDS Integers, FiniteSets

LOCAL INSTANCE FiniteSetsExt

CONSTANTS
    Secrets,
    Requests,
    BatchSize,
    MaxWrites,    \* bound: values that users store
    MaxRestarts   \* bound: restarts of the secrets service

ASSUME SecretsAssumption ==
    /\ Secrets \subseteq Nat \ {0}
    /\ IsFiniteSet(Secrets)
    /\ BatchSize \in Nat \ {0}
    /\ MaxWrites \in Nat
    /\ MaxRestarts \in Nat

VARIABLES
    secretKey,  \* users.secret_key, 0 if there is none
    keys,       \* keys made so far
    sec,        \* sec[s]: the row of secret s
    svc,        \* the RSA keys the secrets service has
    pubs,       \* the RSA keys that replicas of the data service write with
    rot,        \* the rotation
    req,        \* the requests of the user
    writes, restarts,
    latest,     \* history: latest[s]: the value stored last
    hist        \* history, for the properties

vars == <<secretKey, keys, sec, svc, pubs, rot, req, writes, restarts, latest,
          hist>>
keyVars == <<secretKey, keys>>
rsaVars == <<svc, pubs>>

-----------------------------------------------------------------------------

(* inner: the user's key, outer: the RSA key.                              *)
NoSecret == [live |-> FALSE, val |-> 0, inner |-> 0, outer |-> "none"]
Encrypted(v, k, p) == [live |-> TRUE, val |-> v, inner |-> k, outer |-> p]

(* s: the secret to update, 0 for a new one.                               *)
Idle == [pc |-> "idle", s |-> 0, key |-> 0]
RotIdle == [pc |-> "no", offset |-> 0, batch |-> {},
            copy |-> [s \in Secrets |-> NoSecret]]

Live == {s \in Secrets : sec[s].live}

Init ==
    /\ secretKey = 0
    /\ keys = 0
    /\ sec = [s \in Secrets |-> NoSecret]
    /\ svc = {"old"}
    /\ pubs = {"old"}
    /\ rot = RotIdle
    /\ req = [q \in Requests |-> Idle]
    /\ writes = 0
    /\ restarts = 0
    /\ latest = [s \in Secrets |-> 0]
    /\ hist = [overlapped |-> FALSE, deleted |-> FALSE, raced |-> {},
               outdated |-> {}, skipped |-> {}]

-----------------------------------------------------------------------------
(* Requests of the user (UserSecretsRepo; the secrets of data connectors   *)
(* and of session secret slots are encrypted and stored in the same way).  *)

(* insert_secret, or update_secret, which reads the row first.             *)
Ask(q) ==
    /\ req[q] = Idle
    /\ writes + Cardinality({p \in Requests : req[p] # Idle}) < MaxWrites
    /\ \E s \in Live \cup {0} :
          req' = [req EXCEPT ![q] = [Idle EXCEPT !.pc = "key", !.s = s]]
    /\ UNCHANGED <<keyVars, sec, rsaVars, rot, writes, restarts, latest, hist>>

Creating == {p \in Requests : req[p].pc = "create"}

(* Mutant: the key that was read is used, also when there is none.         *)
GetKeyOnly(q) ==
    /\ req[q].pc = "key"
    /\ req' = [req EXCEPT ![q].pc = "store", ![q].key = secretKey]
    /\ UNCHANGED <<keyVars, sec, rsaVars, rot, writes, restarts, latest, hist>>

(* get_or_create_user_secret_key reads the row of the user without a lock. *)
GetKey(q) ==
    /\ req[q].pc = "key"
    /\ IF secretKey # 0
       THEN /\ req' = [req EXCEPT ![q].pc = "store", ![q].key = secretKey]
            /\ hist' = hist
       ELSE /\ req' = [req EXCEPT ![q].pc = "create"]
            /\ hist' = [hist EXCEPT !.overlapped = @ \/ Creating # {}]
    /\ UNCHANGED <<keyVars, sec, rsaVars, rot, writes, restarts, latest>>

(* Mutant: the key is given out, the transaction is not committed.         *)
CreateKeyOnly(q) ==
    /\ req[q].pc = "create"
    /\ keys' = keys + 1
    /\ req' = [req EXCEPT ![q].pc = "store", ![q].key = keys']
    /\ UNCHANGED <<secretKey, sec, rsaVars, rot, writes, restarts, latest, hist>>

(* The new key is stored, over one that another request stored meanwhile.  *)
CreateKey(q) ==
    /\ req[q].pc = "create"
    /\ keys' = keys + 1
    /\ secretKey' = keys'
    /\ req' = [req EXCEPT ![q].pc = "store", ![q].key = keys']
    /\ UNCHANGED <<sec, rsaVars, rot, writes, restarts, latest, hist>>

(* The row is written, unless it was deleted by now.  A replica encrypts   *)
(* with the RSA key that it was started with.                              *)
Store(q) ==
    LET new == {x \in Secrets : sec[x] = NoSecret}
        s == IF req[q].s # 0 THEN req[q].s ELSE Min(new)
        v == writes + 1
    IN /\ req[q].pc = "store"
       /\ req' = [req EXCEPT ![q] = Idle]
       /\ IF (req[q].s = 0 /\ new # {}) \/ req[q].s \in Live
          THEN \E p \in pubs :
                 /\ sec' = [sec EXCEPT ![s] = Encrypted(v, req[q].key, p)]
                 /\ latest' = [latest EXCEPT ![s] = v]
                 /\ writes' = v
                 /\ hist' = [hist EXCEPT
                      !.raced = IF s \in rot.batch THEN @ \cup {s} ELSE @,
                      !.outdated = IF p = "old" THEN @ \cup {s} ELSE @ \ {s}]
          ELSE UNCHANGED <<sec, latest, writes, hist>>
       /\ UNCHANGED <<keyVars, rsaVars, rot, restarts>>

Delete(s) ==
    /\ s \in Live
    /\ sec' = [sec EXCEPT ![s].live = FALSE]
    /\ hist' = [hist EXCEPT !.deleted = TRUE]
    /\ UNCHANGED <<keyVars, rsaVars, rot, req, writes, restarts, latest>>

-----------------------------------------------------------------------------
(* The rotation (rotate_encryption_keys).                                  *)

Rotates ==
    /\ rot' = [RotIdle EXCEPT !.pc = "read"]
    /\ hist' = [hist EXCEPT !.deleted = FALSE, !.outdated = {},
                           !.skipped = {}]

(* The secrets service starts with both keys and rotates.                  *)
Deploy ==
    /\ svc = {"old"}
    /\ svc' = {"old", "new"}
    /\ Rotates
    /\ UNCHANGED <<keyVars, sec, pubs, req, writes, restarts, latest>>

(* It crashes, or is started again after an error, and begins anew.        *)
Restart ==
    /\ rot.pc # "no"
    /\ restarts < MaxRestarts
    /\ restarts' = restarts + 1
    /\ Rotates
    /\ UNCHANGED <<keyVars, sec, rsaVars, req, writes, latest>>

(* The replicas of the data service get the new public key one by one.     *)
RollOut ==
    /\ "old" \in pubs
    /\ pubs' \in {{"old", "new"}, {"new"}} \ {pubs}
    /\ UNCHANGED <<keyVars, sec, svc, rot, req, writes, restarts, latest, hist>>

(* The rows of the table after the first n, in the order of their ids.     *)
Batch(n) == {s \in Live : Cardinality({x \in Live : x < s}) \in n .. n + BatchSize - 1}

(* What does not open with the new key.                                    *)
Behind(B) == {s \in B : sec[s].outer = "old"}

(* A batch is read by its offset.  What opens with the new key is left     *)
(* alone, and a secret that cannot be encrypted anew is only logged        *)
(* (rotate_single_encryption_key): it stays as it is, the rotation goes on.*)
ReadBatch ==
    LET B == Batch(rot.offset)
    IN /\ rot.pc = "read"
       /\ \E failing \in SUBSET Behind(B) :
            /\ rot' = IF B = {} THEN [rot EXCEPT !.pc = "done"]
                      ELSE [rot EXCEPT !.pc = "write",
                                       !.batch = Behind(B) \ failing,
                                       !.copy = [s \in Secrets |->
                                         IF s \in B THEN sec[s] ELSE NoSecret]]
            /\ hist' = [hist EXCEPT !.skipped = @ \cup failing]
       /\ UNCHANGED <<keyVars, sec, rsaVars, req, writes, restarts, latest>>

(* Mutant: the next batch begins one row too late.                         *)
WriteBatchSkips ==
    /\ rot.pc = "write"
    /\ IF rot.batch \subseteq Live
       THEN /\ sec' = [s \in Secrets |->
                         IF s \in rot.batch
                         THEN [rot.copy[s] EXCEPT !.outer = "new"] ELSE sec[s]]
            /\ rot' = [RotIdle EXCEPT !.pc = "read",
                                      !.offset = rot.offset + BatchSize + 1]
       ELSE rot' = [RotIdle EXCEPT !.pc = "errored"] /\ sec' = sec
    /\ UNCHANGED <<keyVars, rsaVars, req, writes, restarts, latest, hist>>

(* Mutant: the whole batch is written, also what was rotated before.       *)
WriteBatchAll ==
    /\ rot.pc = "write"
    /\ IF rot.batch \subseteq Live
       THEN /\ sec' = [s \in Secrets |->
                         IF rot.copy[s].live
                         THEN [rot.copy[s] EXCEPT !.outer = "new"] ELSE sec[s]]
            /\ rot' = [RotIdle EXCEPT !.pc = "read",
                                      !.offset = rot.offset + BatchSize]
       ELSE rot' = [RotIdle EXCEPT !.pc = "errored"] /\ sec' = sec
    /\ UNCHANGED <<keyVars, rsaVars, req, writes, restarts, latest, hist>>

(* The values that were read are written, encrypted anew, whatever is there*)
(* by now (update_secret_values).  A row that is gone is an error: the     *)
(* batch is not written, and the rotation ends.                            *)
WriteBatch ==
    /\ rot.pc = "write"
    /\ IF rot.batch \subseteq Live
       THEN /\ sec' = [s \in Secrets |->
                         IF s \in rot.batch
                         THEN [rot.copy[s] EXCEPT !.outer = "new"] ELSE sec[s]]
            /\ rot' = [RotIdle EXCEPT !.pc = "read",
                                      !.offset = rot.offset + BatchSize]
       ELSE rot' = [RotIdle EXCEPT !.pc = "errored"] /\ sec' = sec
    /\ UNCHANGED <<keyVars, rsaVars, req, writes, restarts, latest, hist>>

-----------------------------------------------------------------------------

Next ==
    \/ \E q \in Requests : Ask(q) \/ GetKey(q) \/ CreateKey(q) \/ Store(q)
    \/ \E s \in Secrets : Delete(s)
    \/ Deploy
    \/ Restart
    \/ RollOut
    \/ ReadBatch
    \/ WriteBatch

Spec == Init /\ [][Next]_vars

-----------------------------------------------------------------------------
(* Properties.                                                             *)

(* Every row was encrypted with a key that was made before.                *)
TypeOK ==
    /\ keys \in Nat
    /\ secretKey \in 0 .. keys
    /\ sec \in [Secrets -> [live : BOOLEAN, val : Nat, inner : Nat,
                            outer : {"none", "old", "new"}]]
    /\ \A s \in Live : sec[s].inner \in 1 .. keys /\ sec[s].outer # "none"
    /\ svc \in SUBSET {"old", "new"}
    /\ pubs \in SUBSET {"old", "new"}
    /\ rot \in [pc : {"no", "read", "write", "done", "errored"}, offset : Nat,
                batch : SUBSET Secrets,
                copy : [Secrets -> [live : BOOLEAN, val : Nat, inner : Nat,
                                    outer : {"none", "old", "new"}]]]
    /\ req \in [Requests -> [pc : {"idle", "key", "create", "store"},
                             s : Secrets \cup {0}, key : 0 .. keys]]
    /\ writes \in Nat
    /\ restarts \in Nat
    /\ latest \in [Secrets -> Nat]
    /\ hist \in [overlapped : BOOLEAN, deleted : BOOLEAN,
                 raced : SUBSET Secrets, outdated : SUBSET Secrets,
                 skipped : SUBSET Secrets]

(* The key of the user opens every secret, through rotations and crashes,  *)
(* unless two requests found no key at the same time.                      *)
OpensWithKey ==
    ~hist.overlapped => \A s \in Live : sec[s].inner = secretKey

(* A secret has the value that the user stored last, unless it was stored  *)
(* while the rotation had a copy of it: nothing else of the rotation, and  *)
(* no crash of it, brings an old value back.                               *)
ValueKept ==
    \A s \in Live : sec[s].val = latest[s] \/ s \in hist.raced

(* A rotation that ends well leaves under the old key only secrets that it *)
(* could not encrypt anew, and that replicas stored with the old key; and  *)
(* others once a secret was deleted meanwhile, as the offset then passes   *)
(* over one.  That it ended well thus does not say that the old key can be *)
(* taken away: only that nothing else stands against it.                   *)
RotationComplete ==
    rot.pc = "done" /\ ~hist.deleted =>
       \A s \in Live : sec[s].outer = "new" \/ s \in hist.outdated \cup hist.skipped
=============================================================================
