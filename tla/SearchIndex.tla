---------------------------- MODULE SearchIndex -----------------------------
(***************************************************************************)
(* What the search index promises its readers, and no more: the document   *)
(* of a write is staged before the write is committed, the index shows     *)
(* what is staged, and a staged document goes when the index has shown it. *)
(* Nothing is said of rows, locks, batches, workers, retries and crashes:  *)
(* SearchSync, which has all of these, implements this.                    *)
(*                                                                         *)
(* The promise is void for an entity that is lost, until its next write is *)
(* staged: a document was staged while another one was on its way, or an   *)
(* old one after a new one.                                                *)
(***************************************************************************)
EXTENDS Integers

CONSTANTS Entities, MaxVersion

VARIABLES
    db,        \* db[e]: the committed entity
    next,      \* next[e]: the last version that was given to a write of e
    writing,   \* writing[e]: the write of e that is not committed yet
    staged,    \* staged[e]: the document of e on its way to the index
    index,     \* index[e]: what searches find of e
    lost       \* lost[e]: the last document of e may never be shown

vars == <<db, next, writing, staged, index, lost>>

NoDoc == [kind |-> "none", ver |-> 0]

Init ==
    /\ db = [e \in Entities |-> NoDoc]
    /\ next = [e \in Entities |-> 0]
    /\ writing = [e \in Entities |-> NoDoc]
    /\ staged = [e \in Entities |-> NoDoc]
    /\ index = [e \in Entities |-> NoDoc]
    /\ lost = [e \in Entities |-> FALSE]

-----------------------------------------------------------------------------

Begin(e, kind) ==
    /\ writing[e] = NoDoc
    /\ next[e] < MaxVersion
    /\ kind = "deleted" => db[e].kind = "live"
    /\ next' = [next EXCEPT ![e] = @ + 1]
    /\ writing' = [writing EXCEPT ![e] = [kind |-> kind, ver |-> next'[e]]]
    /\ UNCHANGED <<db, staged, index, lost>>

Staged(e, d) == staged' = [staged EXCEPT ![e] = d]

(* Only a document that meets another one on its way may be lost.          *)
Stage(e) ==
    /\ writing[e] # NoDoc
    /\ Staged(e, writing[e])
    /\ \E l \in BOOLEAN : /\ l => staged[e] # NoDoc
                          /\ lost' = [lost EXCEPT ![e] = l]
    /\ UNCHANGED <<db, next, writing, index>>

(* What somebody read earlier is staged again.  It voids the promise if it *)
(* comes late, and may if it meets another document.                       *)
StageAgain(e) ==
    /\ \E v \in 1 .. db[e].ver :
          /\ v = db[e].ver => db[e].kind = "live"
          /\ Staged(e, [kind |-> "live", ver |-> v])
          /\ \E l \in BOOLEAN :
                /\ (lost[e] \/ v < staged[e].ver \/ v < index[e].ver) => l
                /\ l => (lost[e] \/ staged[e] # NoDoc \/ v < index[e].ver)
                /\ lost' = [lost EXCEPT ![e] = l]
    /\ UNCHANGED <<db, next, writing, index>>

(* A write is not committed unless its document, or a later one, is shown  *)
(* or about to be.                                                         *)
Commit(e) ==
    /\ writing[e] # NoDoc
    /\ \/ lost[e]
       \/ staged[e].ver >= writing[e].ver
       \/ index[e].ver >= writing[e].ver
    /\ db' = [db EXCEPT ![e] =
                [kind |-> IF writing[e].kind = "live" THEN "live" ELSE "none",
                 ver |-> writing[e].ver]]
    /\ writing' = [writing EXCEPT ![e] = NoDoc]
    /\ UNCHANGED <<next, staged, index, lost>>

Abort(e) ==
    /\ writing[e] # NoDoc
    /\ writing' = [writing EXCEPT ![e] = NoDoc]
    /\ UNCHANGED <<db, next, staged, index, lost>>

-----------------------------------------------------------------------------

(* Documents of writes of e, not older than v.  Those of the committed one *)
(* say what the database says, those of the one under way what it writes.  *)
Documents(e, v) ==
    {d \in [kind : {"live", "deleted"}, ver : v .. next[e]] :
        /\ d.ver = db[e].ver => (d.kind = "live" <=> db[e].kind = "live")
        /\ d.ver = writing[e].ver => d = writing[e]}

(* What the index may show of e next: the document that is staged, which   *)
(* is never older than the one before, or any one if e is lost.            *)
MayShow(e) ==
    IF lost[e] THEN Documents(e, 1)
    ELSE {staged[e]} \cap Documents(e, index[e].ver)

(* Of a batch any part may arrive.                                         *)
Show ==
    /\ UNCHANGED <<db, next, writing, staged, lost>>
    /\ index' \in [Entities -> UNION {{index[e]} \cup MayShow(e) : e \in Entities}]
    /\ \A e \in Entities : index'[e] \in {index[e]} \cup MayShow(e)

(* Documents leave the staging area once they are shown.                   *)
Unstage ==
    /\ UNCHANGED <<db, next, writing, index, lost>>
    /\ \E S \in SUBSET Entities :
          /\ \A e \in S : lost[e] \/ index[e].ver >= staged[e].ver
          /\ staged' = [e \in Entities |-> IF e \in S THEN NoDoc ELSE staged[e]]

(* The index forgets what is marked as deleted.                            *)
Purge ==
    /\ UNCHANGED <<db, next, writing, staged, lost>>
    /\ index' = [e \in Entities |->
                   IF index[e].kind = "deleted"
                   THEN [index[e] EXCEPT !.kind = "none"] ELSE index[e]]

-----------------------------------------------------------------------------

Next ==
    \/ Unstage
    \/ Show
    \/ Purge
    \/ \E e \in Entities : \/ \E kind \in {"live", "deleted"} : Begin(e, kind)
                           \/ Stage(e)
                           \/ StageAgain(e)
                           \/ Commit(e)
                           \/ Abort(e)

Spec == Init /\ [][Next]_vars

-----------------------------------------------------------------------------

(* What follows for readers.  When nothing of an entity is written or on   *)
(* its way, the index says what the database says, unless it is lost.      *)
Agrees ==
    \A e \in Entities :
       next[e] = db[e].ver /\ staged[e] = NoDoc /\ ~lost[e] =>
          /\ index[e].ver = db[e].ver
          /\ index[e].kind = "live" <=> db[e].kind = "live"
=============================================================================
