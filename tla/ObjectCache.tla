---------------------------- MODULE ObjectCache -----------------------------
(***************************************************************************)
(* What a reader of the cache of Kubernetes objects may rely on, and no    *)
(* more: the cache shows of an object a manifest that the cluster had at   *)
(* some time, or one that is being created, or nothing, and it gets around *)
(* to showing the truth.  A reader may see an old manifest after a new     *)
(* one, and nothing where there is an object.  K8sCache implements this,   *)
(* Builds reads from it.                                                   *)
(***************************************************************************)
EXTENDS K8sObjects

CONSTANTS Objects, MaxVersion

VARIABLES
    k8s,    \* k8s[o]: the object in the cluster
    cache   \* cache[o]: what the cache shows of it

viewVars == <<k8s, cache>>

ViewInit ==
    /\ k8s = [o \in Objects |-> [live |-> FALSE, ver |-> 0]]
    /\ cache = [o \in Objects |-> NoEntry]

(* The object is created, changed or removed.                              *)
Change(o, live) ==
    /\ k8s[o].live \/ live
    /\ k8s[o].ver < MaxVersion
    /\ k8s' = [k8s EXCEPT ![o] = [live |-> live, ver |-> @.ver + 1]]
    /\ UNCHANGED cache

Shows(o, entry) ==
    /\ cache' = [cache EXCEPT ![o] = entry]
    /\ UNCHANGED k8s

ShowDraft(o) == Shows(o, Draft)
ShowNothing(o) == Shows(o, NoEntry)
ShowVersion(o) == \E v \in 1 .. k8s[o].ver : Shows(o, Real(v))

ShowTruth(o) ==
    /\ cache[o] # Truth(k8s, o)
    /\ Shows(o, Truth(k8s, o))

ViewNext ==
    \E o \in Objects :
       \/ \E live \in BOOLEAN : Change(o, live)
       \/ ShowDraft(o)
       \/ ShowNothing(o)
       \/ ShowVersion(o)

ViewSpec == ViewInit /\ [][ViewNext]_viewVars

(* If an object changes no more the cache shows it as it is in the end.    *)
(* (MaxVersion ends the changes.)                                          *)
ViewConverges == <>[](\A o \in Objects : cache[o] = Truth(k8s, o))

ViewFairSpec == ViewSpec /\ ViewConverges
=============================================================================
