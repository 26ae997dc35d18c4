---------------------------- MODULE ManagedNames ----------------------------
(***************************************************************************)
(* What the create, read and delete handlers of a named resource promise   *)
(* together, without calls, locks, answers or crashes: the creates behind  *)
(* one lock key bring at most one object into being at a time, an object   *)
(* gets at most one owner among the addresses of its key, and an address   *)
(* lets go of an object only once it is gone, or to retain it.             *)
(***************************************************************************)
CONSTANTS Address, ObjectId, NoId, KeyOf, NoKey, Retain

VARIABLES
    exists,  \* the objects of the sandbox group
    madeBy,  \* the key whose create made the object, or NoKey
    owner    \* the object an address manages, or NoId

vars == <<exists, madeBy, owner>>

Init ==
    /\ exists = {}
    /\ madeBy = [i \in ObjectId |-> NoKey]
    /\ owner = [a \in Address |-> NoId]

Make(i, k) ==
    /\ madeBy[i] = NoKey
    /\ \A j \in exists : madeBy[j] # k
    /\ exists' = exists \cup {i}
    /\ madeBy' = [madeBy EXCEPT ![i] = k]
    /\ UNCHANGED owner

Unmake(i) ==
    /\ exists' = exists \ {i}
    /\ UNCHANGED <<madeBy, owner>>

Own(a, i) ==
    /\ owner[a] = NoId
    /\ madeBy[i] # NoKey
    /\ i \in exists =>
          \A b \in Address \ {a} : KeyOf[b] = KeyOf[a] => owner[b] # i
    /\ owner' = [owner EXCEPT ![a] = i]
    /\ UNCHANGED <<exists, madeBy>>

Disown(a) ==
    /\ owner[a] # NoId
    /\ a \in Retain \/ owner[a] \notin exists
    /\ owner' = [owner EXCEPT ![a] = NoId]
    /\ UNCHANGED <<exists, madeBy>>

Next ==
    \/ \E i \in ObjectId : Unmake(i)
    \/ \E i \in ObjectId, a \in Address : Make(i, KeyOf[a]) \/ Own(a, i)
    \/ \E a \in Address : Disown(a)

Spec == Init /\ [][Next]_vars
=============================================================================
