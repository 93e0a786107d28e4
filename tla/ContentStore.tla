---------------------------- MODULE ContentStore ----------------------------
(***************************************************************************)
(* What MemoryResultStore promises its callers, with no ages, orders or    *)
(* capacities: a content-addressed set of payloads that may forget, but    *)
(* that takes an acknowledged write whole and never invents a payload.     *)
(***************************************************************************)
EXTENDS FiniteSets

CONSTANTS Contents, Ids, Digest

VARIABLES held,     \* the payloads that can be fetched
          answer    \* the reply to the last finished call

vars == <<held, answer>>

\* No address names two payloads.
Addressed(C) == \A c, d \in C : Digest[c] = Digest[d] => c = d

Init == held = {} /\ answer = [kind |-> "none"]

(* put or put_batch acknowledged: every payload of the call is held, and   *)
(* nothing that was neither held nor written.                              *)
Write(C) ==
    /\ C # {}
    /\ C \subseteq held'
    /\ held' \subseteq held \cup C
    /\ Addressed(held')
    /\ answer' = [kind |-> "stored", ids |-> {Digest[c] : c \in C}]

(* A refused put may forget what had expired; a refused batch forgets      *)
(* nothing.                                                                *)
Refuse ==
    /\ held' \subseteq held
    /\ answer' = [kind |-> "refused"]

RefuseBatch ==
    /\ UNCHANGED held
    /\ answer' = [kind |-> "refused_batch"]

Fetch(c) ==
    /\ held' \subseteq held
    /\ c \in held'
    /\ answer' = [kind |-> "fetched", id |-> Digest[c], bytes |-> c]

Miss(id) ==
    /\ held' \subseteq held
    /\ \A c \in held' : Digest[c] # id
    /\ answer' = [kind |-> "missing", id |-> id]

Forget(I) ==
    /\ held' = {c \in held : Digest[c] \notin I}
    /\ answer' = [kind |-> "removed"]

Next ==
    \/ \E C \in SUBSET Contents : Write(C)
    \/ Refuse
    \/ RefuseBatch
    \/ \E c \in Contents : Fetch(c)
    \/ \E id \in Ids : Miss(id)
    \/ \E I \in SUBSET Ids : Forget(I)

Spec == Init /\ [][Next]_vars
=============================================================================
