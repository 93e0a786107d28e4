----------------------------- MODULE ResultStore -----------------------------
(***************************************************************************)
(* MemoryResultStore as a state machine.  Every public operation is one    *)
(* step, except put_batch: its loop over the payloads works on a clone,    *)
(* which is a variable here (trial), so a batch is BatchBegin, one         *)
(* BatchPut per payload and BatchEnd.  The caller holds the store by &mut, *)
(* so no other operation runs in between (batch.active).                   *)
(*                                                                         *)
(* Ticks are supplied by the caller of each operation and need not grow.   *)
(***************************************************************************)
EXTENDS ResultStoreOps, Sequences

CONSTANTS Ticks,      \* the ticks callers supply
          Payloads    \* the payload sequences callers pass to put_batch

ASSUME CallerAssumption == Ticks \subseteq Nat /\ Payloads \subseteq Seq(Contents)

VARIABLES store,   \* the MemoryResultStore
          trial,   \* put_batch's clone of it
          batch,   \* put_batch's loop: payloads left, addresses returned so far
          reply    \* what the last finished operation returned

vars == <<store, trial, batch, reply>>

NoBatch == [active |-> FALSE, todo |-> <<>>, ids |-> {}, wrote |-> {}, now |-> 0]

Init ==
    /\ store = EmptyStore
    /\ trial = EmptyStore
    /\ batch = NoBatch
    /\ reply = [kind |-> "none"]

Stored(ids, now) == [kind |-> "stored", ids |-> ids, now |-> now]

Put(c, now) ==
    /\ ~batch.active
    /\ store' = PutStore(store, c, now)
    /\ reply' = IF PutError(store, c, now) = "none"
                THEN Stored({Digest[c]}, now)
                ELSE [kind |-> "refused", error |-> PutError(store, c, now)]
    /\ UNCHANGED <<trial, batch>>

BatchBegin(payloads, now) ==
    /\ ~batch.active
    /\ trial' = store
    /\ batch' = [active |-> TRUE, todo |-> payloads, ids |-> {}, wrote |-> {}, now |-> now]
    /\ UNCHANGED <<store, reply>>

\* put_batch returns: the clone is dropped.
BatchReturns(answer) ==
    /\ trial' = EmptyStore
    /\ batch' = NoBatch
    /\ reply' = answer

BatchPut ==
    /\ batch.active
    /\ batch.todo # <<>>
    /\ LET c == Head(batch.todo)
           error == PutError(trial, c, batch.now)
       IN  \/ /\ error = "none"
              /\ trial' = PutStore(trial, c, batch.now)
              /\ batch' = [batch EXCEPT !.todo = Tail(@),
                                        !.ids = @ \cup {Digest[c]},
                                        !.wrote = @ \cup {c}]
              /\ UNCHANGED reply
           \/ /\ error # "none"
              /\ BatchReturns([kind |-> "refused_batch", error |-> error])
    /\ UNCHANGED store

BatchErrorUnchecked ==  \* mutant: evicted payloads are not noticed
    IF batch.ids = {} THEN "EmptyInput" ELSE "none"

BatchError ==
    IF batch.ids = {} THEN "EmptyInput"
    ELSE IF ~(batch.ids \subseteq DOMAIN trial.entries) THEN "BatchCapacityExceeded"
    ELSE "none"

BatchEndCommitting ==  \* mutant: the clone replaces the store whatever the outcome
    /\ batch.active
    /\ batch.todo = <<>>
    /\ store' = trial
    /\ BatchReturns(IF BatchError = "none" THEN Stored(batch.ids, batch.now)
                    ELSE [kind |-> "refused_batch", error |-> BatchError])

BatchEnd ==
    /\ batch.active
    /\ batch.todo = <<>>
    /\ \/ /\ BatchError = "none"
          /\ store' = trial
          /\ BatchReturns(Stored(batch.ids, batch.now))
       \/ /\ BatchError # "none"
          /\ UNCHANGED store
          /\ BatchReturns([kind |-> "refused_batch", error |-> BatchError])

Get(id, now) ==
    /\ ~batch.active
    /\ store' = EvictExpired(store, now)
    /\ reply' = IF Retrievable(store, id, now)
                THEN [kind |-> "fetched", id |-> id, bytes |-> store.entries[id].bytes]
                ELSE [kind |-> "missing", id |-> id]
    /\ UNCHANGED <<trial, batch>>

Remove(id) ==
    /\ ~batch.active
    /\ \/ /\ id \in DOMAIN store.entries
          /\ store' = RemoveIds(store, {id})
          /\ reply' = [kind |-> "removed"]
       \/ /\ id \notin DOMAIN store.entries
          /\ UNCHANGED store
          /\ reply' = [kind |-> "missing", id |-> id]
    /\ UNCHANGED <<trial, batch>>

Clear ==
    /\ ~batch.active
    /\ store' = ClearedStore(store.next_order)
    /\ reply' = [kind |-> "removed"]
    /\ UNCHANGED <<trial, batch>>

Next ==
    \/ \E c \in Contents, now \in Ticks : Put(c, now)
    \/ \E payloads \in Payloads, now \in Ticks : BatchBegin(payloads, now)
    \/ BatchPut
    \/ BatchEnd
    \/ \E id \in Ids, now \in Ticks : Get(id, now)
    \/ \E id \in Ids : Remove(id)
    \/ Clear

Spec == Init /\ [][Next]_vars

-----------------------------------------------------------------------------
(* Properties.                                                             *)

(* A store value whose two indexes and running total agree: the age index  *)
(* holds exactly one key per entry, no two entries share an insertion      *)
(* order, and total_bytes is the sum of the payload lengths.  A stale key  *)
(* would make evict_expired loop for ever, a missing one would make an     *)
(* entry immortal, and a drifting total would evict too much or too        *)
(* little.                                                                 *)
Consistent(s) ==
    /\ s.age_order = {AgeKey(s.entries, i) : i \in DOMAIN s.entries}
    /\ \A i, j \in DOMAIN s.entries : s.entries[i].order = s.entries[j].order => i = j
    /\ \A i \in DOMAIN s.entries : s.entries[i].order < s.next_order
    /\ s.total_bytes = BytesAt(s.entries, DOMAIN s.entries)

\* Every entry sits at the address of its payload and is storable.
Addressed(s) ==
    \A i \in DOMAIN s.entries :
        LET c == s.entries[i].bytes IN Digest[c] = i /\ Size[c] \in 1 .. MaxItemBytes

\* The configured capacity.
Bounded(s) ==
    /\ Cardinality(DOMAIN s.entries) <= MaxEntries
    /\ s.total_bytes <= MaxTotalBytes

IsStore(s) ==
    /\ s = [entries |-> s.entries, age_order |-> s.age_order,
            total_bytes |-> s.total_bytes, next_order |-> s.next_order]
    /\ DOMAIN s.entries \subseteq Ids
    /\ IsFiniteSet(DOMAIN s.entries)
    /\ s.entries \in [DOMAIN s.entries -> Entry]
    /\ s.total_bytes \in Nat
    /\ s.next_order \in Nat

IsBatch ==
    /\ batch = [active |-> batch.active, todo |-> batch.todo, ids |-> batch.ids,
                wrote |-> batch.wrote, now |-> batch.now]
    /\ batch.active \in BOOLEAN
    /\ batch.todo \in Seq(Contents)
    /\ batch.wrote \subseteq Contents
    /\ batch.ids = {Digest[c] : c \in batch.wrote}
    /\ batch.now \in Nat

TypeOK == IsStore(store) /\ IsStore(trial) /\ IsBatch

\* The two indexes and the running total agree after every operation,
\* also in the clone a batch is working on.
IndexExact == Consistent(store) /\ Consistent(trial)

\* No sequence of operations exceeds the entry or byte capacity, and every
\* payload is found under its own digest.
WithinLimits ==
    /\ Bounded(store) /\ Bounded(trial)
    /\ Addressed(store) /\ Addressed(trial)

\* The books are right: the index is exact and the limits hold.
BookkeepingExact == IndexExact /\ WithinLimits

\* A caller told that its payloads are stored can fetch every one of them at
\* the tick it stored them: neither expiry, nor the eviction a later payload
\* of the same batch causes, nor a refused collision takes one away.
AckedRetrievable ==
    reply.kind = "stored" => \A id \in reply.ids : Retrievable(store, id, reply.now)

\* Expiry and capacity never take a younger entry while an older one stays:
\* whatever a put, acknowledged or not, an acknowledged batch or a fetch evicts
\* is older than every entry that was there before and is still there
\* ("deterministic oldest-first eviction").  Only remove and clear may choose.
EvictsOldestFirst ==
    [][reply'.kind # "removed" =>
          \A gone \in store.age_order \ store'.age_order,
             kept \in store.age_order \cap store'.age_order : Older(gone, kept)]_vars

\* Nothing is evicted for nothing: of the entries a put or an acknowledged batch
\* took away before their time, the youngest does not fit beside what is there
\* now, at the exact boundary of the two limits.
EvictsOnlyForRoom ==
    [][reply'.kind = "stored" =>
          \A gone \in store.age_order \ store'.age_order :
              \/ Expired(gone[1], reply'.now)
              \/ \E other \in store.age_order \ store'.age_order : Older(gone, other)
              \/ Cardinality(DOMAIN store'.entries) + 1 > MaxEntries
              \/ store'.total_bytes + Size[store.entries[gone[3]].bytes] > MaxTotalBytes]_vars

-----------------------------------------------------------------------------
(* Refinement: forgetting ages, orders and the clone, the store is the     *)
(* content-addressed set of ContentStore.                                  *)

Held(s) == {s.entries[i].bytes : i \in DOMAIN s.entries}

Answer ==
    CASE reply.kind = "stored" -> [kind |-> "stored", ids |-> reply.ids]
      [] reply.kind \in {"refused", "refused_batch"} -> [kind |-> reply.kind]
      [] OTHER -> reply

Abstract == INSTANCE ContentStore WITH held <- Held(store), answer <- Answer

\* An acknowledged batch appears whole, a refused one leaves no trace, and a
\* fetch returns exactly the payload whose digest was asked for.
ImplementsContentStore == Abstract!Spec
=============================================================================
