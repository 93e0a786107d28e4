--------------------------- MODULE ResultStoreOps ---------------------------
(***************************************************************************)
(* The operations of MemoryResultStore                                     *)
(* (bran/crates/bran-core/src/agent/result_store.rs) as operators on store *)
(* values.  A store value is the struct's four mutable fields:             *)
(*                                                                         *)
(*   entries      ResultId -> [bytes, created_tick, order]                 *)
(*   age_order    the BTreeMap index, a set of <<tick, order, id>> keys    *)
(*   total_bytes  the running byte count                                   *)
(*   next_order   the insertion counter                                    *)
(*                                                                         *)
(* Payloads are members of Contents; their length and SHA-256 address are  *)
(* the constant functions Size and Digest.  Digest need not be injective,  *)
(* so the ContentIdCollision branch is reachable.                          *)
(***************************************************************************)
EXTENDS Integers, FiniteSets

CONSTANTS Contents,       \* byte strings a caller may store
          Ids,            \* content addresses
          Digest,         \* ResultId::sha256
          Size,           \* length of a payload in bytes
          MaxEntries,     \* ResultStoreLimits, all positive
          MaxTotalBytes,
          MaxItemBytes,
          MaxAgeTicks,
          MaxOrder        \* the largest insertion order (u64::MAX in the code)

\* ResultStoreLimits::new refuses everything else.
ASSUME LimitsAssumption ==
    /\ MaxEntries \in Nat \ {0}
    /\ MaxTotalBytes \in Nat \ {0}
    /\ MaxItemBytes \in Nat \ {0}
    /\ MaxAgeTicks \in Nat \ {0}
    /\ MaxItemBytes <= MaxTotalBytes
    /\ MaxOrder \in Nat

ASSUME ContentAssumption ==
    /\ Digest \in [Contents -> Ids]
    /\ Size \in [Contents -> Nat]

Entry == [bytes : Contents, created_tick : Nat, order : Nat]

\* `clear' keeps next_order; a new store starts at 0.
ClearedStore(next_order) ==
    [entries |-> [i \in {} |-> {}], age_order |-> {}, total_bytes |-> 0,
     next_order |-> next_order]

EmptyStore == ClearedStore(0)

-----------------------------------------------------------------------------
(* The age index.  BTreeMap order on (tick, order, id): the id never       *)
(* decides, since insertion orders are distinct.                           *)

Older(j, k) == \/ j[1] < k[1]
               \/ j[1] = k[1] /\ j[2] < k[2]

AgeKey(entries, id) == <<entries[id].created_tick, entries[id].order, id>>

(* K is an initial segment of the index: what popping the first key a      *)
(* number of times removes.                                                *)
YoungestFirst(index, K) ==  \* mutant: pops the last key
    \A j \in K, k \in index \ K : Older(k, j)

OldestFirst(index, K) == \A j \in K, k \in index \ K : Older(j, k)

(* The byte positions the payloads under the addresses I occupy; their     *)
(* number is the sum of the payload lengths.                               *)
Positions(entries, I) ==
    {p \in I \X (1 .. MaxItemBytes) : p[2] <= Size[entries[p[1]].bytes]}

BytesAt(entries, I) == Cardinality(Positions(entries, I))

(* remove_id, for each of a set of stored addresses. *)
RemoveIds(s, I) ==
    [entries |-> [i \in DOMAIN s.entries \ I |-> s.entries[i]],
     age_order |-> s.age_order \ {AgeKey(s.entries, i) : i \in I},
     total_bytes |-> s.total_bytes - BytesAt(s.entries, I),
     next_order |-> s.next_order]

IdsOf(K) == {k[3] : k \in K}

-----------------------------------------------------------------------------
(* Expiry.  The subtraction saturates, so an entry from a later tick than  *)
(* `now' has age 0.  evict_expired pops keys until the first one that is   *)
(* young enough.                                                           *)

Expired(tick, now) == now - tick >= MaxAgeTicks

ExpiredPrefix(s, now) ==
    {k \in s.age_order :
        \A j \in s.age_order : (j = k \/ Older(j, k)) => Expired(j[1], now)}

EvictExpired(s, now) == RemoveIds(s, IdsOf(ExpiredPrefix(s, now)))

(* Capacity.  The loop of `put' pops the oldest entry until the new        *)
(* payload fits; its victims are the smallest initial segment of the index *)
(* whose removal makes room.                                               *)

HasRoomToSpare(s, len) ==  \* mutant: a payload that just fits is not let in
    /\ Cardinality(DOMAIN s.entries) < MaxEntries
    /\ len < MaxTotalBytes - s.total_bytes

HasRoom(s, len) ==
    /\ Cardinality(DOMAIN s.entries) < MaxEntries
    /\ len <= MaxTotalBytes - s.total_bytes

MakesRoom(s, len, K) ==
    /\ OldestFirst(s.age_order, K)
    /\ HasRoom(RemoveIds(s, IdsOf(K)), len)

CapacityVictims(s, len) ==
    CHOOSE K \in SUBSET s.age_order :
        /\ MakesRoom(s, len, K)
        /\ \A L \in SUBSET s.age_order : MakesRoom(s, len, L) => K \subseteq L

MakeRoom(s, len) == RemoveIds(s, IdsOf(CapacityVictims(s, len)))

InsertReusingOrder(s, c, now) ==  \* mutant: the insertion counter is not advanced
    LET new == [bytes |-> c, created_tick |-> now, order |-> s.next_order]
    IN  [entries |-> [i \in DOMAIN s.entries \cup {Digest[c]} |->
                          IF i = Digest[c] THEN new ELSE s.entries[i]],
         age_order |-> s.age_order \cup {<<now, s.next_order, Digest[c]>>},
         total_bytes |-> s.total_bytes + Size[c],
         next_order |-> s.next_order]

Insert(s, c, now) ==
    LET new == [bytes |-> c, created_tick |-> now, order |-> s.next_order]
    IN  [entries |-> [i \in DOMAIN s.entries \cup {Digest[c]} |->
                          IF i = Digest[c] THEN new ELSE s.entries[i]],
         age_order |-> s.age_order \cup {<<now, s.next_order, Digest[c]>>},
         total_bytes |-> s.total_bytes + Size[c],
         next_order |-> s.next_order + 1]

-----------------------------------------------------------------------------
(* `put': the error, "none" on success, and the store it leaves, which is  *)
(* not always the one it found when it fails.                              *)

Malformed(c) == Size[c] = 0 \/ Size[c] > MaxItemBytes

PutError(s, c, now) ==
    LET held == EvictExpired(s, now).entries
    IN  IF Size[c] = 0 THEN "EmptyInput"
        ELSE IF Size[c] > MaxItemBytes THEN "ItemTooLarge"
        ELSE IF Digest[c] \in DOMAIN held
             THEN IF held[Digest[c]].bytes # c THEN "ContentIdCollision" ELSE "none"
        ELSE IF s.next_order = MaxOrder THEN "ArithmeticOverflow"
        ELSE "none"

PutStore(s, c, now) ==
    LET fresh == EvictExpired(s, now)
    IN  IF Malformed(c) THEN s
        ELSE IF Digest[c] \in DOMAIN fresh.entries THEN fresh
        ELSE IF s.next_order = MaxOrder THEN MakeRoom(fresh, Size[c])
        ELSE Insert(MakeRoom(fresh, Size[c]), c, now)

(* `get' succeeds on what survives the expiry it starts with. *)
Retrievable(s, id, now) == id \in DOMAIN EvictExpired(s, now).entries
=============================================================================
