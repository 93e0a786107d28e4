-------------------------- MODULE AgentRuntimeProofs --------------------------
(***************************************************************************)
(* Proofs about ResultStore and about AgentRuntime, which works on it: for *)
(* every set of payloads, every digest (also a colliding one), every limit *)
(* and every tick; and for all profiles, models, requests and port answers.*)
(*                                                                         *)
(* The store's inductive invariant is that both store values, the store    *)
(* and the clone of a running batch, are Sound.  The work is in the lemmas *)
(* about the operators: removing and inserting keep a store Sound, the     *)
(* eviction loop of `put' always finds room, and it goes from the oldest   *)
(* entry on.  With CloneInv they also give the refinement of ContentStore. *)
(*                                                                         *)
(* The invariant of the runtime, at the end, adds to the store's own what  *)
(* an invocation has in hand at each step: the gates it has passed, which  *)
(* texts were screened, which latencies it has heard of, and how the store *)
(* and the running batch relate to the store the invocation found.         *)
(***************************************************************************)
EXTENDS AgentRuntime, FiniteSetTheorems, WellFoundedInduction, TLAPS

Sound(s) == IsStore(s) /\ Consistent(s) /\ Addressed(s) /\ Bounded(s)

Inv == Sound(store) /\ Sound(trial) /\ IsBatch

\* Nothing in the store is expired at tick `now'.
Fresh(s, now) == \A k \in s.age_order : ~Expired(k[1], now)

(* AckedRetrievable is not inductive: while a batch runs, its clone has to *)
(* be fresh as soon as one payload went in, and the addresses it returned  *)
(* come from its own tick.                                                 *)
AckInv ==
    /\ reply.kind = "stored" =>
          /\ reply.ids \subseteq DOMAIN store.entries
          /\ Fresh(store, reply.now)
    /\ batch.active /\ batch.ids # {} => Fresh(trial, batch.now)

-----------------------------------------------------------------------------
(* Lemmas about sums of lengths. *)

\* The positions of a finite set of addresses are finite in number, so a byte
\* count is a natural number.
LEMMA PositionsFinite ==
  ASSUME NEW e, NEW I, IsFiniteSet(I)
  PROVE  IsFiniteSet(Positions(e, I)) /\ BytesAt(e, I) \in Nat
<1>1. IsFiniteSet(1 .. MaxItemBytes)
  BY FS_Interval, LimitsAssumption
<1>2. IsFiniteSet(I \X (1 .. MaxItemBytes))
  BY <1>1, FS_Product
<1>3. Positions(e, I) \in SUBSET (I \X (1 .. MaxItemBytes))
  BY DEF Positions
<1>4. IsFiniteSet(Positions(e, I))
  BY <1>2, <1>3, FS_Subset
<1>. QED
  BY <1>4, FS_CardinalityType DEF BytesAt

\* Splitting the addresses splits the byte count, and the count depends only
\* on the entries at those addresses.
LEMMA BytesSplit ==
  ASSUME NEW e, NEW f, NEW D, NEW I, IsFiniteSet(D), I \subseteq D,
         \A i \in D \ I : f[i] = e[i]
  PROVE  BytesAt(f, D \ I) = BytesAt(e, D) - BytesAt(e, I)
<1>1. Positions(f, D \ I) = Positions(e, D) \ Positions(e, I)
  BY DEF Positions
<1>2. Positions(e, D) \cap Positions(e, I) = Positions(e, I)
  BY DEF Positions
<1>3. IsFiniteSet(Positions(e, D))
  BY PositionsFinite
<1>. QED
  BY <1>1, <1>2, <1>3, FS_Difference DEF BytesAt

\* A new address adds the length of its payload.
LEMMA BytesInsert ==
  ASSUME NEW e, NEW f, NEW D, NEW id, IsFiniteSet(D), id \notin D,
         \A i \in D : f[i] = e[i],
         NEW n \in 1 .. MaxItemBytes, Size[f[id].bytes] = n
  PROVE  BytesAt(f, D \cup {id}) = BytesAt(e, D) + n
<1>. DEFINE New == {id} \X (1 .. n)
<1>0. n \in Nat /\ n >= 1
  BY LimitsAssumption
<1>1. Positions(f, D \cup {id}) = Positions(e, D) \cup New
  BY LimitsAssumption DEF Positions
<1>2. IsFiniteSet(New) /\ Cardinality(New) = n
  <2>1. IsFiniteSet(1 .. n) /\ Cardinality(1 .. n) = n
    BY <1>0, FS_Interval
  <2>2. IsFiniteSet({id}) /\ Cardinality({id}) = 1
    BY FS_Singleton
  <2>3. IsFiniteSet(New) /\ Cardinality(New) = Cardinality({id}) * Cardinality(1 .. n)
    BY <2>1, <2>2, FS_Product
  <2>. QED
    BY <1>0, <2>1, <2>2, <2>3
<1>3. Positions(e, D) \cap New = {}
  BY DEF Positions
<1>4. IsFiniteSet(Positions(e, D)) /\ BytesAt(e, D) \in Nat
  BY PositionsFinite
<1>5. Cardinality(Positions(e, D) \cap New) = 0
  BY <1>3, FS_EmptySet
<1>6. Cardinality(Positions(e, D) \cup New)
        = Cardinality(Positions(e, D)) + Cardinality(New)
            - Cardinality(Positions(e, D) \cap New)
  BY <1>2, <1>4, FS_Union
<1>. HIDE DEF New
<1>7. Cardinality(Positions(e, D) \cup New) = BytesAt(e, D) + n
  BY <1>0, <1>2, <1>4, <1>5, <1>6 DEF BytesAt
<1>8. BytesAt(f, D \cup {id}) = Cardinality(Positions(e, D) \cup New)
  BY <1>1 DEF BytesAt
<1>. QED
  BY <1>7, <1>8

-----------------------------------------------------------------------------
(* Lemmas about removal. *)

\* Removing any set of stored addresses keeps a store sound.
LEMMA RemoveSound ==
  ASSUME NEW s, Sound(s), NEW I, I \subseteq DOMAIN s.entries
  PROVE  Sound(RemoveIds(s, I))
<1>. DEFINE r == RemoveIds(s, I)
            D == DOMAIN s.entries
<1>1. /\ r = [entries |-> r.entries, age_order |-> r.age_order,
              total_bytes |-> r.total_bytes, next_order |-> r.next_order]
      /\ r.entries = [i \in D \ I |-> s.entries[i]]
      /\ r.age_order = s.age_order \ {AgeKey(s.entries, i) : i \in I}
      /\ r.total_bytes = s.total_bytes - BytesAt(s.entries, I)
      /\ r.next_order = s.next_order
  BY DEF RemoveIds
<1>2. /\ IsFiniteSet(D) /\ D \subseteq Ids /\ s.entries \in [D -> Entry]
      /\ s.total_bytes \in Nat /\ s.next_order \in Nat
  BY DEF Sound, IsStore
<1>. HIDE DEF r
<1>3. DOMAIN r.entries = D \ I /\ \A i \in D \ I : r.entries[i] = s.entries[i]
  BY <1>1
<1>4. IsFiniteSet(D \ I) /\ Cardinality(D \ I) <= Cardinality(D)
  BY <1>2, FS_Subset
<1>5. IsFiniteSet(I)
  BY <1>2, FS_Subset
<1>6. r.total_bytes = BytesAt(r.entries, D \ I)
  BY <1>1, <1>2, <1>3, BytesSplit DEF Sound, Consistent
<1>7. r.total_bytes \in Nat /\ r.total_bytes <= s.total_bytes
  BY <1>1, <1>2, <1>4, <1>5, <1>6, PositionsFinite
<1>8. IsStore(r)
  <2>1. r.entries \in [D \ I -> Entry]
    BY <1>1, <1>2
  <2>. QED
    BY <1>1, <1>2, <1>3, <1>4, <1>7, <2>1 DEF IsStore
<1>9. Consistent(r)
  <2>1. r.age_order = {AgeKey(r.entries, i) : i \in D \ I}
    <3>1. s.age_order = {AgeKey(s.entries, i) : i \in D}
      BY DEF Sound, Consistent
    <3>2. \A i, j \in D : AgeKey(s.entries, i) = AgeKey(s.entries, j) => i = j
      BY DEF AgeKey
    <3>3. \A i \in D \ I : AgeKey(r.entries, i) = AgeKey(s.entries, i)
      BY <1>3 DEF AgeKey
    <3>. QED
      BY <1>1, <3>1, <3>2, <3>3
  <2>2. \A i, j \in D \ I : r.entries[i].order = r.entries[j].order => i = j
    BY <1>3 DEF Sound, Consistent
  <2>3. \A i \in D \ I : r.entries[i].order < r.next_order
    BY <1>1, <1>3 DEF Sound, Consistent
  <2>. QED
    BY <1>3, <1>6, <2>1, <2>2, <2>3 DEF Consistent
<1>10. Addressed(r)
  BY <1>3 DEF Sound, Addressed
<1>11. Bounded(r)
  <2>1. Cardinality(D) \in Nat /\ Cardinality(D \ I) \in Nat
    BY <1>2, <1>4, FS_CardinalityType
  <2>. QED
    BY <1>2, <1>3, <1>4, <1>7, <2>1, LimitsAssumption DEF Sound, Bounded
<1>. QED
  BY <1>8, <1>9, <1>10, <1>11 DEF Sound, r

\* The index names only stored addresses.
LEMMA IndexNamesEntries ==
  ASSUME NEW s, Sound(s), NEW K, K \subseteq s.age_order
  PROVE  IdsOf(K) \subseteq DOMAIN s.entries
  BY DEF Sound, Consistent, AgeKey, IdsOf

\* Expiry keeps a store sound.
LEMMA EvictExpiredSound ==
  ASSUME NEW s, Sound(s), NEW now
  PROVE  /\ Sound(EvictExpired(s, now))
         /\ EvictExpired(s, now).next_order = s.next_order
         /\ DOMAIN EvictExpired(s, now).entries \subseteq DOMAIN s.entries
<1>1. ExpiredPrefix(s, now) \subseteq s.age_order
  BY DEF ExpiredPrefix
<1>2. IdsOf(ExpiredPrefix(s, now)) \subseteq DOMAIN s.entries
  BY <1>1, IndexNamesEntries
<1>3. Sound(RemoveIds(s, IdsOf(ExpiredPrefix(s, now))))
  BY <1>2, RemoveSound
<1>. QED
  BY <1>3 DEF EvictExpired, RemoveIds

-----------------------------------------------------------------------------
(* Lemmas about making room and inserting. *)

\* Of two initial segments of the index one contains the other.
LEMMA SegmentsComparable ==
  ASSUME NEW s, Sound(s), NEW K \in SUBSET s.age_order, NEW L \in SUBSET s.age_order,
         OldestFirst(s.age_order, K), OldestFirst(s.age_order, L)
  PROVE  K \subseteq L \/ L \subseteq K
<1>1. \A k \in s.age_order : k[1] \in Nat /\ k[2] \in Nat
  BY DEF Sound, Consistent, IsStore, AgeKey, Entry
<1>2. SUFFICES ASSUME NEW k \in K \ L, NEW l \in L \ K
               PROVE  FALSE
  OBVIOUS
<1>3. Older(k, l) /\ Older(l, k)
  BY DEF OldestFirst
<1>. QED
  BY <1>1, <1>3 DEF Older

\* The eviction loop of `put' always ends with room for a payload that passed
\* the item limit, so its `ok_or(ArithmeticOverflow)' is never taken; and what
\* it evicts is the smallest initial segment of the index that makes room.
THEOREM VictimsExist ==
  ASSUME NEW s, Sound(s), NEW len \in 1 .. MaxItemBytes
  PROVE  LET K == CapacityVictims(s, len)
         IN  /\ K \in SUBSET s.age_order
             /\ MakesRoom(s, len, K)
             /\ \A L \in SUBSET s.age_order : MakesRoom(s, len, L) => K \subseteq L
<1>. DEFINE A == s.age_order
            Good == {K \in SUBSET A : MakesRoom(s, len, K)}
<1>1. A \in Good
  <2>1. IdsOf(A) = DOMAIN s.entries
    <3>1. A = {AgeKey(s.entries, i) : i \in DOMAIN s.entries}
      BY DEF Sound, Consistent
    <3>2. \A i \in DOMAIN s.entries : AgeKey(s.entries, i)[3] = i
      BY DEF AgeKey
    <3>. QED
      BY <3>1, <3>2 DEF IdsOf
  <2>2. DOMAIN RemoveIds(s, IdsOf(A)).entries = {}
    BY <2>1 DEF RemoveIds
  <2>3. RemoveIds(s, IdsOf(A)).total_bytes = 0
    <3>1. BytesAt(s.entries, DOMAIN s.entries) = s.total_bytes /\ s.total_bytes \in Nat
      BY DEF Sound, Consistent, IsStore
    <3>. QED
      BY <2>1, <3>1 DEF RemoveIds
  <2>4. HasRoom(RemoveIds(s, IdsOf(A)), len)
    BY <2>2, <2>3, FS_EmptySet, LimitsAssumption DEF HasRoom
  <2>5. OldestFirst(A, A)
    BY DEF OldestFirst
  <2>. QED
    BY <2>4, <2>5 DEF MakesRoom
<1>2. IsFiniteSet(A)
  <2>. DEFINE D == DOMAIN s.entries
              f == [i \in D |-> AgeKey(s.entries, i)]
  <2>1. IsFiniteSet(D) /\ A = {AgeKey(s.entries, i) : i \in D}
    BY DEF Sound, IsStore, Consistent
  <2>2. f \in Surjection(D, A)
    BY <2>1 DEF Surjection
  <2>. QED
    BY <2>1, <2>2, FS_Surjection
<1>3. PICK K \in Good : \A L \in Good : <<L, K>> \notin StrictSubsetOrdering(A)
  <2>1. IsWellFoundedOn(StrictSubsetOrdering(A), SUBSET A)
    BY <1>2, FS_StrictSubsetOrderingWellFounded, FS_FiniteSubsetsOfFinite
  <2>2. Good \subseteq SUBSET A /\ Good # {}
    BY <1>1
  <2>. HIDE DEF Good
  <2>. QED
    BY <2>1, <2>2, WFMin
<1>4. \A L \in Good : K \subseteq L
  <2>1. SUFFICES ASSUME NEW L \in Good
                 PROVE  K \subseteq L
    OBVIOUS
  <2>2. K \subseteq L \/ L \subseteq K
    BY <2>1, <1>3, SegmentsComparable DEF MakesRoom
  <2>3. ~(L \subseteq K /\ L # K)
    BY <1>3, <2>1 DEF StrictSubsetOrdering
  <2>. QED
    BY <2>2, <2>3
<1>. QED
  BY <1>3, <1>4 DEF CapacityVictims

\* Making room keeps the store sound.
LEMMA MakeRoomSound ==
  ASSUME NEW s, Sound(s), NEW len \in 1 .. MaxItemBytes
  PROVE  /\ Sound(MakeRoom(s, len))
         /\ HasRoom(MakeRoom(s, len), len)
         /\ MakeRoom(s, len).next_order = s.next_order
         /\ DOMAIN MakeRoom(s, len).entries \subseteq DOMAIN s.entries
<1>. DEFINE K == CapacityVictims(s, len)
<1>1. K \in SUBSET s.age_order /\ MakesRoom(s, len, K)
  BY VictimsExist
<1>. HIDE DEF K
<1>2. IdsOf(K) \subseteq DOMAIN s.entries
  BY <1>1, IndexNamesEntries
<1>3. Sound(RemoveIds(s, IdsOf(K)))
  BY <1>2, RemoveSound
<1>4. MakeRoom(s, len) = RemoveIds(s, IdsOf(K))
  BY DEF MakeRoom, K
<1>5. HasRoom(RemoveIds(s, IdsOf(K)), len)
  BY <1>1 DEF MakesRoom
<1>6. /\ RemoveIds(s, IdsOf(K)).next_order = s.next_order
      /\ DOMAIN RemoveIds(s, IdsOf(K)).entries \subseteq DOMAIN s.entries
  BY DEF RemoveIds
<1>. QED
  BY <1>3, <1>4, <1>5, <1>6

\* Inserting a new payload where there is room keeps the store sound.
LEMMA InsertSound ==
  ASSUME NEW s, Sound(s), NEW c \in Contents, NEW now \in Nat,
         Size[c] \in 1 .. MaxItemBytes,
         Digest[c] \notin DOMAIN s.entries,
         HasRoom(s, Size[c])
  PROVE  Sound(Insert(s, c, now))
<1>. DEFINE r == Insert(s, c, now)
            D == DOMAIN s.entries
            id == Digest[c]
            new == [bytes |-> c, created_tick |-> now, order |-> s.next_order]
<1>1. /\ IsFiniteSet(D) /\ D \subseteq Ids /\ s.entries \in [D -> Entry]
      /\ s.total_bytes \in Nat /\ s.next_order \in Nat /\ id \in Ids
  BY ContentAssumption DEF Sound, IsStore
<1>2. new \in Entry /\ new.bytes = c /\ new.order = s.next_order /\ new.created_tick = now
  BY <1>1 DEF Entry
<1>3. /\ r = [entries |-> r.entries, age_order |-> r.age_order,
              total_bytes |-> r.total_bytes, next_order |-> r.next_order]
      /\ r.entries = [i \in D \cup {id} |-> IF i = id THEN new ELSE s.entries[i]]
      /\ r.age_order = s.age_order \cup {<<now, s.next_order, id>>}
      /\ r.total_bytes = s.total_bytes + Size[c]
      /\ r.next_order = s.next_order + 1
  BY DEF Insert
<1>. HIDE DEF r, new
<1>4. /\ DOMAIN r.entries = D \cup {id}
      /\ r.entries[id] = new
      /\ \A i \in D : r.entries[i] = s.entries[i]
  BY <1>3
<1>5. /\ IsFiniteSet(D \cup {id})
      /\ Cardinality(D \cup {id}) = Cardinality(D) + 1
      /\ Cardinality(D) \in Nat
  BY <1>1, FS_AddElement, FS_CardinalityType
<1>6. r.total_bytes = BytesAt(r.entries, D \cup {id})
  <2>1. Size[r.entries[id].bytes] = Size[c]
    BY <1>2, <1>4
  <2>2. BytesAt(r.entries, D \cup {id}) = BytesAt(s.entries, D) + Size[c]
    <3>1. IsFiniteSet(D) /\ id \notin D
      BY <1>1
    <3>2. \A i \in D : r.entries[i] = s.entries[i]
      BY <1>4
    <3>. HIDE DEF D, id
    <3>. QED
      BY <2>1, <3>1, <3>2, BytesInsert
  <2>. QED
    BY <1>2, <1>3, <1>4, <2>2 DEF Sound, Consistent
<1>7. Size[c] \in Nat
  BY ContentAssumption
<1>8. IsStore(r)
  <2>1. r.entries \in [D \cup {id} -> Entry]
    BY <1>1, <1>2, <1>3
  <2>2. r.total_bytes \in Nat /\ r.next_order \in Nat
    BY <1>1, <1>3, <1>7
  <2>. QED
    BY <1>1, <1>3, <1>4, <1>5, <2>1, <2>2 DEF IsStore
<1>9. Consistent(r)
  <2>1. r.age_order = {AgeKey(r.entries, i) : i \in D \cup {id}}
    <3>1. s.age_order = {AgeKey(s.entries, i) : i \in D}
      BY DEF Sound, Consistent
    <3>2. \A i \in D : AgeKey(r.entries, i) = AgeKey(s.entries, i)
      BY <1>4 DEF AgeKey
    <3>3. AgeKey(r.entries, id) = <<now, s.next_order, id>>
      BY <1>2, <1>4 DEF AgeKey
    <3>. QED
      BY <1>3, <3>1, <3>2, <3>3
  <2>2. \A i \in D : s.entries[i].order \in Nat /\ s.entries[i].order < s.next_order
    BY <1>1 DEF Sound, Consistent, Entry
  <2>3. \A i \in D \cup {id} : r.entries[i].order < r.next_order
    BY <1>1, <1>2, <1>3, <1>4, <2>2
  <2>4. \A i, j \in D : s.entries[i].order = s.entries[j].order => i = j
    BY DEF Sound, Consistent
  <2>5. \A i, j \in D \cup {id} : r.entries[i].order = r.entries[j].order => i = j
    BY <1>1, <1>2, <1>4, <2>2, <2>4
  <2>. QED
    BY <1>4, <1>6, <2>1, <2>3, <2>5 DEF Consistent
<1>10. Addressed(r)
  BY <1>2, <1>4 DEF Sound, Addressed
<1>11. Bounded(r)
  BY <1>1, <1>3, <1>4, <1>5, <1>7, LimitsAssumption DEF HasRoom, Bounded
<1>. QED
  BY <1>8, <1>9, <1>10, <1>11 DEF Sound, r

\* `put' keeps a store sound, whatever it answers.
LEMMA PutSound ==
  ASSUME NEW s, Sound(s), NEW c \in Contents, NEW now \in Nat
  PROVE  Sound(PutStore(s, c, now))
<1>. DEFINE fresh == EvictExpired(s, now)
<1>1. Sound(fresh)
  BY EvictExpiredSound
<1>2. CASE Malformed(c) \/ Digest[c] \in DOMAIN fresh.entries
  BY <1>1, <1>2 DEF PutStore
<1>3. CASE ~Malformed(c) /\ Digest[c] \notin DOMAIN fresh.entries
  <2>1. Size[c] \in 1 .. MaxItemBytes
    BY <1>3, ContentAssumption, LimitsAssumption DEF Malformed
  <2>. DEFINE roomy == MakeRoom(fresh, Size[c])
  <2>2. /\ Sound(roomy) /\ HasRoom(roomy, Size[c])
        /\ DOMAIN roomy.entries \subseteq DOMAIN fresh.entries
    BY <1>1, <2>1, MakeRoomSound
  <2>3. PutStore(s, c, now) \in {roomy, Insert(roomy, c, now)}
    BY <1>3 DEF PutStore
  <2>. HIDE DEF fresh, roomy
  <2>4. Sound(Insert(roomy, c, now))
    BY <1>3, <2>1, <2>2, InsertSound
  <2>. QED
    BY <2>2, <2>3, <2>4
<1>. QED
  BY <1>2, <1>3

-----------------------------------------------------------------------------
(* The state machine. *)

LEMMA EmptySound == ASSUME NEW n \in Nat
                    PROVE  Sound(ClearedStore(n))
<1>. DEFINE s == ClearedStore(n)
<1>1. /\ s = [entries |-> s.entries, age_order |-> s.age_order,
              total_bytes |-> s.total_bytes, next_order |-> s.next_order]
      /\ s.age_order = {} /\ s.total_bytes = 0 /\ s.next_order = n
      /\ DOMAIN s.entries = {} /\ s.entries \in [{} -> Entry]
  BY DEF ClearedStore
<1>. HIDE DEF s
<1>2. IsFiniteSet({}) /\ Cardinality({}) = 0
  BY FS_EmptySet
<1>3. BytesAt(s.entries, {}) = 0
  BY <1>2 DEF BytesAt, Positions
<1>4. IsStore(s)
  BY <1>1, <1>2 DEF IsStore
<1>5. Consistent(s)
  BY <1>1, <1>3 DEF Consistent
<1>6. Addressed(s)
  BY <1>1 DEF Addressed
<1>7. Bounded(s)
  BY <1>1, <1>2, LimitsAssumption DEF Bounded
<1>. QED
  BY <1>4, <1>5, <1>6, <1>7 DEF Sound, s

LEMMA FreshStoreSound == Sound(EmptyStore)
  BY EmptySound DEF EmptyStore

\* A batch that returned leaves no trace in the clone.
LEMMA BatchReturnsInv ==
  ASSUME NEW answer, BatchReturns(answer)
  PROVE  Sound(trial)' /\ IsBatch'
<1>1. trial' = EmptyStore /\ batch' = NoBatch
  BY DEF BatchReturns
<1>2. IsBatch'
  BY <1>1 DEF NoBatch, IsBatch
<1>3. Sound(trial')
  BY <1>1, FreshStoreSound
<1>. QED
  BY <1>2, <1>3 DEF Sound, IsStore, Consistent, Addressed, Bounded

\* put_batch begins on a copy of the store, whatever the payloads.
LEMMA BatchBeginInv ==
  ASSUME Inv, NEW payloads \in Seq(Contents), NEW now \in Nat, BatchBegin(payloads, now)
  PROVE  Inv'
<1>1. IsBatch'
  BY DEF BatchBegin, IsBatch
<1>. QED
  BY <1>1 DEF BatchBegin, Inv, Sound, IsStore, Consistent, Addressed, Bounded

LEMMA InvInductive == Inv /\ [Next]_vars => Inv'
<1>. SUFFICES ASSUME Inv, [Next]_vars
              PROVE  Inv'
  OBVIOUS
<1>. USE DEF Inv
<1>0. Sound(store') /\ Sound(trial') /\ IsBatch' => Inv'
  BY DEF Sound, IsStore, Consistent, Addressed, Bounded
<1>1. ASSUME NEW c \in Contents, NEW now \in Ticks, Put(c, now)
      PROVE  Inv'
  <2>1. Sound(store')
    BY <1>1, PutSound, CallerAssumption DEF Put
  <2>. QED
    BY <1>0, <1>1, <2>1 DEF Put, IsBatch
<1>2. ASSUME NEW payloads \in Payloads, NEW now \in Ticks, BatchBegin(payloads, now)
      PROVE  Inv'
  BY <1>2, BatchBeginInv, CallerAssumption
<1>3. CASE BatchPut
  <2>. DEFINE c == Head(batch.todo)
  <2>1. c \in Contents /\ Tail(batch.todo) \in Seq(Contents) /\ batch.now \in Nat
    BY <1>3 DEF BatchPut, IsBatch
  <2>2. CASE /\ trial' = PutStore(trial, c, batch.now)
             /\ batch' = [batch EXCEPT !.todo = Tail(@),
                                       !.ids = @ \cup {Digest[c]},
                                       !.wrote = @ \cup {c}]
    <3>1. Sound(trial')
      BY <2>1, <2>2, PutSound
    <3>2. IsBatch'
      BY <2>1, <2>2 DEF IsBatch
    <3>. QED
      BY <1>0, <1>3, <3>1, <3>2 DEF BatchPut
  <2>3. CASE \E answer : BatchReturns(answer)
    BY <1>0, <1>3, <2>3, BatchReturnsInv DEF BatchPut
  <2>. QED
    BY <1>3, <2>2, <2>3 DEF BatchPut
<1>4. CASE BatchEnd
  <2>1. store' \in {store, trial} /\ \E answer : BatchReturns(answer)
    BY <1>4 DEF BatchEnd
  <2>. QED
    BY <1>0, <2>1, BatchReturnsInv
<1>5. ASSUME NEW id \in Ids, NEW now \in Ticks, Get(id, now)
      PROVE  Inv'
  BY <1>0, <1>5, EvictExpiredSound DEF Get, IsBatch
<1>6. ASSUME NEW id \in Ids, Remove(id)
      PROVE  Inv'
  <2>1. Sound(store')
    BY <1>6, RemoveSound DEF Remove
  <2>. QED
    BY <1>0, <1>6, <2>1 DEF Remove, IsBatch
<1>7. CASE Clear
  <2>1. store.next_order \in Nat
    BY DEF Sound, IsStore
  <2>. QED
    BY <1>0, <1>7, <2>1, EmptySound DEF Clear, IsBatch
<1>8. CASE UNCHANGED vars
  BY <1>0, <1>8 DEF vars, IsBatch
<1>. QED
  BY <1>1, <1>2, <1>3, <1>4, <1>5, <1>6, <1>7, <1>8 DEF Next

LEMMA InvInit == Init => Inv
<1>. SUFFICES ASSUME Init PROVE Inv
  OBVIOUS
<1>1. IsBatch
  BY DEF Init, NoBatch, IsBatch
<1>. QED
  BY <1>1, FreshStoreSound DEF Init, Inv

\* Type correctness of the store, the clone and the batch.
THEOREM TypeCorrect == Spec => []TypeOK
<1>1. Inv => TypeOK
  BY DEF Inv, Sound, TypeOK
<1>. QED
  BY <1>1, InvInit, InvInductive, PTL DEF Spec

\* The age index, the entries and the byte total of a store never drift
\* apart, for any limits and any sequence of operations and ticks.
THEOREM IndexAlwaysExact == Spec => []IndexExact
<1>1. Inv => IndexExact
  BY DEF Inv, Sound, IndexExact
<1>. QED
  BY <1>1, InvInit, InvInductive, PTL DEF Spec

\* No sequence of operations exceeds the configured capacity or files a
\* payload under a digest that is not its own.
THEOREM CapacityHolds == Spec => []WithinLimits
<1>1. Inv => WithinLimits
  BY DEF Inv, Sound, WithinLimits
<1>. QED
  BY <1>1, InvInit, InvInductive, PTL DEF Spec

\* The index, the byte total and the limits, of the store and of a batch's clone.
THEOREM BookkeepingAlwaysExact == Spec => []BookkeepingExact
<1>1. IndexExact /\ WithinLimits => BookkeepingExact
  BY DEF BookkeepingExact
<1>. QED
  BY <1>1, IndexAlwaysExact, CapacityHolds, PTL

-----------------------------------------------------------------------------
(* Freshness: why an acknowledged payload can be fetched. *)

\* The ticks of a sound store's index are naturals.
LEMMA IndexTyped ==
  ASSUME NEW s, Sound(s)
  PROVE  \A k \in s.age_order : k[1] \in Nat /\ k[2] \in Nat
  BY DEF Sound, Consistent, IsStore, AgeKey, Entry

\* evict_expired stops at the first young key, and yet leaves no expired one.
LEMMA EvictExpiredFresh ==
  ASSUME NEW s, Sound(s), NEW now \in Nat
  PROVE  Fresh(EvictExpired(s, now), now)
<1>. DEFINE gone == ExpiredPrefix(s, now)
<1>1. EvictExpired(s, now).age_order
        = s.age_order \ {AgeKey(s.entries, i) : i \in IdsOf(gone)}
  BY DEF EvictExpired, RemoveIds
<1>2. gone \subseteq {AgeKey(s.entries, i) : i \in IdsOf(gone)}
  <2>1. \A k \in s.age_order : k = AgeKey(s.entries, k[3])
    BY DEF Sound, Consistent, AgeKey
  <2>. QED
    BY <2>1 DEF IdsOf, ExpiredPrefix
<1>3. \A k \in s.age_order \ gone : ~Expired(k[1], now)
  <2>1. SUFFICES ASSUME NEW k \in s.age_order \ gone
                 PROVE  ~Expired(k[1], now)
    OBVIOUS
  <2>2. PICK j \in s.age_order : (j = k \/ Older(j, k)) /\ ~Expired(j[1], now)
    BY <2>1 DEF ExpiredPrefix
  <2>3. j[1] \in Nat /\ k[1] \in Nat /\ j[1] <= k[1]
    BY <2>1, <2>2, IndexTyped DEF Older
  <2>. QED
    BY <2>2, <2>3, LimitsAssumption DEF Expired
<1>. QED
  BY <1>1, <1>2, <1>3 DEF Fresh

\* On a fresh store the next expiry changes nothing.
LEMMA FreshRetrievable ==
  ASSUME NEW s, Sound(s), NEW now, Fresh(s, now), NEW id \in DOMAIN s.entries
  PROVE  Retrievable(s, id, now)
<1>1. ExpiredPrefix(s, now) = {}
  BY DEF Fresh, ExpiredPrefix
<1>2. IdsOf(ExpiredPrefix(s, now)) = {}
  BY <1>1 DEF IdsOf
<1>. QED
  BY <1>2 DEF Retrievable, EvictExpired, RemoveIds

\* A successful `put' leaves a fresh store that holds the payload.
LEMMA PutFresh ==
  ASSUME NEW s, Sound(s), NEW c \in Contents, NEW now \in Nat,
         PutError(s, c, now) = "none"
  PROVE  /\ Fresh(PutStore(s, c, now), now)
         /\ Digest[c] \in DOMAIN PutStore(s, c, now).entries
<1>. DEFINE fresh == EvictExpired(s, now)
<1>1. Sound(fresh) /\ Fresh(fresh, now)
  BY EvictExpiredSound, EvictExpiredFresh
<1>2. ~Malformed(c)
  BY DEF PutError, Malformed
<1>3. CASE Digest[c] \in DOMAIN fresh.entries
  BY <1>1, <1>2, <1>3 DEF PutStore
<1>4. CASE Digest[c] \notin DOMAIN fresh.entries
  <2>. DEFINE roomy == MakeRoom(fresh, Size[c])
  <2>1. s.next_order # MaxOrder
    BY <1>2, <1>4 DEF PutError, Malformed
  <2>2. PutStore(s, c, now) = Insert(roomy, c, now)
    BY <1>2, <1>4, <2>1 DEF PutStore
  <2>3. roomy.age_order \subseteq fresh.age_order
    BY DEF MakeRoom, RemoveIds
  <2>4. ~Expired(now, now)
    BY LimitsAssumption DEF Expired
  <2>5. /\ Insert(roomy, c, now).age_order
             = roomy.age_order \cup {<<now, roomy.next_order, Digest[c]>>}
        /\ Digest[c] \in DOMAIN Insert(roomy, c, now).entries
    BY DEF Insert
  <2>. QED
    BY <1>1, <2>2, <2>3, <2>4, <2>5 DEF Fresh
<1>. QED
  BY <1>3, <1>4

LEMMA AckInductive == Inv /\ AckInv /\ [Next]_vars => AckInv'
<1>. SUFFICES ASSUME Inv, AckInv, [Next]_vars
              PROVE  AckInv'
  OBVIOUS
<1>1. ASSUME NEW c \in Contents, NEW now \in Ticks, Put(c, now)
      PROVE  AckInv'
  <2>1. reply'.kind = "stored" =>
          reply' = Stored({Digest[c]}, now) /\ PutError(store, c, now) = "none"
    BY <1>1 DEF Put
  <2>2. reply'.kind = "stored" =>
          Fresh(store', now) /\ Digest[c] \in DOMAIN store'.entries
    BY <1>1, <2>1, PutFresh, CallerAssumption DEF Put, Inv
  <2>. QED
    BY <1>1, <2>1, <2>2 DEF AckInv, Put, Stored, Fresh
<1>2. ASSUME NEW payloads \in Payloads, NEW now \in Ticks, BatchBegin(payloads, now)
      PROVE  AckInv'
  BY <1>2 DEF AckInv, BatchBegin, Fresh
<1>3. CASE BatchPut
  <2>. DEFINE c == Head(batch.todo)
  <2>1. c \in Contents /\ batch.now \in Nat
    BY <1>3 DEF BatchPut, Inv, IsBatch
  <2>2. CASE PutError(trial, c, batch.now) = "none"
    <3>1. trial' = PutStore(trial, c, batch.now)
      BY <1>3, <2>2 DEF BatchPut
    <3>2. Fresh(PutStore(trial, c, batch.now), batch.now)
      BY <2>1, <2>2, PutFresh DEF Inv
    <3>3. batch'.now = batch.now
      BY <1>3, <2>2 DEF BatchPut, Inv, IsBatch
    <3>. QED
      BY <1>3, <2>2, <3>1, <3>2, <3>3 DEF AckInv, BatchPut, Fresh
  <2>3. CASE PutError(trial, c, batch.now) # "none"
    BY <1>3, <2>3 DEF AckInv, BatchPut, BatchReturns, NoBatch
  <2>. QED
    BY <2>2, <2>3
<1>4. CASE BatchEnd
  <2>1. CASE BatchError = "none"
    <3>1. batch.ids # {} /\ batch.ids \subseteq DOMAIN trial.entries
      BY <2>1 DEF BatchError
    <3>2. Fresh(trial, batch.now)
      BY <1>4, <3>1 DEF AckInv, BatchEnd
    <3>. QED
      BY <1>4, <2>1, <3>1, <3>2 DEF AckInv, BatchEnd, BatchReturns, Stored, NoBatch, Fresh
  <2>2. CASE BatchError # "none"
    BY <1>4, <2>2 DEF AckInv, BatchEnd, BatchReturns, NoBatch
  <2>. QED
    BY <2>1, <2>2
<1>5. ASSUME NEW id \in Ids, NEW now \in Ticks, Get(id, now)
      PROVE  AckInv'
  BY <1>5 DEF AckInv, Get
<1>6. ASSUME NEW id \in Ids, Remove(id)
      PROVE  AckInv'
  BY <1>6 DEF AckInv, Remove
<1>7. CASE Clear
  BY <1>7 DEF AckInv, Clear
<1>8. CASE UNCHANGED vars
  BY <1>8 DEF AckInv, vars, Fresh
<1>. QED
  BY <1>1, <1>2, <1>3, <1>4, <1>5, <1>6, <1>7, <1>8 DEF Next

\* Whoever was told that payloads are stored can fetch each of them at the
\* tick of that call, for any limits, ticks and digests.
THEOREM AckedAlwaysRetrievable == Spec => []AckedRetrievable
<1>1. Init => AckInv
  BY DEF Init, AckInv, NoBatch
<1>2. Inv /\ AckInv => AckedRetrievable
  BY FreshRetrievable DEF Inv, AckInv, AckedRetrievable
<1>. QED
  BY <1>1, <1>2, InvInit, InvInductive, AckInductive, PTL DEF Spec

-----------------------------------------------------------------------------
(* Eviction goes from the oldest entry on. *)

\* Of the index A, B has lost an initial segment.
LeavesYounger(A, B) == \A gone \in A \ B, kept \in A \cap B : Older(gone, kept)

(* EvictsOldestFirst speaks of a whole batch: its clone has lost an initial   *)
(* segment of the store's index, also when a payload evicted one that went in *)
(* a moment before.                                                           *)
OldestInv ==
    batch.active =>
        /\ store.next_order <= trial.next_order
        /\ LeavesYounger(store.age_order, trial.age_order)

\* Evicting twice evicts from the oldest on, when what came in between is newer
\* than all there was.
LEMMA LeavesYoungerAgain ==
  ASSUME NEW A, NEW B, NEW C, NEW n \in Nat, NEW m \in Nat, n <= m,
         \A k \in A : k[2] \in Nat /\ k[2] < n,
         \A k \in C \ B : k[2] \in Nat /\ k[2] >= m,
         LeavesYounger(A, B), LeavesYounger(B, C)
  PROVE  LeavesYounger(A, C)
<1> SUFFICES ASSUME NEW gone \in A \ C, NEW kept \in A \cap C
             PROVE  Older(gone, kept)
  BY DEF LeavesYounger
<1>1. kept \in B
  OBVIOUS
<1> QED BY <1>1 DEF LeavesYounger

\* Removing the keys of a part of the index leaves the rest of it.
LEMMA RemoveKeys ==
  ASSUME NEW s, Sound(s), NEW K \in SUBSET s.age_order
  PROVE  RemoveIds(s, IdsOf(K)).age_order = s.age_order \ K
<1>1. \A k \in s.age_order : k = AgeKey(s.entries, k[3])
  BY DEF Sound, Consistent, AgeKey
<1>2. {AgeKey(s.entries, i) : i \in IdsOf(K)} = K
  BY <1>1 DEF IdsOf
<1> QED BY <1>2 DEF RemoveIds

\* The index is ordered: of two keys one is the older.
LEMMA IndexOrdered ==
  ASSUME NEW s, Sound(s), NEW j \in s.age_order, NEW k \in s.age_order, j # k
  PROVE  Older(j, k) \/ Older(k, j)
<1>1. PICK x \in DOMAIN s.entries : j = AgeKey(s.entries, x)
  BY DEF Sound, Consistent
<1>2. PICK y \in DOMAIN s.entries : k = AgeKey(s.entries, y)
  BY DEF Sound, Consistent
<1>3. x # y
  BY <1>1, <1>2
<1>4. s.entries[x].order # s.entries[y].order
  BY <1>3 DEF Sound, Consistent
<1>5. j[2] # k[2]
  BY <1>1, <1>2, <1>4 DEF AgeKey
<1> QED BY <1>5, IndexTyped DEF Older

\* What expires is older than what stays, although ticks need not grow.
LEMMA ExpiryLeavesYounger ==
  ASSUME NEW s, Sound(s), NEW now
  PROVE  LeavesYounger(s.age_order, EvictExpired(s, now).age_order)
<1> DEFINE K == ExpiredPrefix(s, now)
<1>1. K \in SUBSET s.age_order
  BY DEF ExpiredPrefix
<1>2. EvictExpired(s, now).age_order = s.age_order \ K
  BY <1>1, RemoveKeys DEF EvictExpired
<1> SUFFICES ASSUME NEW gone \in K, NEW kept \in s.age_order \ K
             PROVE  Older(gone, kept)
  BY <1>2 DEF LeavesYounger
<1>3. PICK j \in s.age_order : (j = kept \/ Older(j, kept)) /\ ~Expired(j[1], now)
  BY DEF ExpiredPrefix
<1>4. gone \in s.age_order /\ j # gone /\ ~Older(j, gone)
  BY <1>3 DEF ExpiredPrefix
<1>5. Older(gone, j)
  BY <1>4, IndexOrdered
<1> QED BY <1>3, <1>4, <1>5, IndexTyped DEF Older

\* `put' takes an initial segment from the index, and what it adds is newer than
\* all there was.
LEMMA PutLeavesYounger ==
  ASSUME NEW s, Sound(s), NEW c \in Contents, NEW now \in Nat
  PROVE  /\ LeavesYounger(s.age_order, PutStore(s, c, now).age_order)
         /\ s.next_order <= PutStore(s, c, now).next_order
         /\ \A k \in PutStore(s, c, now).age_order \ s.age_order :
                k[2] \in Nat /\ k[2] >= s.next_order
<1> DEFINE fresh == EvictExpired(s, now)
           roomy == MakeRoom(fresh, Size[c])
<1>0. s.next_order \in Nat
  BY DEF Sound, IsStore
<1>1. /\ Sound(fresh) /\ fresh.next_order = s.next_order
      /\ LeavesYounger(s.age_order, fresh.age_order) /\ fresh.age_order \subseteq s.age_order
  <2>1. fresh.age_order \subseteq s.age_order
    BY DEF EvictExpired, RemoveIds
  <2> QED BY <2>1, EvictExpiredSound, ExpiryLeavesYounger
<1>2. CASE Malformed(c) \/ Digest[c] \in DOMAIN fresh.entries
  <2>1. PutStore(s, c, now) \in {s, fresh}
    BY <1>2 DEF PutStore
  <2> HIDE DEF fresh
  <2> QED BY <1>0, <1>1, <2>1 DEF LeavesYounger
<1>3. CASE ~Malformed(c) /\ Digest[c] \notin DOMAIN fresh.entries
  <2>1. Size[c] \in 1 .. MaxItemBytes
    BY <1>3, ContentAssumption, LimitsAssumption DEF Malformed
  <2> DEFINE K == CapacityVictims(fresh, Size[c])
  <2>2. K \in SUBSET fresh.age_order /\ OldestFirst(fresh.age_order, K)
    BY <1>1, <2>1, VictimsExist DEF MakesRoom
  <2>3. roomy.age_order = fresh.age_order \ K
    BY <1>1, <2>2, RemoveKeys DEF MakeRoom
  <2>4. roomy.next_order = s.next_order
    BY <1>1, <2>1, MakeRoomSound
  <2>5. PutStore(s, c, now) \in {roomy, Insert(roomy, c, now)}
    BY <1>3 DEF PutStore
  <2> DEFINE new == <<now, s.next_order, Digest[c]>>
             r == PutStore(s, c, now)
  <2>6. /\ Insert(roomy, c, now).age_order = roomy.age_order \cup {new}
        /\ Insert(roomy, c, now).next_order = s.next_order + 1
    BY <2>4 DEF Insert
  <2> HIDE DEF fresh, roomy, K
  <2>7. /\ r.age_order \in {fresh.age_order \ K, (fresh.age_order \ K) \cup {new}}
        /\ r.next_order \in {s.next_order, s.next_order + 1}
    BY <2>3, <2>4, <2>5, <2>6
  <2> HIDE DEF r
  <2>8. \A k \in fresh.age_order : k[2] \in Nat /\ k[2] < s.next_order
    <3>1. \A i \in DOMAIN fresh.entries : fresh.entries[i].order < fresh.next_order
      BY <1>1 DEF Sound, Consistent
    <3>2. \A k \in fresh.age_order : \E i \in DOMAIN fresh.entries : k[2] = fresh.entries[i].order
      BY <1>1 DEF Sound, Consistent, AgeKey
    <3> QED BY <1>1, <3>1, <3>2, IndexTyped
  <2>9. \A k \in s.age_order : k[2] \in Nat /\ k[2] < s.next_order
    <3>1. \A i \in DOMAIN s.entries : s.entries[i].order < s.next_order
      BY DEF Sound, Consistent
    <3>2. \A k \in s.age_order : \E i \in DOMAIN s.entries : k[2] = s.entries[i].order
      BY DEF Sound, Consistent, AgeKey
    <3> QED BY <3>1, <3>2, IndexTyped
  <2>10. LeavesYounger(fresh.age_order, r.age_order)
    <3>1. new \notin fresh.age_order
      BY <2>8, <1>0
    <3> QED BY <2>2, <2>7, <3>1 DEF LeavesYounger, OldestFirst
  <2>11. \A k \in r.age_order \ fresh.age_order : k[2] \in Nat /\ k[2] >= s.next_order
    BY <1>0, <2>7
  <2>12. LeavesYounger(s.age_order, r.age_order)
    BY <1>0, <1>1, <2>9, <2>10, <2>11, LeavesYoungerAgain
  <2>13. \A k \in r.age_order \ s.age_order : k[2] \in Nat /\ k[2] >= s.next_order
    BY <1>0, <1>1, <2>7
  <2> QED BY <1>0, <2>7, <2>12, <2>13 DEF r
<1> QED BY <1>2, <1>3

LEMMA OldestInductive ==
  ASSUME Inv, OldestInv, [Next]_vars
  PROVE  OldestInv'
<1>1. CASE batch' = NoBatch
  BY <1>1 DEF OldestInv, NoBatch
<1>2. ASSUME NEW payloads \in Payloads, NEW now \in Ticks, BatchBegin(payloads, now)
      PROVE  OldestInv'
  <2>1. store' = store /\ trial' = store /\ store.next_order \in Nat
    BY <1>2 DEF BatchBegin, Inv, Sound, IsStore
  <2> QED BY <2>1 DEF OldestInv, LeavesYounger
<1>3. CASE BatchPut /\ batch' # NoBatch
  <2> DEFINE c == Head(batch.todo)
             r == PutStore(trial, c, batch.now)
  <2>1. batch.active /\ trial' = r /\ store' = store
    BY <1>3 DEF BatchPut, BatchReturns
  <2>2. c \in Contents /\ batch.now \in Nat
    BY <1>3 DEF BatchPut, Inv, IsBatch
  <2>3. Sound(store) /\ Sound(trial)
    BY DEF Inv
  <2>4. /\ LeavesYounger(trial.age_order, r.age_order)
        /\ trial.next_order <= r.next_order
        /\ \A k \in r.age_order \ trial.age_order : k[2] \in Nat /\ k[2] >= trial.next_order
    BY <2>2, <2>3, PutLeavesYounger
  <2>5. Sound(r)
    BY <2>2, <2>3, PutSound
  <2> HIDE DEF r
  <2>6. store.next_order \in Nat /\ trial.next_order \in Nat /\ r.next_order \in Nat
    BY <2>3, <2>5 DEF Sound, IsStore
  <2>7. \A k \in store.age_order : k[2] \in Nat /\ k[2] < store.next_order
    <3>1. \A i \in DOMAIN store.entries : store.entries[i].order < store.next_order
      BY <2>3 DEF Sound, Consistent
    <3>2. \A k \in store.age_order : \E i \in DOMAIN store.entries : k[2] = store.entries[i].order
      BY <2>3 DEF Sound, Consistent, AgeKey
    <3> QED BY <2>3, <3>1, <3>2, IndexTyped
  <2>8. store.next_order <= trial.next_order /\ LeavesYounger(store.age_order, trial.age_order)
    BY <2>1 DEF OldestInv
  <2>9. LeavesYounger(store.age_order, r.age_order)
    BY <2>4, <2>6, <2>7, <2>8, LeavesYoungerAgain
  <2> QED BY <2>1, <2>4, <2>6, <2>8, <2>9 DEF OldestInv
<1>4. CASE UNCHANGED <<trial, batch>> /\ (batch.active => UNCHANGED store)
  BY <1>4 DEF OldestInv
<1> QED
  BY <1>1, <1>2, <1>3, <1>4
     DEF Next, vars, Put, BatchPut, BatchEnd, BatchReturns, Get, Remove, Clear

\* Capacity and expiry take the oldest entries, over a whole batch: whatever a
\* put that succeeds or fails, an acknowledged batch or a fetch evicts is older
\* than every entry that was there before and is still there, for any limits and
\* for ticks that go back.
THEOREM EvictionAlwaysOldestFirst == Spec => EvictsOldestFirst
<1> DEFINE P == reply'.kind # "removed" => LeavesYounger(store.age_order, store'.age_order)
<1>1. Init => OldestInv
  BY DEF Init, OldestInv, NoBatch
<1>2. ASSUME Inv, OldestInv, [Next]_vars PROVE P
  <2> SUFFICES ASSUME reply'.kind # "removed" PROVE LeavesYounger(store.age_order, store'.age_order)
    OBVIOUS
  <2>1. CASE UNCHANGED store
    BY <2>1 DEF LeavesYounger
  <2>2. ASSUME NEW c \in Contents, NEW now \in Ticks, Put(c, now)
        PROVE  LeavesYounger(store.age_order, store'.age_order)
    <3>1. store' = PutStore(store, c, now) /\ now \in Nat /\ Sound(store)
      BY <1>2, <2>2, CallerAssumption DEF Put, Inv
    <3>2. LeavesYounger(store.age_order, PutStore(store, c, now).age_order)
      BY <3>1, PutLeavesYounger
    <3> QED BY <3>1, <3>2
  <2>3. CASE BatchEnd /\ store' # store
    <3>1. store' = trial /\ batch.active
      BY <2>3 DEF BatchEnd
    <3> QED BY <1>2, <3>1 DEF OldestInv
  <2>4. ASSUME NEW payloads \in Payloads, NEW now \in Ticks, BatchBegin(payloads, now)
        PROVE  UNCHANGED store
    BY <2>4 DEF BatchBegin
  <2>5. ASSUME NEW id \in Ids, NEW now \in Ticks, Get(id, now)
        PROVE  LeavesYounger(store.age_order, store'.age_order)
    <3>1. store' = EvictExpired(store, now) /\ Sound(store)
      BY <1>2, <2>5 DEF Get, Inv
    <3> QED BY <3>1, ExpiryLeavesYounger
  <2>6. CASE BatchPut \/ UNCHANGED vars
    BY <2>1, <2>6 DEF BatchPut, vars
  <2>7. CASE BatchEnd
    BY <2>1, <2>3, <2>7
  <2>8. ASSUME NEW id \in Ids, Remove(id)
        PROVE  UNCHANGED store
    BY <1>2, <2>8 DEF Remove
  <2>9. ~Clear
    BY <1>2 DEF Clear
  <2> QED BY <1>2, <2>1, <2>2, <2>4, <2>5, <2>6, <2>7, <2>8, <2>9 DEF Next
<1>3. P = (reply'.kind # "removed" =>
             \A gone \in store.age_order \ store'.age_order,
                kept \in store.age_order \cap store'.age_order : Older(gone, kept))
  BY DEF LeavesYounger
<1>4. ASSUME Inv, OldestInv, [Next]_vars
      PROVE  [reply'.kind # "removed" =>
                \A gone \in store.age_order \ store'.age_order,
                   kept \in store.age_order \cap store'.age_order : Older(gone, kept)]_vars
  BY <1>2, <1>3, <1>4
<1> QED
  BY <1>1, <1>4, InvInit, InvInductive, OldestInductive, PTL DEF Spec, EvictsOldestFirst

-----------------------------------------------------------------------------
(* Refinement. *)

\* While a batch runs, its clone has nothing that is neither in the store nor
\* under an address the batch has returned.
CloneInv ==
    batch.active =>
        \A i \in DOMAIN trial.entries : i \in batch.ids \/ trial.entries[i].bytes \in Held(store)

\* Expiry and capacity take entries away and leave the others as they are.
LEMMA EvictionsKeepBytes ==
  ASSUME NEW s, NEW now, NEW len
  PROVE  /\ \A i \in DOMAIN EvictExpired(s, now).entries :
                i \in DOMAIN s.entries /\ EvictExpired(s, now).entries[i] = s.entries[i]
         /\ \A i \in DOMAIN MakeRoom(s, len).entries :
                i \in DOMAIN s.entries /\ MakeRoom(s, len).entries[i] = s.entries[i]
  BY DEF EvictExpired, MakeRoom, RemoveIds

\* put leaves under each address what was there, and its payload under its own.
LEMMA PutBytes ==
  ASSUME NEW s, NEW c \in Contents, NEW now
  PROVE  /\ \A i \in DOMAIN PutStore(s, c, now).entries :
                \/ i \in DOMAIN s.entries
                   /\ PutStore(s, c, now).entries[i].bytes = s.entries[i].bytes
                \/ /\ PutError(s, c, now) = "none"
                   /\ i = Digest[c] /\ PutStore(s, c, now).entries[i].bytes = c
         /\ PutError(s, c, now) = "none" =>
                /\ Digest[c] \in DOMAIN PutStore(s, c, now).entries
                /\ PutStore(s, c, now).entries[Digest[c]].bytes = c
<1>. DEFINE fresh == EvictExpired(s, now)
            roomy == MakeRoom(fresh, Size[c])
<1>1. /\ \A i \in DOMAIN fresh.entries : i \in DOMAIN s.entries /\ fresh.entries[i] = s.entries[i]
      /\ \A i \in DOMAIN roomy.entries :
             i \in DOMAIN fresh.entries /\ roomy.entries[i] = fresh.entries[i]
  BY EvictionsKeepBytes
<1>2. CASE Malformed(c)
  BY <1>2 DEF PutStore, PutError, Malformed
<1>3. CASE ~Malformed(c) /\ Digest[c] \in DOMAIN fresh.entries
  <2>1. PutStore(s, c, now) = fresh
    BY <1>3 DEF PutStore
  <2>2. PutError(s, c, now) = "none" => fresh.entries[Digest[c]].bytes = c
    BY <1>3 DEF PutError, Malformed
  <2>. HIDE DEF fresh
  <2>. QED
    BY <1>1, <1>3, <2>1, <2>2
<1>4. CASE ~Malformed(c) /\ Digest[c] \notin DOMAIN fresh.entries /\ s.next_order = MaxOrder
  <2>1. PutStore(s, c, now) = roomy /\ PutError(s, c, now) # "none"
    BY <1>4 DEF PutStore, PutError, Malformed
  <2>. HIDE DEF fresh, roomy
  <2>. QED
    BY <1>1, <2>1
<1>5. CASE ~Malformed(c) /\ Digest[c] \notin DOMAIN fresh.entries /\ s.next_order # MaxOrder
  <2>1. PutStore(s, c, now) = Insert(roomy, c, now) /\ PutError(s, c, now) = "none"
    BY <1>5 DEF PutStore, PutError, Malformed
  <2>2. /\ DOMAIN Insert(roomy, c, now).entries = DOMAIN roomy.entries \cup {Digest[c]}
        /\ Insert(roomy, c, now).entries[Digest[c]].bytes = c
        /\ \A i \in DOMAIN roomy.entries \ {Digest[c]} :
               Insert(roomy, c, now).entries[i] = roomy.entries[i]
    BY DEF Insert
  <2>. HIDE DEF fresh, roomy
  <2>. QED
    BY <1>1, <2>1, <2>2
<1>. QED
  BY <1>2, <1>3, <1>4, <1>5

\* The same, for one address that is not the payload's.
LEMMA PutLeavesOthers ==
  ASSUME NEW s, NEW c \in Contents, NEW now,
         NEW i \in DOMAIN PutStore(s, c, now).entries, i # Digest[c]
  PROVE  i \in DOMAIN s.entries /\ PutStore(s, c, now).entries[i].bytes = s.entries[i].bytes
  BY PutBytes

\* What a store holds after a put.
LEMMA PutHeld ==
  ASSUME NEW s, NEW c \in Contents, NEW now
  PROVE  /\ PutError(s, c, now) = "none" =>
                c \in Held(PutStore(s, c, now)) /\ Held(PutStore(s, c, now)) \subseteq Held(s) \cup {c}
         /\ PutError(s, c, now) # "none" => Held(PutStore(s, c, now)) \subseteq Held(s)
  BY PutBytes DEF Held

\* No two payloads of a sound store share an address.
LEMMA HeldAddressed ==
  ASSUME NEW s, Sound(s)
  PROVE  \A c, d \in Held(s) : Digest[c] = Digest[d] => c = d
  BY DEF Sound, Addressed, Held

\* Only a payload that goes in adds an entry to the clone, and its address is returned.
LEMMA CloneInductive ==
  ASSUME Inv, CloneInv, [Next]_vars
  PROVE  CloneInv'
<1>1. CASE batch' = NoBatch
  BY <1>1 DEF CloneInv, NoBatch
<1>2. ASSUME NEW payloads \in Payloads, NEW now \in Ticks, BatchBegin(payloads, now)
      PROVE  CloneInv'
  BY <1>2 DEF BatchBegin, CloneInv, Held
<1>3. CASE BatchPut /\ batch' # NoBatch
  <2>. DEFINE c == Head(batch.todo)
  <2>1. /\ batch.active /\ batch.todo \in Seq(Contents) /\ batch.todo # <<>>
        /\ trial' = PutStore(trial, c, batch.now) /\ store' = store
    BY <1>3 DEF BatchPut, BatchReturns, Inv, IsBatch
  <2>2. batch'.ids = batch.ids \cup {Digest[c]} /\ c \in Contents
    <3>1. batch' = [batch EXCEPT !.todo = Tail(@), !.ids = @ \cup {Digest[c]},
                                 !.wrote = @ \cup {c}]
      BY <1>3 DEF BatchPut, BatchReturns
    <3>2. c \in Contents
      BY <2>1
    <3>. HIDE DEF c
    <3>3. batch'.ids = batch.ids \cup {Digest[c]}
      BY <3>1 DEF Inv, IsBatch
    <3>. QED
      BY <3>2, <3>3
  <2>3. SUFFICES ASSUME NEW i \in DOMAIN trial'.entries, i # Digest[c]
                 PROVE  i \in batch'.ids \/ trial'.entries[i].bytes \in Held(store')
    BY <2>2 DEF CloneInv
  <2>. HIDE DEF c
  <2>4. /\ i \in DOMAIN trial.entries
        /\ PutStore(trial, c, batch.now).entries[i].bytes = trial.entries[i].bytes
    <3>1. i \in DOMAIN PutStore(trial, c, batch.now).entries
      BY <2>1, <2>3
    <3>. QED
      BY <2>2, <2>3, <3>1, PutLeavesOthers
  <2>. QED
    BY <2>1, <2>2, <2>4 DEF CloneInv
<1>4. CASE UNCHANGED <<trial, batch>> /\ (batch.active => UNCHANGED store)
  BY <1>4 DEF CloneInv
<1>. QED
  BY <1>1, <1>2, <1>3, <1>4
     DEF Next, vars, Put, BatchPut, BatchEnd, BatchReturns, Get, Remove, Clear

\* A put writes one payload, or refuses it and may lose others.
LEMMA PutRefines ==
  ASSUME Inv, Inv', NEW c \in Contents, NEW now \in Ticks, Put(c, now)
  PROVE  Abstract!Next
<1>1. store' = PutStore(store, c, now)
  BY DEF Put
<1>2. CASE PutError(store, c, now) = "none"
  <2>1. Answer' = [kind |-> "stored", ids |-> {Digest[c]}]
    BY <1>2 DEF Put, Stored, Answer
  <2>2. Abstract!Write({c})
    BY <1>1, <1>2, <2>1, PutHeld, HeldAddressed DEF Abstract!Write, Abstract!Addressed, Inv
  <2>. QED
    BY <2>2 DEF Abstract!Next
<1>3. CASE PutError(store, c, now) # "none"
  <2>1. Answer' = [kind |-> "refused"]
    BY <1>3 DEF Put, Answer
  <2>. QED
    BY <1>1, <1>3, <2>1, PutHeld DEF Abstract!Next, Abstract!Refuse
<1>. QED
  BY <1>2, <1>3

\* A batch writes all its payloads at once, or nothing happens to the contents.
LEMMA BatchRefines ==
  ASSUME Inv, Inv', CloneInv, BatchPut \/ BatchEnd
  PROVE  Abstract!Next \/ UNCHANGED <<Held(store), Answer>>
<1>1. CASE store' = store /\ \E error : reply' = [kind |-> "refused_batch", error |-> error]
  <2>1. Answer' = [kind |-> "refused_batch"]
    BY <1>1 DEF Answer
  <2>. QED
    BY <1>1, <2>1 DEF Abstract!Next, Abstract!RefuseBatch, Held
<1>2. CASE UNCHANGED <<store, reply>>
  BY <1>2 DEF Held, Answer
<1>3. CASE BatchEnd /\ BatchError = "none"
  <2>. DEFINE C == {trial.entries[i].bytes : i \in batch.ids}
  <2>1. batch.active /\ batch.ids # {} /\ batch.ids \subseteq DOMAIN trial.entries
    BY <1>3 DEF BatchEnd, BatchError
  <2>2. store' = trial /\ reply' = Stored(batch.ids, batch.now)
    BY <1>3 DEF BatchEnd, BatchReturns
  <2>3. \A i \in batch.ids :
            trial.entries[i].bytes \in Contents /\ Digest[trial.entries[i].bytes] = i
    BY <2>1 DEF Inv, Sound, IsStore, Addressed, Entry
  <2>4. C # {} /\ C \in SUBSET Contents /\ {Digest[c] : c \in C} = batch.ids
    BY <2>1, <2>3
  <2>5. Answer' = [kind |-> "stored", ids |-> {Digest[c] : c \in C}]
    BY <2>2, <2>4 DEF Stored, Answer
  <2>6. C \subseteq Held(store') /\ Held(store') \subseteq Held(store) \cup C
    BY <2>1, <2>2 DEF CloneInv, Held
  <2>7. Abstract!Addressed(Held(store'))
    BY HeldAddressed DEF Abstract!Addressed, Inv
  <2>. HIDE DEF C
  <2>8. Abstract!Write(C)
    BY <2>4, <2>5, <2>6, <2>7 DEF Abstract!Write
  <2>. QED
    BY <2>4, <2>8 DEF Abstract!Next
<1>. QED
  BY <1>1, <1>2, <1>3 DEF BatchPut, BatchEnd, BatchReturns

\* A get returns the payload asked for, or a miss, and at most loses expired ones.
LEMMA GetRefines ==
  ASSUME Inv, NEW id \in Ids, NEW now \in Ticks, Get(id, now)
  PROVE  Abstract!Next
<1>1. /\ store' = EvictExpired(store, now)
      /\ \A i \in DOMAIN store'.entries :
             i \in DOMAIN store.entries /\ store'.entries[i] = store.entries[i]
  BY EvictionsKeepBytes DEF Get
<1>2. Held(store') \subseteq Held(store)
  BY <1>1 DEF Held
<1>3. \A i \in DOMAIN store.entries :
          store.entries[i].bytes \in Contents /\ Digest[store.entries[i].bytes] = i
  BY DEF Inv, Sound, IsStore, Addressed, Entry
<1>4. CASE Retrievable(store, id, now)
  <2>. DEFINE c == store.entries[id].bytes
  <2>1. id \in DOMAIN store'.entries /\ c \in Held(store') /\ c \in Contents /\ Digest[c] = id
    BY <1>1, <1>3, <1>4 DEF Retrievable, Held
  <2>2. Answer' = [kind |-> "fetched", id |-> id, bytes |-> c]
    BY <1>4 DEF Get, Answer
  <2>3. Abstract!Fetch(c)
    BY <1>2, <2>1, <2>2 DEF Abstract!Fetch
  <2>. QED
    BY <2>1, <2>3 DEF Abstract!Next
<1>5. CASE ~Retrievable(store, id, now)
  <2>1. Answer' = [kind |-> "missing", id |-> id]
    BY <1>5 DEF Get, Answer
  <2>2. \A c \in Held(store') : Digest[c] # id
    BY <1>1, <1>3, <1>5 DEF Retrievable, Held
  <2>3. Abstract!Miss(id)
    BY <1>2, <2>1, <2>2 DEF Abstract!Miss
  <2>. QED
    BY <2>3 DEF Abstract!Next
<1>. QED
  BY <1>4, <1>5

\* Remove and Clear forget what they name and nothing else.
LEMMA ForgetRefines ==
  ASSUME Inv, Clear \/ \E id \in Ids : Remove(id)
  PROVE  Abstract!Next
<1>1. \A i \in DOMAIN store.entries : i \in Ids /\ Digest[store.entries[i].bytes] = i
  BY DEF Inv, Sound, IsStore, Addressed
<1>2. CASE Clear
  <2>1. Held(store') = {} /\ Answer' = [kind |-> "removed"]
    BY <1>2 DEF Clear, ClearedStore, Held, Answer
  <2>2. {c \in Held(store) : Digest[c] \notin Ids} = {}
    BY <1>1 DEF Held
  <2>3. Abstract!Forget(Ids)
    BY <2>1, <2>2 DEF Abstract!Forget
  <2>. QED
    BY <2>3 DEF Abstract!Next
<1>3. ASSUME NEW id \in Ids, Remove(id) PROVE Abstract!Next
  <2>1. CASE id \in DOMAIN store.entries
    <3>1. Answer' = [kind |-> "removed"] /\ store' = RemoveIds(store, {id})
      BY <1>3, <2>1 DEF Remove, Answer
    <3>2. /\ DOMAIN store'.entries = DOMAIN store.entries \ {id}
          /\ \A i \in DOMAIN store'.entries : store'.entries[i] = store.entries[i]
      BY <3>1 DEF RemoveIds
    <3>3. Held(store') = {c \in Held(store) : Digest[c] \notin {id}}
      BY <1>1, <3>2 DEF Held
    <3>4. Abstract!Forget({id})
      BY <3>1, <3>3 DEF Abstract!Forget
    <3>. QED
      BY <3>4 DEF Abstract!Next
  <2>2. CASE id \notin DOMAIN store.entries
    <3>1. Answer' = [kind |-> "missing", id |-> id] /\ store' = store
      BY <1>3, <2>2 DEF Remove, Answer
    <3>2. \A c \in Held(store') : Digest[c] # id
      BY <1>1, <2>2, <3>1 DEF Held
    <3>3. Abstract!Miss(id)
      BY <3>1, <3>2 DEF Abstract!Miss
    <3>. QED
      BY <3>3 DEF Abstract!Next
  <2>. QED
    BY <2>1, <2>2
<1>. QED
  BY <1>2, <1>3

\* Every step is one of ContentStore, or leaves what it speaks of alone.
LEMMA StepRefines ==
  ASSUME Inv, Inv', CloneInv, [Next]_vars
  PROVE  [Abstract!Next]_(Abstract!vars)
<1>1. CASE UNCHANGED <<store, reply>>
  BY <1>1 DEF Abstract!vars, Held, Answer
<1>2. ASSUME NEW payloads, NEW now, BatchBegin(payloads, now)
      PROVE  UNCHANGED <<store, reply>>
  BY <1>2 DEF BatchBegin
<1>. QED
  BY <1>1, <1>2, PutRefines, BatchRefines, GetRefines, ForgetRefines
     DEF Next, vars, Abstract!vars

\* The store with its ages, limits and clones is the content-addressed set of
\* ContentStore, for any limits, ticks, payloads and digests: a batch that is
\* acknowledged appears whole, a refused one leaves no trace, and a fetch returns
\* the payload whose digest was asked for.
THEOREM StoreImplementsContentStore == Spec => ImplementsContentStore
<1>1. Init => Inv /\ CloneInv /\ Abstract!Init
  <2>. SUFFICES ASSUME Init PROVE CloneInv /\ Abstract!Init
    BY InvInit
  <2>1. Held(store) = {} /\ Answer = [kind |-> "none"]
    BY DEF Init, EmptyStore, ClearedStore, Held, Answer
  <2>2. CloneInv
    BY DEF Init, CloneInv, NoBatch
  <2>. QED
    BY <2>1, <2>2 DEF Abstract!Init
<1>2. Inv /\ CloneInv /\ [Next]_vars => Inv' /\ CloneInv'
  BY InvInductive, CloneInductive
<1>3. Inv /\ Inv' /\ CloneInv /\ [Next]_vars => [Abstract!Next]_(Abstract!vars)
  BY StepRefines
<1>. QED
  BY <1>1, <1>2, <1>3, PTL DEF Spec, ImplementsContentStore, Abstract!Spec

-----------------------------------------------------------------------------
(* The runtime *)

\* The local variables of an invocation, and when each has its value.
Shaped ==
    /\ inv = [x \in DOMAIN Idle |-> inv[x]]
    /\ inv.at \in 0 .. 14
    /\ inv.at = 0 => inv = Idle
    /\ inv.at # 0 => inv.now \in Ticks /\ inv.req \in Requests
    /\ inv.at >= 13 => inv.lifecycle = "Validating" /\ inv.out \in Outputs
    /\ inv.at = 14 => inv.inline \in Texts

\* The gates an invocation has behind it did not refuse it, and it has called no
\* port before all of them, nor the provider before SQZ.
Gated ==
    /\ \A n \in 1 .. 9 : n < inv.at => ~Refuses(Steps[n], inv.req, inv.auth)
    /\ inv.at \in 1 .. 10 => called = {}
    /\ inv.at \in 1 .. 12 => "provider" \notin called

\* What each SQZ port returned and was accepted for.
Screened ==
    /\ inv.at >= 12 => inv.prompt \notin Oversize /\ accepted_sqz(inv.input, inv.prompt)
    /\ inv.at = 14 => accepted_sqz(inv.output, inv.inline)
    /\ inv.at >= 12 => inv.input \in SqzReceipts /\ inv.input.latency \in latencies
    /\ inv.at = 14 => inv.output \in SqzReceipts /\ inv.output.latency \in latencies

\* A running invocation has no receipt yet; one that ended has an honest one.
ReceiptFine ==
    /\ inv.at # 0 => receipt = NoReceipt
    /\ receipt.outcome = "Incomplete" /\ receipt.failure \in Gates => called = {}
    /\ receipt.outcome = "Complete" => accepted_sqz(receipt.output, receipt.inline)
    /\ ReceiptUnlessLatency

\* The payloads of the invocation, the addresses a complete receipt will name,
\* and those of a payload sequence.
Result == {Encoded[<<inv.inline, inv.out.citations>>]} \cup Elements(inv.out.artifacts)
Named == {Stored_ref.result_id} \cup Stored_ref.artifact_ids
Addresses(payloads) == {Digest[payloads[n]] : n \in DOMAIN payloads}

\* The store is the one the invocation found until put_batch has committed; a
\* batch that runs is that of this invocation, and so is what it returned.
StoreInHand ==
    /\ inv.at \in 1 .. 13 => ~batch.active /\ store = inv.before
    /\ inv.at = 14 /\ batch.active =>
          /\ store = inv.before /\ batch.now = inv.now
          /\ batch.ids \cup Addresses(batch.todo) = Named
          /\ Elements(batch.todo) \subseteq Result
          /\ Held(trial) \subseteq Held(store) \cup Result
    /\ inv.at = 14 /\ ~batch.active =>
          \/ reply.kind = "refused_batch" /\ store = inv.before
          \/ reply.kind = "stored" /\ reply.ids = Named /\ reply.now = inv.now

\* No two payloads have the same SHA-256 address.
NoCollision == \A c, d \in Contents : Digest[c] = Digest[d] => c = d

\* Where each step stands in the order of invoke.
LEMMA StepsOrder ==
  ASSUME Shaped
  PROVE  /\ At("auth") => inv.at = 10
         /\ At("sqz_input") => inv.at = 11
         /\ At("provider") => inv.at = 12
         /\ At("sqz_output") => inv.at = 13
         /\ At("store") => inv.at = 14
         /\ \A gate \in Gates : At(gate) => inv.at \in 1 .. 9
  BY DEF Shaped, At, Steps, Gates

\* Idle is the record with the step 0.
LEMMA IdleAt == /\ Idle.at = 0 /\ Idle = [x \in DOMAIN Idle |-> Idle[x]]
                /\ Shaped => (inv = Idle <=> inv.at = 0)
  BY DEF Idle, Shaped

\* What the ports before the store leave alone.
LEMMA PortFrames ==
  ASSUME Shaped
  PROVE  /\ SqzInput => /\ inv.at = 11 /\ called' = called \cup {"sqz_input"}
                        /\ UNCHANGED <<store, batch, enabled>>
         /\ InvokeProvider => /\ inv.at = 12 /\ called' = called \cup {"provider"}
                              /\ UNCHANGED <<store, batch, enabled, latencies>>
         /\ SqzOutput => /\ inv.at = 13 /\ called' = called \cup {"sqz_output"}
                         /\ UNCHANGED <<store, enabled>>
<1>1. ASSUME SqzInput
      PROVE  /\ inv.at = 11 /\ called' = called \cup {"sqz_input"}
             /\ UNCHANGED <<store, batch, enabled>>
  <2>1. At("sqz_input") /\ called' = called \cup {"sqz_input"} /\ UNCHANGED <<vars, enabled>>
    BY <1>1 DEF SqzInput
  <2>. QED
    BY <2>1, StepsOrder DEF vars
<1>2. ASSUME InvokeProvider
      PROVE  /\ inv.at = 12 /\ called' = called \cup {"provider"}
             /\ UNCHANGED <<store, batch, enabled, latencies>>
  <2>1. /\ At("provider") /\ called' = called \cup {"provider"}
        /\ UNCHANGED <<vars, enabled, latencies>>
    BY <1>2 DEF InvokeProvider
  <2>. QED
    BY <2>1, StepsOrder DEF vars
<1>3. ASSUME SqzOutput
      PROVE  /\ inv.at = 13 /\ called' = called \cup {"sqz_output"}
             /\ UNCHANGED <<store, enabled>>
  <2>1. At("sqz_output") /\ called' = called \cup {"sqz_output"} /\ UNCHANGED enabled
    BY <1>3 DEF SqzOutput
  <2>2. UNCHANGED store
    BY <1>3 DEF SqzOutput, vars, BatchBegin
  <2>. QED
    BY <2>1, <2>2, StepsOrder
<1>. QED
  BY <1>1, <1>2, <1>3

-----------------------------------------------------------------------------
(* The store under the runtime. *)

\* What the runtime does to the store is what any caller may do to it.
LEMMA RuntimeUsesStore ==
  ASSUME Shaped, [RuntimeNext]_allVars
  PROVE  \/ [Next]_vars
         \/ \E payloads \in Seq(Contents), now \in Nat : BatchBegin(payloads, now)
<1>1. CASE SqzOutput
  <2>1. CASE UNCHANGED vars
    BY <2>1
  <2>2. ASSUME NEW text \in Texts,
               BatchBegin(<<Encoded[<<text, inv.out.citations>>]>> \o inv.out.artifacts, inv.now)
        PROVE  \E payloads \in Seq(Contents), now \in Nat : BatchBegin(payloads, now)
    <3>0. inv.at = 13
      BY <1>1, StepsOrder DEF SqzOutput
    <3>1. inv.out \in Outputs /\ inv.now \in Nat
      BY <3>0, CallerAssumption DEF Shaped
    <3>2. inv.out.artifacts \in Seq(Contents) /\ inv.out.citations \in Citations
      BY <3>1, RuntimeAssumption
    <3>3. Encoded[<<text, inv.out.citations>>] \in Contents
      BY <3>2, RuntimeAssumption
    <3>4. <<Encoded[<<text, inv.out.citations>>]>> \o inv.out.artifacts \in Seq(Contents)
      BY <3>2, <3>3
    <3>. QED
      BY <2>2, <3>1, <3>4
  <2>. QED
    BY <1>1, <2>1, <2>2 DEF SqzOutput
<1>2. CASE StoreStep
  BY <1>2 DEF StoreStep, Next
<1>3. CASE HostStep
  BY <1>3 DEF HostStep
<1>. QED
  BY <1>1, <1>2, <1>3
     DEF RuntimeNext, allVars, Begin, Gate, ResolveAuth, SqzInput, InvokeProvider, Finish

LEMMA RuntimeKeepsStore ==
  ASSUME Inv, AckInv, Shaped, [RuntimeNext]_allVars
  PROVE  Inv' /\ AckInv'
<1>1. CASE [Next]_vars
  BY <1>1, InvInductive, AckInductive
<1>2. ASSUME NEW payloads \in Seq(Contents), NEW now \in Nat, BatchBegin(payloads, now)
      PROVE  Inv' /\ AckInv'
  BY <1>2, BatchBeginInv DEF BatchBegin, AckInv, Fresh
<1>. QED
  BY <1>1, <1>2, RuntimeUsesStore

\* The elements and the addresses of an answer with its artifacts, and of a batch
\* after a payload.
LEMMA AddressesOfResult ==
  ASSUME NEW c \in Contents, NEW s \in Seq(Contents)
  PROVE  /\ Elements(<<c>> \o s) = {c} \cup Elements(s)
         /\ Addresses(<<c>> \o s) = {Digest[c]} \cup {Digest[d] : d \in Elements(s)}
<1>1. \A n \in DOMAIN s : n + 1 \in DOMAIN (<<c>> \o s) /\ (<<c>> \o s)[n + 1] = s[n]
  OBVIOUS
<1>2. 1 \in DOMAIN (<<c>> \o s) /\ (<<c>> \o s)[1] = c
  OBVIOUS
<1>3. \A n \in DOMAIN (<<c>> \o s) : n = 1 \/ (n - 1 \in DOMAIN s /\ (<<c>> \o s)[n] = s[n - 1])
  OBVIOUS
<1>4. Elements(<<c>> \o s) = {c} \cup Elements(s)
  <2>1. Elements(<<c>> \o s) \subseteq {c} \cup Elements(s)
    BY <1>2, <1>3 DEF Elements
  <2>2. {c} \cup Elements(s) \subseteq Elements(<<c>> \o s)
    <3>1. \A d \in Elements(s) : \E n \in DOMAIN s : d = s[n]
      BY DEF Elements
    <3>2. \A n \in DOMAIN (<<c>> \o s) : (<<c>> \o s)[n] \in Elements(<<c>> \o s)
      BY DEF Elements
    <3>. QED
      BY <1>1, <1>2, <3>1, <3>2
  <2>. QED
    BY <2>1, <2>2
<1>5. \A r : Addresses(r) = {Digest[d] : d \in Elements(r)}
  BY DEF Addresses, Elements
<1>. QED
  BY <1>4, <1>5

LEMMA AddressesOfTail ==
  ASSUME NEW s \in Seq(Contents), s # <<>>
  PROVE  /\ Addresses(s) = {Digest[Head(s)]} \cup Addresses(Tail(s))
         /\ Elements(s) = {Head(s)} \cup Elements(Tail(s))
<1>1. \A n \in DOMAIN Tail(s) : n + 1 \in DOMAIN s /\ Tail(s)[n] = s[n + 1]
  OBVIOUS
<1>2. 1 \in DOMAIN s /\ s[1] = Head(s)
  OBVIOUS
<1>3. \A n \in DOMAIN s : n = 1 \/ (n - 1 \in DOMAIN Tail(s) /\ Tail(s)[n - 1] = s[n])
  OBVIOUS
<1>4. Addresses(s) = {Digest[Head(s)]} \cup Addresses(Tail(s))
  BY <1>1, <1>2, <1>3 DEF Addresses
<1>5. Elements(s) = {Head(s)} \cup Elements(Tail(s))
  <2>1. \A r, d : d \in Elements(r) <=> \E n \in DOMAIN r : d = r[n]
    BY DEF Elements
  <2>2. ASSUME NEW d \in Elements(s)
        PROVE  d = Head(s) \/ d \in Elements(Tail(s))
    <3>1. PICK n \in DOMAIN s : d = s[n]
      BY <2>1
    <3>2. n = 1 \/ (n - 1 \in DOMAIN Tail(s) /\ Tail(s)[n - 1] = d)
      BY <1>3, <3>1
    <3>. QED
      BY <1>2, <2>1, <3>1, <3>2
  <2>3. ASSUME NEW d \in Elements(Tail(s))
        PROVE  d \in Elements(s)
    <3>1. PICK n \in DOMAIN Tail(s) : d = Tail(s)[n]
      BY <2>1
    <3>2. n + 1 \in DOMAIN s /\ d = s[n + 1]
      BY <1>1, <3>1
    <3>. QED
      BY <2>1, <3>2
  <2>4. Head(s) \in Elements(s)
    BY <1>2, <2>1
  <2>. QED
    BY <2>2, <2>3, <2>4
<1>. QED
  BY <1>4, <1>5

-----------------------------------------------------------------------------
(* The invariant is inductive. *)

\* What RuntimeInv says of the invocation, without the store's own books.
CallInv == Shaped /\ Gated /\ Screened /\ ReceiptFine /\ StoreInHand

\* An invocation that ends leaves only its receipt to speak of.
LEMMA EndsCallInv ==
  ASSUME inv' = Idle,
         receipt'.outcome = "Incomplete" /\ receipt'.failure \in Gates => called' = {},
         receipt'.outcome = "Complete" => accepted_sqz(receipt'.output, receipt'.inline),
         ReceiptUnlessLatency'
  PROVE  CallInv'
<1>1. inv'.at = 0 /\ inv' = [x \in DOMAIN Idle |-> inv'[x]]
  BY IdleAt
<1>2. Shaped'
  BY <1>1 DEF Shaped
<1>3. Gated' /\ Screened' /\ StoreInHand'
  BY <1>1 DEF Gated, Screened, StoreInHand
<1>4. ReceiptFine'
  BY <1>1 DEF ReceiptFine, accepted_sqz
<1>. QED
  BY <1>2, <1>3, <1>4 DEF CallInv

\* An invocation that ends incomplete, at any gate or port.
LEMMA IncompleteCallInv ==
  ASSUME NEW failure, NEW effective, NEW carried \in SUBSET SqzReceipts,
         Incomplete(failure, effective, carried),
         failure \in Gates => called' = {},
         \A r \in carried : r.latency \in latencies'
  PROVE  CallInv'
<1>1. \A r \in carried : r.latency \in Nat
  BY RuntimeAssumption
<1>2. CASE LatencyFits(carried)
  BY <1>2, EndsCallInv DEF Incomplete, ReceiptUnlessLatency
<1>3. CASE ~LatencyFits(carried)
  <2>1. PICK r \in carried : ~(r.latency <= MaxLatency)
    BY <1>3 DEF LatencyFits
  <2>2. r.latency > MaxLatency /\ r.latency \in latencies'
    BY <1>1, <2>1, RuntimeAssumption
  <2>3. receipt' = [outcome |-> "ReceiptInvariant"] /\ inv' = Idle
    BY <1>3 DEF Incomplete
  <2>. QED
    BY <2>2, <2>3, EndsCallInv DEF ReceiptUnlessLatency
<1>. QED
  BY <1>2, <1>3

LEMMA BeginCallInv ==
  ASSUME CallInv, NEW req \in Requests, NEW auth \in Authorities, NEW now \in Ticks,
         Begin(req, auth, now)
  PROVE  CallInv'
<1>1. /\ inv' = [x \in DOMAIN Idle |-> inv'[x]]
      /\ inv'.at = 1 /\ inv'.now = now /\ inv'.before = store /\ inv'.req = req
  BY DEF Begin, Idle
<1>2. Shaped'
  BY <1>1 DEF Shaped
<1>3. Gated' /\ Screened'
  BY <1>1 DEF Gated, Screened, Begin
<1>4. StoreInHand'
  BY <1>1 DEF StoreInHand, Begin, vars
<1>5. ReceiptFine'
  BY <1>1 DEF ReceiptFine, ReceiptUnlessLatency, Begin, NoReceipt
<1>. QED
  BY <1>2, <1>3, <1>4, <1>5 DEF CallInv

LEMMA GateCallInv ==
  ASSUME CallInv, Gate
  PROVE  CallInv'
<1>1. PICK gate \in Gates :
          /\ At(gate)
          /\ \/ /\ Refuses(gate, inv.req, inv.auth)
                /\ Incomplete(Code(gate), UnavailableEffective, {})
             \/ /\ ~Refuses(gate, inv.req, inv.auth)
                /\ inv' = [inv EXCEPT !.at = @ + 1]
                /\ UNCHANGED receipt
  BY DEF Gate
<1>2. inv.at \in 1 .. 9 /\ Steps[inv.at] = gate
  BY <1>1, StepsOrder DEF CallInv, At
<1>3. called = {} /\ called' = {} /\ UNCHANGED <<store, batch, enabled, latencies>>
  BY <1>2 DEF CallInv, Gated, Gate, vars
<1>4. CASE Incomplete(Code(gate), UnavailableEffective, {})
  BY <1>3, <1>4, IncompleteCallInv
<1>5. CASE ~Refuses(gate, inv.req, inv.auth) /\ inv' = [inv EXCEPT !.at = @ + 1]
           /\ UNCHANGED receipt
  <2>1. /\ inv' = [x \in DOMAIN Idle |-> inv'[x]]
        /\ inv'.at = inv.at + 1 /\ inv'.now = inv.now /\ inv'.before = inv.before
        /\ inv'.req = inv.req /\ inv'.auth = inv.auth
    BY <1>5 DEF CallInv, Shaped, Idle
  <2>2. Shaped'
    BY <1>2, <2>1 DEF CallInv, Shaped
  <2>3. Gated'
    <3>1. \A n \in 1 .. 9 : n < inv'.at => n < inv.at \/ n = inv.at
      BY <1>2, <2>1
    <3>2. \A n \in 1 .. 9 : n < inv'.at => ~Refuses(Steps[n], inv.req, inv.auth)
      BY <1>2, <1>5, <3>1 DEF CallInv, Gated
    <3>3. \A g : Refuses(g, inv.req, inv.auth)' = Refuses(g, inv'.req, inv'.auth)
      BY <1>3 DEF Refuses
    <3>. QED
      BY <1>3, <2>1, <3>2, <3>3 DEF Gated, Refuses
  <2>4. Screened' /\ StoreInHand'
    BY <1>2, <1>3, <2>1 DEF CallInv, Screened, StoreInHand
  <2>5. ReceiptFine'
    BY <1>2, <1>3, <1>5, <2>1 DEF CallInv, ReceiptFine, ReceiptUnlessLatency, NoReceipt
  <2>. QED
    BY <2>2, <2>3, <2>4, <2>5 DEF CallInv
<1>. QED
  BY <1>1, <1>4, <1>5

\* The gates an invocation passed stay passed.
LEMMA GatesStay ==
  ASSUME CallInv, inv.at \in 10 .. 14, inv'.at \in 11 .. 14,
         UNCHANGED enabled, inv'.req = inv.req, inv'.auth = inv.auth
  PROVE  \A n \in 1 .. 9 : n < inv'.at => ~Refuses(Steps[n], inv.req, inv.auth)'
<1>1. \A n \in 1 .. 9 : ~Refuses(Steps[n], inv.req, inv.auth)
  BY DEF CallInv, Gated
<1>2. \A n : Refuses(Steps[n], inv.req, inv.auth)' <=> Refuses(Steps[n], inv.req, inv.auth)
  BY DEF Refuses, Steps, denied_tool, mutation_requested, Selected
<1>. QED
  BY <1>1, <1>2

LEMMA ResolveAuthCallInv ==
  ASSUME CallInv, ResolveAuth
  PROVE  CallInv'
<1>1. /\ inv.at = 10 /\ called' = {"auth"} /\ ~batch.active
      /\ UNCHANGED <<store, batch, enabled, latencies>>
  BY StepsOrder DEF ResolveAuth, CallInv, Gated, StoreInHand, vars
<1>2. CASE inv' = [inv EXCEPT !.at = @ + 1] /\ UNCHANGED receipt
  <2>1. /\ inv' = [x \in DOMAIN Idle |-> inv'[x]]
        /\ inv'.at = 11 /\ inv'.now = inv.now /\ inv'.before = inv.before
        /\ inv'.req = inv.req /\ inv'.auth = inv.auth
    BY <1>1, <1>2 DEF CallInv, Shaped, Idle
  <2>2. Shaped'
    BY <1>1, <2>1 DEF CallInv, Shaped
  <2>3. Gated'
    BY <1>1, <2>1, GatesStay DEF Gated
  <2>4. Screened' /\ StoreInHand'
    BY <1>1, <2>1 DEF CallInv, Screened, StoreInHand
  <2>5. ReceiptFine'
    BY <1>1, <1>2, <2>1 DEF CallInv, ReceiptFine, ReceiptUnlessLatency, NoReceipt
  <2>. QED
    BY <2>2, <2>3, <2>4, <2>5 DEF CallInv
<1>3. CASE Incomplete("MissingAuth", UnavailableEffective, {})
  BY <1>3, IncompleteCallInv DEF Gates
<1>. QED
  BY <1>2, <1>3 DEF ResolveAuth

\* An SQZ port that fails ends the invocation.
LEMMA SqzFailsCallInv ==
  ASSUME NEW failure, NEW effective, NEW carried \in SUBSET SqzReceipts,
         SqzFails(failure, effective, carried), failure \notin Gates,
         \A r \in carried : r.latency \in latencies
  PROVE  CallInv'
<1>1. PICK r \in SUBSET SqzReceipts :
          /\ latencies' = latencies \cup {x.latency : x \in r}
          /\ Incomplete(failure, effective, carried \cup r)
  BY DEF SqzFails
<1>2. \A x \in carried \cup r : x.latency \in latencies'
  BY <1>1
<1>. QED
  BY <1>1, <1>2, IncompleteCallInv

LEMMA SqzInputCallInv ==
  ASSUME CallInv, SqzInput
  PROVE  CallInv'
<1>1. /\ inv.at = 11 /\ ~batch.active /\ UNCHANGED <<store, batch, enabled>>
      /\ called' = called \cup {"sqz_input"}
  BY PortFrames DEF CallInv, StoreInHand
<1>2. ASSUME NEW text \in Texts, NEW r \in SqzReceipts, latencies' = latencies \cup {r.latency},
             accepted_sqz(r, text), text \notin Oversize,
             inv' = [inv EXCEPT !.at = @ + 1, !.lifecycle = "Running",
                                !.prompt = text, !.input = r],
             UNCHANGED receipt
      PROVE  CallInv'
  <2>1. /\ inv' = [x \in DOMAIN Idle |-> inv'[x]]
        /\ inv'.at = 12 /\ inv'.now = inv.now /\ inv'.before = inv.before
        /\ inv'.req = inv.req /\ inv'.auth = inv.auth
        /\ inv'.prompt = text /\ inv'.input = r
    <3>1. /\ DOMAIN inv = DOMAIN Idle
          /\ {"at", "lifecycle", "prompt", "input", "now", "before", "req", "auth"}
                \subseteq DOMAIN inv
      BY DEF CallInv, Shaped, Idle
    <3>2. DOMAIN inv' = DOMAIN Idle /\ inv' = [x \in DOMAIN inv' |-> inv'[x]]
      BY <1>2, <3>1
    <3>. QED
      BY <1>1, <1>2, <3>1, <3>2
  <2>2. Shaped'
    BY <1>1, <2>1 DEF CallInv, Shaped
  <2>3. Gated'
    <3>1. "provider" \notin called'
      BY <1>1 DEF CallInv, Gated
    <3>. QED
      BY <1>1, <2>1, <3>1, GatesStay DEF Gated
  <2>4. Screened'
    BY <1>2, <2>1 DEF Screened, accepted_sqz
  <2>5. StoreInHand'
    BY <1>1, <2>1 DEF CallInv, StoreInHand
  <2>6. ReceiptFine'
    BY <1>1, <1>2, <2>1 DEF CallInv, ReceiptFine, ReceiptUnlessLatency, NoReceipt
  <2>. QED
    BY <2>2, <2>3, <2>4, <2>5, <2>6 DEF CallInv
<1>3. CASE SqzFails("SqzInputFailed", UnavailableEffective, {})
  BY <1>3, SqzFailsCallInv DEF Gates
<1>4. ASSUME NEW r \in SqzReceipts, latencies' = latencies \cup {r.latency},
             Incomplete("SqzInputFailed", UnavailableEffective, {r})
      PROVE  CallInv'
  BY <1>4, IncompleteCallInv DEF Gates
<1>. QED
  BY <1>2, <1>3, <1>4 DEF SqzInput

LEMMA InvokeProviderCallInv ==
  ASSUME CallInv, InvokeProvider
  PROVE  CallInv'
<1>1. /\ inv.at = 12 /\ ~batch.active /\ UNCHANGED <<store, batch, enabled, latencies>>
  BY PortFrames DEF CallInv, StoreInHand
<1>2. ASSUME NEW out \in Outputs,
             inv' = [inv EXCEPT !.at = @ + 1, !.lifecycle = "Validating", !.out = out,
                                !.effective = Effective(inv.req, out.evidence)],
             UNCHANGED receipt
      PROVE  CallInv'
  <2>1. /\ inv' = [x \in DOMAIN Idle |-> inv'[x]]
        /\ inv'.at = 13 /\ inv'.lifecycle = "Validating" /\ inv'.out = out
        /\ inv'.now = inv.now /\ inv'.before = inv.before
        /\ inv'.req = inv.req /\ inv'.auth = inv.auth
        /\ inv'.prompt = inv.prompt /\ inv'.input = inv.input
    <3>1. /\ DOMAIN inv = DOMAIN Idle
          /\ {"at", "lifecycle", "out", "effective", "prompt", "input", "now", "before",
              "req", "auth"} \subseteq DOMAIN inv
      BY DEF CallInv, Shaped, Idle
    <3>2. DOMAIN inv' = DOMAIN Idle /\ inv' = [x \in DOMAIN inv' |-> inv'[x]]
      BY <1>2, <3>1
    <3>. QED
      BY <1>1, <1>2, <3>1, <3>2
  <2>2. Shaped'
    BY <1>1, <2>1 DEF CallInv, Shaped
  <2>3. Gated'
    BY <1>1, <2>1, GatesStay DEF Gated
  <2>4. Screened'
    BY <1>1, <2>1 DEF CallInv, Screened, accepted_sqz
  <2>5. StoreInHand'
    BY <1>1, <2>1 DEF CallInv, StoreInHand
  <2>6. ReceiptFine'
    BY <1>1, <1>2, <2>1 DEF CallInv, ReceiptFine, ReceiptUnlessLatency, NoReceipt
  <2>. QED
    BY <2>2, <2>3, <2>4, <2>5, <2>6 DEF CallInv
<1>3. ASSUME NEW failure \in {"Timeout", "Cancelled", "InvalidOutput",
                              "ProviderUnavailable", "ProviderFailed"},
             Incomplete(failure, UnavailableEffective, {inv.input})
      PROVE  CallInv'
  <2>1. inv.input \in SqzReceipts /\ inv.input.latency \in latencies'
    BY <1>1 DEF CallInv, Screened
  <2>. QED
    BY <1>3, <2>1, IncompleteCallInv DEF Gates
<1>. QED
  BY <1>2, <1>3 DEF InvokeProvider

LEMMA SqzOutputCallInv ==
  ASSUME CallInv, SqzOutput
  PROVE  CallInv'
<1>1. inv.at = 13 /\ ~batch.active /\ store = inv.before /\ UNCHANGED enabled
  BY PortFrames DEF CallInv, StoreInHand
<1>2. inv.input \in SqzReceipts /\ inv.input.latency \in latencies
  BY <1>1 DEF CallInv, Screened
<1>3. ASSUME NEW failure \in {"InvalidOutput", "SqzOutputFailed"},
             SqzFails(failure, inv.effective, {inv.input})
      PROVE  CallInv'
  BY <1>2, <1>3, SqzFailsCallInv DEF Gates
<1>4. ASSUME NEW r \in SqzReceipts, latencies' = latencies \cup {r.latency},
             Incomplete("SqzOutputFailed", inv.effective, {inv.input, r})
      PROVE  CallInv'
  BY <1>2, <1>4, IncompleteCallInv DEF Gates
<1>5. ASSUME NEW text \in Texts, NEW r \in SqzReceipts, latencies' = latencies \cup {r.latency},
             accepted_sqz(r, text),
             inv' = [inv EXCEPT !.at = @ + 1, !.inline = text, !.output = r],
             BatchBegin(<<Encoded[<<text, inv.out.citations>>]>> \o inv.out.artifacts, inv.now),
             UNCHANGED receipt
      PROVE  CallInv'
  <2>1. /\ inv' = [x \in DOMAIN Idle |-> inv'[x]]
        /\ inv'.at = 14 /\ inv'.lifecycle = inv.lifecycle
        /\ inv'.now = inv.now /\ inv'.before = inv.before
        /\ inv'.req = inv.req /\ inv'.auth = inv.auth
        /\ inv'.prompt = inv.prompt /\ inv'.input = inv.input
        /\ inv'.out = inv.out
        /\ inv'.inline = text /\ inv'.output = r
    <3>1. /\ DOMAIN inv = DOMAIN Idle
          /\ {"at", "lifecycle", "out", "inline", "output", "prompt", "input", "now",
              "before", "req", "auth"} \subseteq DOMAIN inv
      BY DEF CallInv, Shaped, Idle
    <3>2. DOMAIN inv' = DOMAIN Idle /\ inv' = [x \in DOMAIN inv' |-> inv'[x]]
      BY <1>5, <3>1
    <3>. QED
      BY <1>1, <1>5, <3>1, <3>2
  <2>2. Shaped'
    BY <1>1, <2>1 DEF CallInv, Shaped
  <2>3. Gated'
    BY <1>1, <2>1, GatesStay DEF Gated
  <2>4. Screened'
    BY <1>1, <1>2, <1>5, <2>1 DEF CallInv, Screened, accepted_sqz
  <2>5. StoreInHand'
    <3>. DEFINE c == Encoded[<<text, inv.out.citations>>]
    <3>1. inv.out \in Outputs
      BY <1>1 DEF CallInv, Shaped
    <3>2. inv.out.artifacts \in Seq(Contents) /\ inv.out.citations \in Citations
      BY <3>1, RuntimeAssumption
    <3>3. c \in Contents
      BY <3>2, RuntimeAssumption
    <3>4. Named' = {Digest[c]} \cup {Digest[d] : d \in Elements(inv.out.artifacts)}
      BY <2>1 DEF Named, Stored_ref, Elements
    <3>5. Result' = {c} \cup Elements(inv.out.artifacts)
      BY <2>1 DEF Result, Elements
    <3>6. /\ store' = store /\ trial' = store /\ batch'.active /\ batch'.now = inv.now
          /\ batch'.todo = <<c>> \o inv.out.artifacts /\ batch'.ids = {}
      BY <1>5 DEF BatchBegin
    <3>. HIDE DEF c
    <3>7. Addresses(batch'.todo) = Named' /\ Elements(batch'.todo) = Result'
      BY <3>2, <3>3, <3>4, <3>5, <3>6, AddressesOfResult
    <3>8. Held(trial') = Held(store')
      BY <3>6
    <3>9. Addresses(batch'.todo) = Addresses(batch.todo)' /\ Elements(batch'.todo) = Elements(batch.todo)'
      BY DEF Addresses, Elements
    <3>. QED
      BY <1>1, <2>1, <3>6, <3>7, <3>8, <3>9 DEF StoreInHand, Held
  <2>6. ReceiptFine'
    BY <1>1, <1>5, <2>1 DEF CallInv, ReceiptFine, ReceiptUnlessLatency, NoReceipt
  <2>. QED
    BY <2>2, <2>3, <2>4, <2>5, <2>6 DEF CallInv
<1>. QED
  BY <1>3, <1>4, <1>5 DEF SqzOutput

LEMMA StoreStepCallInv ==
  ASSUME Inv, CallInv, StoreStep
  PROVE  CallInv'
<1>1. inv.at = 14 /\ batch.active /\ UNCHANGED <<enabled, inv, receipt, latencies>>
  BY StepsOrder DEF CallInv, StoreStep, BatchPut, BatchEnd
<1>2. /\ store = inv.before /\ batch.now = inv.now
      /\ batch.ids \cup Addresses(batch.todo) = Named
      /\ Elements(batch.todo) \subseteq Result
      /\ Held(trial) \subseteq Held(store) \cup Result
  BY <1>1 DEF CallInv, StoreInHand
<1>3. Named' = Named /\ Result' = Result
  BY <1>1 DEF Named, Stored_ref, Result, Elements
<1>4. ASSUME NEW error, store' = store,
             BatchReturns([kind |-> "refused_batch", error |-> error])
      PROVE  StoreInHand'
  BY <1>1, <1>2, <1>4 DEF StoreInHand, BatchReturns, NoBatch
<1>5. StoreInHand'
  <2>1. CASE BatchPut
    <3>. DEFINE c == Head(batch.todo)
    <3>1. CASE PutError(trial, c, batch.now) = "none"
      <4>1. batch.todo \in Seq(Contents) /\ batch.todo # <<>> /\ c \in Contents
        BY <2>1 DEF BatchPut, Inv, IsBatch
      <4>2. /\ batch'.active /\ batch'.todo = Tail(batch.todo) /\ batch'.now = batch.now
            /\ batch'.ids = batch.ids \cup {Digest[c]}
            /\ store' = store /\ trial' = PutStore(trial, c, batch.now)
        BY <2>1, <3>1 DEF BatchPut, Inv, IsBatch
      <4>3. /\ Addresses(batch.todo) = {Digest[c]} \cup Addresses(Tail(batch.todo))
            /\ Elements(batch.todo) = {c} \cup Elements(Tail(batch.todo))
        BY <4>1, AddressesOfTail
      <4>4. batch'.ids \cup Addresses(batch'.todo) = Named
        BY <1>2, <4>2, <4>3
      <4>5. Elements(batch'.todo) \subseteq Result /\ c \in Result
        BY <1>2, <4>2, <4>3
      <4>6. Held(trial') \subseteq Held(store') \cup Result
        <5>. HIDE DEF c
        <5>1. Held(PutStore(trial, c, batch.now)) \subseteq Held(trial) \cup {c}
          BY <3>1, <4>1, PutHeld
        <5>. QED
          BY <1>2, <4>2, <4>5, <5>1
      <4>7. /\ Addresses(batch'.todo) = Addresses(batch.todo)'
            /\ Elements(batch'.todo) = Elements(batch.todo)'
            /\ Held(trial') = Held(trial)' /\ Held(store') = Held(store)'
        BY DEF Addresses, Elements, Held
      <4>. HIDE DEF c
      <4>. QED
        BY <1>1, <1>2, <1>3, <4>2, <4>4, <4>5, <4>6, <4>7 DEF StoreInHand
    <3>2. CASE PutError(trial, c, batch.now) # "none"
      BY <1>4, <2>1, <3>2 DEF BatchPut
    <3>. QED
      BY <3>1, <3>2
  <2>2. CASE BatchEnd
    <3>1. CASE BatchError = "none"
      <4>1. reply' = Stored(batch.ids, batch.now) /\ ~batch'.active
        BY <2>2, <3>1 DEF BatchEnd, BatchReturns, NoBatch
      <4>2. Addresses(batch.todo) = {}
        BY <2>2 DEF BatchEnd, Addresses
      <4>3. batch.ids = Named
        BY <1>2, <4>2
      <4>. QED
        BY <1>1, <1>2, <1>3, <4>1, <4>3 DEF StoreInHand, Stored
    <3>2. CASE BatchError # "none"
      BY <1>4, <2>2, <3>2 DEF BatchEnd
    <3>. QED
      BY <3>1, <3>2
  <2>. QED
    BY <2>1, <2>2 DEF StoreStep
<1>6. Shaped' /\ Screened'
  BY <1>1 DEF CallInv, Shaped, Screened, accepted_sqz
<1>7. Gated'
  BY <1>1, GatesStay DEF Gated
<1>8. ReceiptFine'
  BY <1>1 DEF CallInv, ReceiptFine, ReceiptUnlessLatency, NoReceipt
<1>. QED
  BY <1>5, <1>6, <1>7, <1>8 DEF CallInv

\* put_batch names the addresses the receipt will name, so only a latency can keep
\* the receipt from being accepted.
LEMMA FinishCallInv ==
  ASSUME CallInv, Finish
  PROVE  CallInv'
<1>1. inv.at = 14 /\ inv.lifecycle = "Validating" /\ UNCHANGED <<called, latencies>>
  BY StepsOrder DEF Finish, CallInv, Shaped
<1>2. /\ accepted_sqz(inv.input, inv.prompt) /\ accepted_sqz(inv.output, inv.inline)
      /\ inv.input \in SqzReceipts /\ inv.output \in SqzReceipts
      /\ inv.input.latency \in latencies' /\ inv.output.latency \in latencies'
  BY <1>1 DEF CallInv, Screened
<1>3. CASE Incomplete("ResultStoreFailed", inv.effective, {inv.input, inv.output})
  BY <1>2, <1>3, IncompleteCallInv DEF Gates
<1>4. ASSUME NEW full,
             full = [outcome |-> "Complete", effective |-> inv.effective, now |-> inv.now,
                     input |-> inv.input, output |-> inv.output, inline |-> inv.inline,
                     citations |-> inv.out.citations, stored |-> Stored_ref],
             receipt' = IF inv.lifecycle = "Validating" /\ ReceiptAccepts(full)
                        THEN full ELSE [outcome |-> "ReceiptInvariant"],
             inv' = Idle
      PROVE  CallInv'
  <2>1. /\ full.input = inv.input /\ full.output = inv.output /\ full.inline = inv.inline
        /\ full.citations = inv.out.citations
        /\ full.stored = Stored_ref /\ full.outcome = "Complete"
    BY <1>4
  <2>2. CASE LatencyFits({inv.input, inv.output})
    <3>1. ReceiptAccepts(full)
      BY <1>2, <2>1, <2>2 DEF ReceiptAccepts, accepted_sqz, Stored_ref
    <3>2. receipt' = full
      BY <1>1, <1>4, <3>1
    <3>3. accepted_sqz(receipt'.output, receipt'.inline)
      BY <1>2, <2>1, <3>2
    <3>. QED
      BY <1>4, <2>1, <3>2, <3>3, EndsCallInv DEF ReceiptUnlessLatency
  <2>3. CASE ~LatencyFits({inv.input, inv.output})
    <3>1. PICK r \in {inv.input, inv.output} : ~(r.latency <= MaxLatency)
      BY <2>3 DEF LatencyFits
    <3>2. r.latency \in latencies' /\ r.latency > MaxLatency
      BY <1>2, <3>1, RuntimeAssumption
    <3>3. ~ReceiptAccepts(full)
      BY <2>1, <2>3 DEF ReceiptAccepts
    <3>4. receipt' = [outcome |-> "ReceiptInvariant"]
      BY <1>4, <3>3
    <3>. QED
      BY <1>4, <3>2, <3>4, EndsCallInv DEF ReceiptUnlessLatency
  <2>. QED
    BY <2>2, <2>3
<1>. QED
  BY <1>3, <1>4 DEF Finish

\* Between invocations nothing is said of the store.
LEMMA HostStepCallInv ==
  ASSUME CallInv, HostStep
  PROVE  CallInv'
<1>1. inv' = Idle /\ inv.at = 0 /\ UNCHANGED <<enabled, receipt, called, latencies>>
  BY IdleAt DEF HostStep, runtimeVars
<1>. QED
  BY <1>1, EndsCallInv DEF CallInv, ReceiptFine, ReceiptUnlessLatency

LEMMA StutterCallInv ==
  ASSUME CallInv, UNCHANGED allVars
  PROVE  CallInv'
<1>1. UNCHANGED <<store, trial, batch, reply, enabled, inv, receipt, called, latencies>>
  BY DEF allVars, vars, runtimeVars
<1>2. StoreInHand'
  BY <1>1 DEF CallInv, StoreInHand, Named, Stored_ref, Addresses, Elements, Result, Held
<1>3. Gated'
  BY <1>1 DEF CallInv, Gated, Refuses
<1>. QED
  BY <1>1, <1>2, <1>3
     DEF CallInv, Shaped, Screened, ReceiptFine, ReceiptUnlessLatency, accepted_sqz

RuntimeInv == Inv /\ AckInv /\ CallInv

LEMMA RuntimeInvInit == RuntimeInit => RuntimeInv
<1>. SUFFICES ASSUME RuntimeInit PROVE RuntimeInv
  OBVIOUS
<1>1. Inv /\ AckInv
  BY InvInit DEF RuntimeInit, Init, AckInv, NoBatch
<1>2. inv = Idle /\ inv.at = 0
  BY IdleAt DEF RuntimeInit
<1>3. Shaped
  BY <1>2, IdleAt DEF Shaped
<1>4. Gated /\ Screened /\ StoreInHand
  BY <1>2 DEF Gated, Screened, StoreInHand
<1>5. ReceiptFine
  BY <1>2 DEF ReceiptFine, ReceiptUnlessLatency, RuntimeInit, NoReceipt
<1>. QED
  BY <1>1, <1>3, <1>4, <1>5 DEF RuntimeInv, CallInv

LEMMA RuntimeInvInductive == RuntimeInv /\ [RuntimeNext]_allVars => RuntimeInv'
<1>. SUFFICES ASSUME RuntimeInv, [RuntimeNext]_allVars
              PROVE  RuntimeInv'
  OBVIOUS
<1>0. Inv /\ AckInv /\ CallInv
  BY DEF RuntimeInv
<1>1. Inv' /\ AckInv'
  BY <1>0, RuntimeKeepsStore DEF CallInv
<1>. SUFFICES CallInv'
  BY <1>1 DEF RuntimeInv
<1>2. ASSUME NEW req \in Requests, NEW auth \in Authorities, NEW now \in Ticks,
             Begin(req, auth, now)
      PROVE  CallInv'
  BY <1>0, <1>2, BeginCallInv
<1>3. CASE Gate
  BY <1>0, <1>3, GateCallInv
<1>4. CASE ResolveAuth
  BY <1>0, <1>4, ResolveAuthCallInv
<1>5. CASE SqzInput
  BY <1>0, <1>5, SqzInputCallInv
<1>6. CASE InvokeProvider
  BY <1>0, <1>6, InvokeProviderCallInv
<1>7. CASE SqzOutput
  BY <1>0, <1>7, SqzOutputCallInv
<1>8. CASE StoreStep
  BY <1>0, <1>8, StoreStepCallInv
<1>9. CASE Finish
  BY <1>0, <1>9, FinishCallInv
<1>10. CASE HostStep
  BY <1>0, <1>10, HostStepCallInv
<1>11. CASE UNCHANGED allVars
  BY <1>0, <1>11, StutterCallInv
<1>. QED
  BY <1>2, <1>3, <1>4, <1>5, <1>6, <1>7, <1>8, <1>9, <1>10, <1>11 DEF RuntimeNext

LEMMA RuntimeInvHolds == RuntimeSpec => []RuntimeInv
  BY RuntimeInvInit, RuntimeInvInductive, PTL DEF RuntimeSpec

\* No port is called for a request that a gate refuses, be it the first or the
\* last, whatever requests, profiles and registered models there are.
THEOREM PortsAlwaysAdmitted == RuntimeSpec => []PortsOnlyWhenAdmitted
<1>1. ASSUME RuntimeInv PROVE PortsOnlyWhenAdmitted
  <2>0. Shaped /\ Gated /\ ReceiptFine
    BY <1>1 DEF RuntimeInv, CallInv
  <2>1. SUFFICES ASSUME inv # Idle, called # {} PROVE Admissible(inv.req, inv.auth)
    BY <2>0 DEF PortsOnlyWhenAdmitted, ReceiptFine
  <2>2. inv.at \in 11 .. 14
    BY <2>0, <2>1 DEF Shaped, Gated
  <2>3. \A n \in 1 .. 9 : ~Refuses(Steps[n], inv.req, inv.auth)
    BY <2>0, <2>2 DEF Gated
  <2>4. \A gate \in Gates : \E n \in 1 .. 9 : Steps[n] = gate
    BY DEF Steps, Gates
  <2>5. \A gate \in Gates : ~Refuses(gate, inv.req, inv.auth)
    BY <2>3, <2>4
  <2>6. /\ enabled /\ inv.auth.project_trusted /\ ~inv.auth.explicit_offline
        /\ ~(inv.req.depth > MaxDepth) /\ inv.req.profile \in DOMAIN Profiles
    BY <2>5 DEF Gates, Refuses
  <2>7. /\ ~denied_tool(inv.req)
        /\ inv.auth.mutation_authorized \/ ~mutation_requested(inv.req)
        /\ Selected(inv.req).provider \in DOMAIN Models
        /\ Selected(inv.req).model \in Models[Selected(inv.req).provider]
    BY <2>5 DEF Gates, Refuses
  <2>8. inv.req.depth <= MaxDepth
    BY <2>0, <2>2, <2>6, RuntimeAssumption DEF Shaped
  <2>. QED
    BY <2>6, <2>7, <2>8 DEF Admissible, denied_tool, mutation_requested
<1>. QED
  BY <1>1, RuntimeInvHolds, PTL

\* What an invocation adds to the store it adds at once, when its batch commits.
LEMMA ScreenedStep ==
  ASSUME RuntimeInv, [RuntimeNext]_allVars, inv # Idle, NEW c \in Held(store') \ Held(store)
  PROVE  \/ \E text \in Texts : /\ accepted_sqz(inv.output, text)
                                /\ c = Encoded[<<text, inv.out.citations>>]
         \/ c \in Elements(inv.out.artifacts)
<1>0. Shaped /\ Screened /\ StoreInHand
  BY DEF RuntimeInv, CallInv
<1>1. store' # store
  BY DEF Held
<1>2. StoreStep
  <2>1. \A req, auth, now : ~Begin(req, auth, now)
    BY DEF Begin
  <2>2. ~(Gate \/ ResolveAuth \/ SqzInput \/ InvokeProvider \/ Finish \/ UNCHANGED allVars)
    BY <1>1 DEF Gate, ResolveAuth, SqzInput, InvokeProvider, Finish, allVars, vars
  <2>3. ~SqzOutput
    BY <1>1 DEF SqzOutput, BatchBegin, vars
  <2>4. ~HostStep
    BY DEF HostStep
  <2>. QED
    BY <2>1, <2>2, <2>3, <2>4 DEF RuntimeNext
<1>3. inv.at = 14 /\ batch.active /\ store' = trial
  BY <1>0, <1>1, <1>2, StepsOrder DEF StoreStep, BatchPut, BatchEnd
<1>4. Held(store') = Held(trial)
  BY <1>3
<1>5. c \in Result
  BY <1>0, <1>3, <1>4 DEF StoreInHand
<1>6. accepted_sqz(inv.output, inv.inline) /\ inv.inline \in Texts
  BY <1>0, <1>3 DEF Screened, Shaped
<1>. QED
  BY <1>5, <1>6 DEF Result

\* Whatever receipts the SQZ port returns, the provider gets a prompt whose own
\* receipt passed, and what the invocation leaves in the store and tells the caller
\* is an answer whose own receipt passed; only citations and artifacts are stored
\* as the provider sent them.
THEOREM TextAlwaysScreened == RuntimeSpec => OnlyScreenedText
<1>1. RuntimeInv => ProviderGetsScreened
  <2>. SUFFICES ASSUME RuntimeInv, inv # Idle, "provider" \in called
                PROVE  inv.prompt \notin Oversize /\ accepted_sqz(inv.input, inv.prompt)
    BY DEF ProviderGetsScreened
  <2>1. inv.at >= 12
    BY IdleAt DEF RuntimeInv, CallInv, Shaped, Gated
  <2>. QED
    BY <2>1 DEF RuntimeInv, CallInv, Screened
<1>2. RuntimeInv => CallerGetsScreened
  BY DEF RuntimeInv, CallInv, ReceiptFine, CallerGetsScreened
<1>3. RuntimeInv /\ [RuntimeNext]_allVars => AddsScreened
  BY ScreenedStep DEF AddsScreened
<1>. QED
  BY <1>1, <1>2, <1>3, RuntimeInvHolds, PTL DEF RuntimeSpec, OnlyScreenedText, StoreGetsScreened

-----------------------------------------------------------------------------
(* The receipt and the store. *)

\* An invocation that returns an incomplete receipt ends with the store it found.
LEMMA EndsAsFound ==
  ASSUME RuntimeInv, [RuntimeNext]_allVars,
         inv # Idle, inv' = Idle, receipt'.outcome = "Incomplete"
  PROVE  store' = inv.before
<1>0. CallInv /\ Shaped /\ StoreInHand /\ inv.at # 0
  BY IdleAt DEF RuntimeInv, CallInv
<1>1. CASE Finish
  <2>1. inv.at = 14 /\ ~batch.active /\ store' = store
    BY <1>0, <1>1, StepsOrder DEF Finish, vars
  <2>2. CASE reply.kind = "refused_batch"
    BY <1>0, <2>1, <2>2 DEF StoreInHand
  <2>3. CASE reply.kind # "refused_batch"
    BY <1>1, <2>3 DEF Finish
  <2>. QED
    BY <2>2, <2>3
<1>2. CASE Gate \/ ResolveAuth \/ SqzInput \/ InvokeProvider
  <2>1. inv.at \in 1 .. 13 /\ store' = store
    <3>1. CASE Gate
      BY <1>0, <3>1, StepsOrder DEF Gate, vars
    <3>2. CASE ResolveAuth
      BY <1>0, <3>2, StepsOrder DEF ResolveAuth, vars
    <3>3. CASE SqzInput
      BY <1>0, <3>3, PortFrames
    <3>4. CASE InvokeProvider
      BY <1>0, <3>4, PortFrames
    <3>. QED
      BY <1>2, <3>1, <3>2, <3>3, <3>4
  <2>. QED
    BY <1>0, <2>1 DEF StoreInHand
<1>3. CASE SqzOutput
  <2>1. inv.at = 13 /\ store' = store
    BY <1>0, <1>3, PortFrames
  <2>. QED
    BY <1>0, <2>1 DEF StoreInHand
<1>4. CASE StoreStep \/ HostStep \/ UNCHANGED allVars
  BY <1>4 DEF StoreStep, HostStep, runtimeVars, allVars
<1>. QED
  BY <1>1, <1>2, <1>3, <1>4 DEF RuntimeNext, Begin

\* A complete receipt comes only from the last step.
LEMMA CompleteFinishes ==
  ASSUME [RuntimeNext]_allVars, receipt'.outcome = "Complete", receipt' # receipt
  PROVE  Finish /\ reply.kind = "stored"
<1>0. ASSUME NEW failure, NEW effective, NEW carried, Incomplete(failure, effective, carried)
      PROVE  FALSE
  BY <1>0 DEF Incomplete
<1>1. ~Gate
  BY <1>0 DEF Gate
<1>2. ~ResolveAuth
  BY <1>0 DEF ResolveAuth
<1>3. ~SqzInput
  BY <1>0 DEF SqzInput, SqzFails
<1>4. ~InvokeProvider
  BY <1>0 DEF InvokeProvider
<1>5. ~SqzOutput
  BY <1>0 DEF SqzOutput, SqzFails
<1>6. \A req, auth, now : ~Begin(req, auth, now)
  BY DEF Begin, NoReceipt
<1>7. ~(StoreStep \/ HostStep \/ UNCHANGED allVars)
  BY DEF StoreStep, HostStep, runtimeVars, allVars
<1>8. Finish
  BY <1>1, <1>2, <1>3, <1>4, <1>5, <1>6, <1>7 DEF RuntimeNext
<1>9. reply.kind = "stored"
  BY <1>0, <1>8 DEF Finish
<1>. QED
  BY <1>8, <1>9

\* What a complete receipt names can be fetched when it is returned.
LEMMA CompleteRetrievable ==
  ASSUME RuntimeInv, [RuntimeNext]_allVars,
         receipt'.outcome = "Complete", receipt' # receipt
  PROVE  /\ store' = store
         /\ receipt'.stored = Stored_ref /\ receipt'.inline = inv.inline
         /\ receipt'.citations = inv.out.citations
         /\ inv.inline \in Texts /\ inv.out \in Outputs
         /\ \A id \in Named : id \in DOMAIN store.entries /\ Retrievable(store, id, receipt'.now)
<1>0. Inv /\ AckInv /\ Shaped /\ StoreInHand
  BY DEF RuntimeInv, CallInv
<1>1. Finish /\ reply.kind = "stored"
  BY CompleteFinishes
<1>. DEFINE full == [outcome |-> "Complete", effective |-> inv.effective, now |-> inv.now,
                     input |-> inv.input, output |-> inv.output, inline |-> inv.inline,
                     citations |-> inv.out.citations, stored |-> Stored_ref]
<1>3. receipt' = IF inv.lifecycle = "Validating" /\ ReceiptAccepts(full)
                 THEN full ELSE [outcome |-> "ReceiptInvariant"]
  BY <1>1 DEF Finish
<1>4. receipt' = full
  BY <1>3
<1>5. store' = store /\ inv.at = 14 /\ ~batch.active
  BY <1>0, <1>1, StepsOrder DEF Finish, vars
<1>6. reply.ids = Named /\ reply.now = inv.now /\ inv.inline \in Texts /\ inv.out \in Outputs
  BY <1>0, <1>1, <1>5 DEF StoreInHand, Shaped
<1>7. Named \subseteq DOMAIN store.entries /\ Fresh(store, inv.now)
  BY <1>0, <1>1, <1>6 DEF AckInv
<1>8. \A id \in Named : Retrievable(store, id, inv.now)
  BY <1>0, <1>7, FreshRetrievable DEF Inv
<1>. QED
  BY <1>4, <1>5, <1>6, <1>7, <1>8

\* The payload filed under an answer's address is that answer.
LEMMA AddressDecides ==
  ASSUME NoCollision, Inv, NEW c \in Contents, Digest[c] \in DOMAIN store.entries
  PROVE  store.entries[Digest[c]].bytes = c
<1>. DEFINE d == store.entries[Digest[c]].bytes
<1>1. d \in Contents
  BY DEF Inv, Sound, IsStore, Entry
<1>2. Digest[d] = Digest[c]
  BY DEF Inv, Sound, Addressed
<1>. QED
  BY <1>1, <1>2 DEF NoCollision

LEMMA StoreMatchesStep ==
  ASSUME NoCollision, RuntimeInv, [RuntimeNext]_allVars
  PROVE  /\ [receipt'.outcome = "Complete" /\ receipt' # receipt =>
                /\ \A id \in {receipt'.stored.result_id} \cup receipt'.stored.artifact_ids :
                      Retrievable(store', id, receipt'.now)
                /\ store'.entries[receipt'.stored.result_id].bytes
                       = Encoded[<<receipt'.inline, receipt'.citations>>]]_allVars
         /\ [inv # Idle /\ inv' = Idle /\ receipt'.outcome = "Incomplete" =>
                store' = inv.before]_allVars
<1>1. ASSUME receipt'.outcome = "Complete", receipt' # receipt
      PROVE  /\ \A id \in {receipt'.stored.result_id} \cup receipt'.stored.artifact_ids :
                   Retrievable(store', id, receipt'.now)
             /\ store'.entries[receipt'.stored.result_id].bytes
                    = Encoded[<<receipt'.inline, receipt'.citations>>]
  <2>. DEFINE c == Encoded[<<inv.inline, inv.out.citations>>]
  <2>1. /\ store' = store /\ receipt'.stored = Stored_ref
        /\ Encoded[<<receipt'.inline, receipt'.citations>>] = c
        /\ inv.inline \in Texts /\ inv.out \in Outputs
        /\ \A id \in Named :
              id \in DOMAIN store.entries /\ Retrievable(store, id, receipt'.now)
    BY <1>1, CompleteRetrievable
  <2>2. {receipt'.stored.result_id} \cup receipt'.stored.artifact_ids = Named
    BY <2>1 DEF Named
  <2>3. receipt'.stored.result_id = Digest[c]
    BY <2>1 DEF Stored_ref
  <2>4. c \in Contents /\ Digest[c] \in DOMAIN store.entries
    <3>1. inv.out.citations \in Citations
      BY <2>1, RuntimeAssumption
    <3>. QED
      BY <2>1, <2>2, <2>3, <3>1, RuntimeAssumption
  <2>. HIDE DEF c
  <2>5. store.entries[Digest[c]].bytes = c
    BY <2>4, AddressDecides DEF RuntimeInv
  <2>. QED
    BY <2>1, <2>2, <2>3, <2>5
<1>. QED
  BY <1>1, EndsAsFound

\* The store is what the receipt says of it: a complete receipt names payloads
\* that can all be fetched and files the answer under its own address; an incomplete
\* one leaves the store as it was; and only an SQZ latency out of range can keep a
\* receipt from being built.  That the bytes are the answer's rests on SHA-256
\* telling the payloads apart.
THEOREM StoreAlwaysMatchesReceipt ==
  ASSUME NoCollision
  PROVE  RuntimeSpec => StoreMatchesReceipt
<1>1. RuntimeInv => ReceiptUnlessLatency
  BY DEF RuntimeInv, CallInv, ReceiptFine
<1>. QED
  BY <1>1, RuntimeInvHolds, StoreMatchesStep, PTL
     DEF RuntimeSpec, StoreMatchesReceipt, CompleteIsBacked, IncompleteLeavesStore

=============================================================================
