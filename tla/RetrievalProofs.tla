--------------------------- MODULE RetrievalProofs ---------------------------
(***************************************************************************)
(* Theorems about Retrieval, for any graphs, questions and bounds: what    *)
(* the bounded walks say of themselves, what a packet holds, that answers  *)
(* are exact, and that a packet not truncated lacks nothing.               *)
(***************************************************************************)
EXTENDS Retrieval, FiniteSetTheorems, WellFoundedInduction, TLAPS

-----------------------------------------------------------------------------
(* Numbers and sequences. *)

LEMMA LeastElement ==
    ASSUME NEW S \in SUBSET Nat, S # {}
    PROVE  \E k \in S : \A l \in S : k <= l
<1>1. \E k \in S : \A l \in S : <<l, k>> \notin OpToRel(<, Nat)
  BY NatLessThanWellFounded, WFMin
<1>2. ASSUME NEW k \in Nat, NEW l \in Nat, <<l, k>> \notin OpToRel(<, Nat)
      PROVE  k <= l
  <2>1. \A ss \in Nat \X Nat : ss \in OpToRel(<, Nat) <=> ss[1] < ss[2]
    BY Zenon DEF OpToRel
  <2>2. <<l, k>> \in Nat \X Nat /\ <<l, k>>[1] = l /\ <<l, k>>[2] = k
    OBVIOUS
  <2>3. ~(l < k)
    BY <1>2, <2>1, <2>2, Zenon
  <2>. QED
    BY <2>3
<1>. QED
  BY <1>1, <1>2

\* Induction, for a set instead of a predicate.
LEMMA InductionSet ==
    ASSUME NEW S, 0 \in S, \A k \in Nat : k \in S => k + 1 \in S
    PROVE  Nat \subseteq S
<1>. SUFFICES ASSUME Nat \ S # {} PROVE FALSE
  OBVIOUS
<1>1. PICK k \in Nat \ S : \A l \in Nat \ S : k <= l
  <2>1. Nat \ S \in SUBSET Nat
    OBVIOUS
  <2>. QED
    BY <2>1, LeastElement
<1>2. k - 1 \in Nat /\ k = (k - 1) + 1
  BY <1>1
<1>. QED
  BY <1>1, <1>2

-----------------------------------------------------------------------------
(* Walks. *)

WalkFields ==
    {"seeds", "reverse", "context", "stop", "late", "byTarget", "goal", "maxDepth", "maxItems",
     "status", "seen", "found", "depths", "trace", "at", "pending", "truncated", "queue"}

\* An edge that the walk would follow out of what it has seen.
Leaves(w, e) == Follows(w, e) /\ From(w, e) \in w.seen /\ Onto(w, e) \notin w.seen

\* The edges in hand start at the node in hand, which was seen.
InHand ==
    \A e \in walk.pending :
        e \in graph.edges /\ From(walk, e) = walk.at.node /\ walk.at.node \in walk.seen

\* What is queued was seen, is at most one deeper than the node in hand and
\* within the depth, and comes in the order of its depth.
Queued ==
    /\ \A q \in walk.queue :
          /\ q.node \in walk.seen
          /\ q.turn \in Int /\ q.turn <= walk.found
          /\ q.depth \in Nat /\ q.depth <= walk.maxDepth
          /\ walk.at.depth <= q.depth /\ q.depth <= walk.at.depth + 1
    /\ \A q, r \in walk.queue : q.turn <= r.turn => q.depth <= r.depth

\* While nothing was left out, an edge that leaves what was seen is in hand or
\* has its turn to come; once something was, a bound is hit and stays hit, so
\* the edge that was cut off still leaves.
Frontier ==
    /\ ~walk.truncated =>
          \A e \in graph.edges : Leaves(walk, e) =>
              e \in walk.pending \/ \E q \in walk.queue : q.node = From(walk, e)
    /\ walk.truncated => AtBound /\ \E e \in graph.edges : Leaves(walk, e)

WalkInv ==
    /\ DOMAIN walk = WalkFields
    /\ walk.found \in Nat /\ walk.maxDepth \in Nat
    /\ walk.at = [node |-> walk.at.node, depth |-> walk.at.depth]
    /\ walk.at.depth \in Nat /\ walk.at.depth <= walk.maxDepth
    /\ walk.truncated \in BOOLEAN
    /\ walk.seeds \subseteq walk.seen
    /\ WalkSound
    /\ InHand
    /\ Queued
    /\ Frontier
    /\ walk.status = "stopped" => walk.truncated
    /\ walk.status = "exhausted" => walk.pending = {} /\ walk.queue = {}

\* A walk about to start, whatever its seeds, ranks and bounds.
Starts(w) ==
    /\ DOMAIN w = WalkFields
    /\ w.status \notin {"stopped", "exhausted"}
    /\ w.seen = w.seeds /\ w.found = 0 /\ w.maxDepth \in Nat
    /\ w.at = [node |-> Nowhere, depth |-> 0]
    /\ w.pending = {} /\ w.truncated = FALSE
    /\ \E rank : /\ w.queue = {[node |-> s, depth |-> 0, turn |-> rank[s]] : s \in w.seeds}
                 /\ \A s \in w.seeds : rank[s] \in Int /\ rank[s] <= 0

LEMMA WalkStarts ==
    ASSUME Starts(walk)
    PROVE  WalkInv
<1>1. PICK rank : /\ walk.queue = {[node |-> s, depth |-> 0, turn |-> rank[s]] : s \in walk.seeds}
                  /\ \A s \in walk.seeds : rank[s] \in Int /\ rank[s] <= 0
  BY DEF Starts
<1>2. Queued
  BY <1>1 DEF Starts, Queued
<1>3. /\ DOMAIN walk = WalkFields
      /\ walk.status \notin {"stopped", "exhausted"}
      /\ walk.seen = walk.seeds /\ walk.found = 0 /\ walk.maxDepth \in Nat
      /\ walk.at.node = Nowhere /\ walk.at.depth = 0
      /\ walk.at = [node |-> walk.at.node, depth |-> walk.at.depth]
      /\ walk.pending = {} /\ walk.truncated = FALSE
  BY DEF Starts
<1>4. Frontier
  <2>1. \A s \in walk.seeds : \E q \in walk.queue : q.node = s
    <3>. TAKE s \in walk.seeds
    <3>1. [node |-> s, depth |-> 0, turn |-> rank[s]] \in walk.queue
      BY <1>1
    <3>. QED
      BY <3>1
  <2>. QED
    BY <1>3, <2>1 DEF Frontier, Leaves
<1>5. WalkSound
  BY <1>3 DEF WalkSound
<1>6. InHand
  BY <1>3 DEF InHand
<1>7. /\ walk.found \in Nat /\ walk.at.depth \in Nat /\ walk.at.depth <= walk.maxDepth
      /\ walk.seeds \subseteq walk.seen
  BY <1>3, SMT
<1>8. walk.truncated \in BOOLEAN
  BY <1>3, Zenon
<1>. QED
  BY <1>2, <1>3, <1>4, <1>5, <1>6, <1>7, <1>8 DEF WalkInv

LEMMA WalkPops ==
    ASSUME WalkInv, NEW q \in walk.queue, Pop(q)
    PROVE  WalkInv'
<1>. USE DEF WalkInv
<1>1. /\ DOMAIN walk' = WalkFields
      /\ walk'.queue = walk.queue \ {q}
      /\ walk'.at = [node |-> q.node, depth |-> q.depth]
      /\ walk'.pending = {e \in graph.edges : From(walk, e) = q.node}
      /\ walk'.status \in {"walking", "found"}
      /\ walk'.seeds = walk.seeds /\ walk'.seen = walk.seen /\ walk'.found = walk.found
      /\ walk'.truncated = walk.truncated /\ walk'.context = walk.context
      /\ walk'.reverse = walk.reverse /\ walk'.maxDepth = walk.maxDepth
      /\ walk'.maxItems = walk.maxItems
      /\ walk.pending = {} /\ InFront(q)
      /\ graph' = graph
  BY DEF Pop, WalkFields
<1>2. \A e : From(walk', e) = From(walk, e) /\ Onto(walk', e) = Onto(walk, e)
             /\ (Follows(walk', e) <=> Follows(walk, e))
  BY <1>1 DEF From, Onto, Follows
<1>3. \A e : Leaves(walk', e) <=> Leaves(walk, e)
  BY <1>1, <1>2 DEF Leaves
<1>4. WalkSound'
  BY <1>1, <1>2 DEF WalkSound, Closed, Nodes
<1>5. InHand'
  BY <1>1, <1>2 DEF InHand, Queued
<1>6. Queued'
  BY <1>1 DEF Queued, InFront
<1>7. Frontier'
  <2>1. CASE ~walk.truncated
    BY <1>1, <1>2, <1>3, <2>1 DEF Frontier
  <2>2. CASE walk.truncated
    <3>1. AtBound'
      BY <1>1, <2>2 DEF Frontier, AtBound, Queued
    <3>. QED
      BY <1>1, <1>3, <2>2, <3>1 DEF Frontier
  <2>. QED
    BY <2>1, <2>2
<1>. QED
  BY <1>1, <1>4, <1>5, <1>6, <1>7 DEF Queued

\* An edge that is not followed, or leads back to what was seen.
LEMMA WalkSkips ==
    ASSUME WalkInv, NEW e \in walk.pending, walk.status = "walking",
           ~Follows(walk, e) \/ Onto(walk, e) \in walk.seen,
           walk' = [walk EXCEPT !.pending = @ \ {e}], UNCHANGED graph
    PROVE  WalkInv'
<1>. USE DEF WalkInv
<1>1. /\ DOMAIN walk' = WalkFields
      /\ walk'.pending = walk.pending \ {e}
      /\ walk'.status = "walking"
      /\ walk'.queue = walk.queue /\ walk'.at = walk.at
      /\ walk'.seeds = walk.seeds /\ walk'.seen = walk.seen /\ walk'.found = walk.found
      /\ walk'.truncated = walk.truncated /\ walk'.context = walk.context
      /\ walk'.reverse = walk.reverse /\ walk'.maxDepth = walk.maxDepth
      /\ walk'.maxItems = walk.maxItems
  BY DEF WalkFields
<1>2. \A f : From(walk', f) = From(walk, f) /\ Onto(walk', f) = Onto(walk, f)
             /\ (Follows(walk', f) <=> Follows(walk, f))
  BY <1>1 DEF From, Onto, Follows
<1>3. \A f : Leaves(walk', f) <=> Leaves(walk, f)
  BY <1>1, <1>2 DEF Leaves
<1>4. WalkSound'
  BY <1>1, <1>2 DEF WalkSound, Closed, Nodes
<1>5. InHand' /\ Queued'
  BY <1>1, <1>2 DEF InHand, Queued
<1>6. Frontier'
  <2>1. ~Leaves(walk, e)
    BY DEF Leaves
  <2>2. AtBound' <=> AtBound
    BY <1>1 DEF AtBound
  <2>. QED
    BY <1>1, <1>2, <1>3, <2>1, <2>2 DEF Frontier
<1>. QED
  BY <1>1, <1>4, <1>5, <1>6

LEMMA WalkCutsOff ==
    ASSUME WalkInv, NEW e \in walk.pending, walk.status = "walking", AtBound,
           Follows(walk, e), Onto(walk, e) \notin walk.seen, CutOff(e), UNCHANGED graph
    PROVE  WalkInv'
<1>. USE DEF WalkInv
<1>1. /\ DOMAIN walk' = WalkFields
      /\ walk'.pending = walk.pending \ {e}
      /\ walk'.status \in {"walking", "stopped"}
      /\ walk'.queue = walk.queue /\ walk'.at = walk.at
      /\ walk'.seeds = walk.seeds /\ walk'.seen = walk.seen /\ walk'.found = walk.found
      /\ walk'.truncated = TRUE /\ walk'.context = walk.context
      /\ walk'.reverse = walk.reverse /\ walk'.maxDepth = walk.maxDepth
      /\ walk'.maxItems = walk.maxItems
  BY DEF WalkFields, CutOff
<1>2. \A f : From(walk', f) = From(walk, f) /\ Onto(walk', f) = Onto(walk, f)
             /\ (Follows(walk', f) <=> Follows(walk, f))
  BY <1>1 DEF From, Onto, Follows
<1>3. \A f : Leaves(walk', f) <=> Leaves(walk, f)
  BY <1>1, <1>2 DEF Leaves
<1>4. WalkSound'
  BY <1>1, <1>2 DEF WalkSound, Closed, Nodes
<1>5. InHand' /\ Queued'
  BY <1>1, <1>2 DEF InHand, Queued
<1>6. Frontier'
  <2>1. e \in graph.edges /\ Leaves(walk, e)
    BY DEF Leaves, InHand
  <2>2. AtBound' <=> AtBound
    BY <1>1 DEF AtBound
  <2>. QED
    BY <1>1, <1>3, <2>1, <2>2 DEF Frontier
<1>. QED
  BY <1>1, <1>4, <1>5, <1>6

LEMMA WalkDiscovers ==
    ASSUME WalkInv, NEW e \in walk.pending, walk.status = "walking", ~AtBound,
           Follows(walk, e), Onto(walk, e) \notin walk.seen, Discover(e), UNCHANGED graph
    PROVE  WalkInv'
<1>. USE DEF WalkInv
<1>. DEFINE n == Onto(walk, e)
            new == [node |-> n, depth |-> walk.at.depth + 1, turn |-> 1 + walk.found]
<1>1. /\ DOMAIN walk' = WalkFields
      /\ walk'.pending = walk.pending \ {e}
      /\ walk'.status \in {"walking", "found"}
      /\ walk'.queue = walk.queue \cup {new} /\ walk'.at = walk.at
      /\ walk'.seeds = walk.seeds /\ walk'.seen = walk.seen \cup {n}
      /\ walk'.found = walk.found + 1
      /\ walk'.truncated = walk.truncated /\ walk'.context = walk.context
      /\ walk'.reverse = walk.reverse /\ walk'.maxDepth = walk.maxDepth
      /\ walk'.maxItems = walk.maxItems
  BY DEF WalkFields, Discover
<1>2. \A f : From(walk', f) = From(walk, f) /\ Onto(walk', f) = Onto(walk, f)
             /\ (Follows(walk', f) <=> Follows(walk, f))
  BY <1>1 DEF From, Onto, Follows
<1>3. e \in graph.edges /\ From(walk, e) \in walk.seen
  BY DEF InHand
<1>4. WalkSound'
  <2>. SUFFICES ASSUME NEW X \in SUBSET Nodes, walk.seeds \subseteq X, Closed(X)'
                PROVE  walk.seen \cup {n} \subseteq X
    BY <1>1 DEF WalkSound, Nodes
  <2>1. Closed(X)
    BY <1>1, <1>2 DEF Closed
  <2>2. walk.seen \subseteq X
    BY <2>1 DEF WalkSound
  <2>3. n \in X
    BY <1>3, <2>1, <2>2 DEF Closed, Follows
  <2>. QED
    BY <2>2, <2>3
<1>. HIDE DEF n
<1>5. InHand'
  BY <1>1, <1>2 DEF InHand
<1>6. ~walk.truncated
  BY DEF Frontier
<1>7. walk.at.depth + 1 <= walk.maxDepth
  BY DEF AtBound
<1>8. Queued'
  BY <1>1, <1>7 DEF Queued
<1>9. Frontier'
  <2>. SUFFICES ASSUME NEW f \in graph.edges, Leaves(walk', f)
                PROVE  f \in walk'.pending \/ \E q \in walk'.queue : q.node = From(walk', f)
    BY <1>1, <1>6 DEF Frontier
  <2>1. f # e
    BY <1>1, <1>2 DEF Leaves, n
  <2>2. CASE From(walk, f) = n
    <3>1. new \in walk'.queue /\ new.node = n
      BY <1>1
    <3>. QED
      BY <1>2, <2>2, <3>1
  <2>3. CASE From(walk, f) # n
    <3>1. Leaves(walk, f)
      BY <1>1, <1>2, <2>3 DEF Leaves
    <3>. QED
      BY <1>1, <1>2, <1>6, <2>1, <3>1 DEF Frontier
  <2>. QED
    BY <2>2, <2>3
<1>. QED
  BY <1>1, <1>4, <1>5, <1>8, <1>9

LEMMA WalkSteps ==
    ASSUME WalkInv, TraversalNext
    PROVE  WalkInv'
<1>1. CASE \E q \in walk.queue : Pop(q)
  BY <1>1, WalkPops
<1>2. CASE \E e \in walk.pending : Relax(e)
  <2>. PICK e \in walk.pending : Relax(e)
    BY <1>2
  <2>1. CASE ~Follows(walk, e) \/ Onto(walk, e) \in walk.seen
    BY <2>1, WalkSkips DEF Relax
  <2>2. CASE Follows(walk, e) /\ Onto(walk, e) \notin walk.seen
    BY <2>2, WalkCutsOff, WalkDiscovers DEF Relax
  <2>. QED
    BY <2>1, <2>2
<1>3. CASE Exhaust
  <2>. USE DEF WalkInv
  <2>1. /\ DOMAIN walk' = WalkFields
        /\ walk'.status = "exhausted" /\ walk.pending = {} /\ walk.queue = {}
        /\ walk'.pending = walk.pending /\ walk'.queue = walk.queue /\ walk'.at = walk.at
        /\ walk'.seeds = walk.seeds /\ walk'.seen = walk.seen /\ walk'.found = walk.found
        /\ walk'.truncated = walk.truncated /\ walk'.context = walk.context
        /\ walk'.reverse = walk.reverse /\ walk'.maxDepth = walk.maxDepth
        /\ walk'.maxItems = walk.maxItems /\ graph' = graph
    BY <1>3 DEF WalkFields, Exhaust
  <2>2. \A f : From(walk', f) = From(walk, f) /\ Onto(walk', f) = Onto(walk, f)
               /\ (Follows(walk', f) <=> Follows(walk, f))
    BY <2>1 DEF From, Onto, Follows
  <2>3. \A f : Leaves(walk', f) <=> Leaves(walk, f)
    BY <2>1, <2>2 DEF Leaves
  <2>4. WalkSound'
    BY <2>1, <2>2 DEF WalkSound, Closed, Nodes
  <2>5. InHand' /\ Queued'
    BY <2>1 DEF InHand, Queued
  <2>6. Frontier'
    BY <2>1, <2>2, <2>3 DEF Frontier, AtBound
  <2>. QED
    BY <2>1, <2>4, <2>5, <2>6
<1>. QED
  BY <1>1, <1>2, <1>3 DEF TraversalNext

\* A step that leaves the graph and the walk alone.
LEMMA WalkStays ==
    ASSUME WalkInv, UNCHANGED <<graph, walk>>
    PROVE  WalkInv'
BY DEF WalkInv, WalkSound, Closed, InHand, Queued, Frontier, Leaves, Follows, From, Onto, AtBound,
       Nodes

\* A walk that has ended says what it left out.
LEMMA WalkExact ==
    ASSUME WalkInv
    PROVE  TruncationExact
<1>. SUFFICES ASSUME walk.status \in {"exhausted", "stopped"}
              PROVE  walk.truncated <=> ~Closed(walk.seen)
  BY DEF TruncationExact
<1>1. Closed(walk.seen) <=> \A e \in graph.edges : ~Leaves(walk, e)
  BY DEF Closed, Leaves, Follows
<1>2. CASE walk.truncated
  BY <1>1, <1>2 DEF WalkInv, Frontier
<1>3. CASE ~walk.truncated
  BY <1>1, <1>3 DEF WalkInv, Frontier
<1>. QED
  BY <1>2, <1>3

-----------------------------------------------------------------------------
(* Packets. *)

PackFields == {"status", "error", "rest", "selected", "omitted", "taken", "raw", "maxItems", "maxBytes"}

\* The request is one the program can be given.
Ordered ==
    /\ {order.maxItems, order.maxBytes, order.viewItems, order.viewBytes} \subseteq Nat
    /\ order.ceiling \in Nat \cup {NoCeiling}
    /\ \A e \in order.evidence : e.bytes \in Nat

\* Evidence is selected, omitted or still to come; the totals are within the
\* limits, and what was omitted fits less and less.
Selecting ==
    /\ {pack.taken, pack.raw, pack.maxItems, pack.maxBytes} \subseteq Nat
    /\ pack.taken <= pack.maxItems /\ pack.maxItems <= order.maxItems
    /\ walk.status = "exhausted" /\ pack.maxItems <= order.viewItems + walk.found
    /\ pack.raw <= pack.maxBytes
    /\ pack.maxBytes <= order.maxBytes /\ pack.maxBytes <= order.viewBytes
    /\ order.ceiling # NoCeiling => estimate_tokens(pack.raw) <= order.ceiling
    /\ pack.rest \cup pack.selected \cup pack.omitted = order.evidence
    /\ \A e \in pack.omitted : e.priority # "Required" /\ ~Fits(e)

\* The closure admits no more nodes than it is allowed.
Admitting ==
    /\ order.maxNodes \in Nat
    /\ walk.maxItems = order.maxNodes /\ walk.found <= order.maxNodes

PackInv ==
    /\ DOMAIN pack = PackFields
    /\ pack.status \in {"none", "closing", "selecting", "delivered", "failed"}
    /\ pack.status \in {"closing", "selecting", "delivered"} => Ordered /\ Admitting
    /\ pack.status = "closing" =>
          pack.taken = 0 /\ pack.raw = 0 /\ pack.selected = {} /\ pack.omitted = {}
    /\ pack.status \in {"selecting", "delivered"} => Selecting
    /\ pack.status = "delivered" => pack.rest = {}

\* An estimate grows with the bytes.
LEMMA EstimateGrows ==
    ASSUME NEW a \in Nat, NEW b \in Nat, a <= b
    PROVE  estimate_tokens(a) \in Nat /\ estimate_tokens(a) <= estimate_tokens(b)
BY DEF estimate_tokens

LEMMA PackIndexes ==
    ASSUME WalkInv, PackInv, Index
    PROVE  PackInv'
<1>1. Ordered /\ Ordered' /\ Admitting'
  BY DEF PackInv, Index, Ordered, Admitting
<1>2. walk.found \in Nat /\ walk' = walk /\ walk.status = "exhausted"
  BY DEF WalkInv, Index
<1>3. CASE EvidenceError(order, walk.seen) # "none"
  <2>1. pack' = [pack EXCEPT !.status = "failed", !.error = EvidenceError(order, walk.seen)]
    BY <1>3 DEF Index
  <2>. QED
    BY <1>1, <2>1 DEF PackInv, PackFields
<1>4. CASE EvidenceError(order, walk.seen) = "none"
  <2>1. pack' = [pack EXCEPT !.status = "selecting", !.rest = order.evidence,
                     !.maxItems = Least(order.maxItems, order.viewItems + walk.found),
                     !.maxBytes = Least(order.maxBytes, order.viewBytes)]
    BY <1>4 DEF Index
  <2>2. /\ DOMAIN pack' = PackFields /\ pack'.status = "selecting"
        /\ pack'.rest = order.evidence /\ pack'.selected = {} /\ pack'.omitted = {}
        /\ pack'.taken = 0 /\ pack'.raw = 0
        /\ pack'.maxItems = Least(order.maxItems, order.viewItems + walk.found)
        /\ pack'.maxBytes = Least(order.maxBytes, order.viewBytes)
    BY <2>1 DEF PackInv, PackFields, Index
  <2>3. order' = order
    BY DEF Index
  <2>4. order.ceiling # NoCeiling => estimate_tokens(0) <= order.ceiling
    BY <1>1 DEF Ordered, estimate_tokens
  <2>5. Selecting'
    BY <1>1, <1>2, <2>2, <2>3, <2>4 DEF Selecting, Ordered, Least
  <2>. QED
    BY <1>1, <2>2, <2>5 DEF PackInv
<1>. QED
  BY <1>3, <1>4

LEMMA PackSelects ==
    ASSUME PackInv, NEW c \in pack.rest, SelectNext(c)
    PROVE  PackInv'
<1>1. /\ pack.status = "selecting" /\ Ordered /\ Selecting /\ order' = order
      /\ DOMAIN pack = PackFields /\ Ordered' /\ Admitting' /\ walk' = walk
  BY DEF PackInv, SelectNext, Ordered, Admitting
<1>2. c \in order.evidence /\ c.bytes \in Nat
  BY <1>1 DEF Selecting, Ordered
<1>3. CASE Fits(c)
  <2>1. /\ DOMAIN pack' = PackFields /\ pack'.status = "selecting"
        /\ pack'.rest = pack.rest \ {c} /\ pack'.selected = pack.selected \cup {c}
        /\ pack'.omitted = pack.omitted
        /\ pack'.taken = pack.taken + 1 /\ pack'.raw = pack.raw + c.bytes
        /\ pack'.maxItems = pack.maxItems /\ pack'.maxBytes = pack.maxBytes
    BY <1>1, <1>3 DEF SelectNext, PackFields
  <2>2. \A e \in order.evidence :
           /\ estimate_tokens(pack.raw + e.bytes) \in Nat
           /\ estimate_tokens(pack.raw + e.bytes) <= estimate_tokens(pack.raw + c.bytes + e.bytes)
           /\ estimate_tokens(pack.raw + c.bytes + e.bytes) \in Nat
    <3>. TAKE e \in order.evidence
    <3>1. e.bytes \in Nat /\ pack.raw \in Nat
      BY <1>1 DEF Selecting, Ordered
    <3>. QED
      BY <1>2, <3>1, EstimateGrows
  <2>3. \A e \in pack.omitted : ~Fits(e)'
    <3>. SUFFICES ASSUME NEW e \in pack.omitted, Fits(e)'
                  PROVE  Fits(e)
      BY <1>1 DEF Selecting
    <3>1. e \in order.evidence /\ e.bytes \in Nat
      BY <1>1 DEF Selecting, Ordered
    <3>2. pack.taken # pack.maxItems
      BY <1>3 DEF Fits
    <3>3. pack.raw + e.bytes <= pack.maxBytes
      BY <1>1, <1>2, <2>1, <3>1 DEF Fits, Selecting
    <3>4. order.ceiling # NoCeiling => estimate_tokens(pack.raw + e.bytes) <= order.ceiling
      BY <1>1, <1>2, <2>1, <2>2, <3>1 DEF Fits, Ordered
    <3>. QED
      BY <3>2, <3>3, <3>4 DEF Fits
  <2>4. /\ pack'.taken <= pack'.maxItems /\ pack'.raw <= pack'.maxBytes
        /\ {pack'.taken, pack'.raw, pack'.maxItems, pack'.maxBytes} \subseteq Nat
        /\ order.ceiling # NoCeiling => estimate_tokens(pack'.raw) <= order.ceiling
    <3>1. /\ pack.taken # pack.maxItems /\ pack.raw + c.bytes <= pack.maxBytes
          /\ order.ceiling # NoCeiling => estimate_tokens(pack.raw + c.bytes) <= order.ceiling
      BY <1>3 DEF Fits
    <3>2. /\ {pack.taken, pack.raw, pack.maxItems, pack.maxBytes} \subseteq Nat
          /\ pack.taken <= pack.maxItems
      BY <1>1 DEF Selecting
    <3>. QED
      BY <1>2, <2>1, <3>1, <3>2
  <2>5. Selecting'
    BY <1>1, <2>1, <2>3, <2>4 DEF Selecting
  <2>. QED
    BY <1>1, <2>1, <2>5 DEF PackInv
<1>4. CASE ~Fits(c) /\ c.priority = "Required"
  <2>1. DOMAIN pack' = PackFields /\ pack'.status = "failed"
    BY <1>1, <1>4 DEF SelectNext, PackFields
  <2>. QED
    BY <2>1 DEF PackInv
<1>5. CASE ~Fits(c) /\ c.priority # "Required"
  <2>1. /\ DOMAIN pack' = PackFields /\ pack'.status = "selecting"
        /\ pack'.rest = pack.rest \ {c} /\ pack'.selected = pack.selected
        /\ pack'.omitted = pack.omitted \cup {c}
        /\ pack'.taken = pack.taken /\ pack'.raw = pack.raw
        /\ pack'.maxItems = pack.maxItems /\ pack'.maxBytes = pack.maxBytes
    BY <1>1, <1>5 DEF SelectNext, PackFields
  <2>2. \A e : Fits(e)' <=> Fits(e)
    BY <1>1, <2>1 DEF Fits
  <2>3. Selecting'
    BY <1>1, <1>5, <2>1, <2>2 DEF Selecting
  <2>. QED
    BY <1>1, <2>1, <2>3 DEF PackInv
<1>. QED
  BY <1>3, <1>4, <1>5 DEF SelectNext

LEMMA PackDelivers ==
    ASSUME PackInv, Deliver
    PROVE  PackInv'
<1>1. /\ Ordered /\ Selecting /\ order' = order /\ pack.rest = {} /\ Admitting /\ walk' = walk
      /\ DOMAIN pack' = PackFields /\ pack'.status = "delivered"
      /\ pack'.rest = pack.rest /\ pack'.selected = pack.selected
      /\ pack'.omitted = pack.omitted
      /\ pack'.taken = pack.taken /\ pack'.raw = pack.raw
      /\ pack'.maxItems = pack.maxItems /\ pack'.maxBytes = pack.maxBytes
  BY DEF PackInv, PackFields, Deliver
<1>2. \A e : Fits(e)' <=> Fits(e)
  BY <1>1 DEF Fits
<1>3. Selecting' /\ Ordered' /\ Admitting'
  BY <1>1, <1>2 DEF Selecting, Ordered, Admitting
<1>. QED
  BY <1>1, <1>3 DEF PackInv

LEMMA PackSteps ==
    ASSUME WalkInv, PackInv, PacketNext
    PROVE  PackInv' /\ WalkInv'
<1>1. PackInv'
  BY PackIndexes, PackSelects, PackDelivers DEF PacketNext
<1>2. UNCHANGED <<graph, walk>>
  BY DEF PacketNext, Index, SelectNext, Deliver
<1>. QED
  BY <1>1, <1>2, WalkStays

LEMMA PackStays ==
    ASSUME PackInv, UNCHANGED packetVars, UNCHANGED walk
    PROVE  PackInv'
BY DEF PackInv, Ordered, Admitting, Selecting, Fits, packetVars

\* No packet, no matter what the walk does.
LEMMA PackWaits ==
    ASSUME PackInv, UNCHANGED packetVars, pack.status = "none"
    PROVE  PackInv'
BY DEF PackInv, packetVars

\* The closure discovers no node once it has all it is allowed.
LEMMA PackWalks ==
    ASSUME WalkInv, PackInv, UNCHANGED packetVars, TraversalNext
    PROVE  PackInv'
<1>1. walk.status = "walking" /\ DOMAIN walk = WalkFields /\ walk.found \in Nat
  BY DEF TraversalNext, Pop, Relax, Exhaust, WalkInv
<1>2. /\ walk'.maxItems = walk.maxItems
      /\ \/ walk'.found = walk.found
         \/ walk.found # walk.maxItems /\ walk'.found = walk.found + 1
  <2>1. ASSUME NEW q \in walk.queue, Pop(q)
        PROVE  walk'.maxItems = walk.maxItems /\ walk'.found = walk.found
    BY <1>1, <2>1 DEF Pop, WalkFields
  <2>2. ASSUME NEW e \in walk.pending, walk' = [walk EXCEPT !.pending = @ \ {e}]
        PROVE  walk'.maxItems = walk.maxItems /\ walk'.found = walk.found
    BY <1>1, <2>2 DEF WalkFields
  <2>3. ASSUME NEW e \in walk.pending, CutOff(e)
        PROVE  walk'.maxItems = walk.maxItems /\ walk'.found = walk.found
    BY <1>1, <2>3 DEF CutOff, WalkFields
  <2>4. ASSUME NEW e \in walk.pending, Discover(e)
        PROVE  walk'.maxItems = walk.maxItems /\ walk'.found = walk.found + 1
    BY <1>1, <2>4 DEF Discover, WalkFields
  <2>5. ASSUME NEW e \in walk.pending, Relax(e)
        PROVE  \/ walk' = [walk EXCEPT !.pending = @ \ {e}]
               \/ CutOff(e)
               \/ walk.found # walk.maxItems /\ Discover(e)
    BY <2>5 DEF Relax, AtBound
  <2>6. ASSUME Exhaust
        PROVE  walk'.maxItems = walk.maxItems /\ walk'.found = walk.found
    BY <1>1, <2>6 DEF Exhaust, WalkFields
  <2>7. ASSUME NEW e \in walk.pending, Relax(e)
        PROVE  /\ walk'.maxItems = walk.maxItems
               /\ \/ walk'.found = walk.found
                  \/ walk.found # walk.maxItems /\ walk'.found = walk.found + 1
    BY <2>2, <2>3, <2>4, <2>5, <2>7
  <2>8. \/ \E q \in walk.queue : Pop(q)
        \/ \E e \in walk.pending : Relax(e)
        \/ Exhaust
    BY DEF TraversalNext
  <2>. QED
    BY <2>1, <2>6, <2>7, <2>8
<1>3. pack.status \in {"closing", "selecting", "delivered"} => pack.status = "closing"
  BY <1>1 DEF PackInv, Selecting
<1>4. Admitting => Admitting'
  BY <1>1, <1>2 DEF Admitting, packetVars
<1>. QED
  BY <1>3, <1>4 DEF PackInv, Ordered, packetVars

\* A packet that is delivered keeps its limits, and says what it left out.
LEMMA PackExact ==
    ASSUME WalkInv, PackInv
    PROVE  PacketWithinLimits /\ OmissionJustified
<1>1. PacketWithinLimits
  <2>. SUFFICES ASSUME pack.status = "delivered"
                PROVE  /\ pack.taken <= order.maxItems
                       /\ pack.taken <= order.viewItems + walk.found
                       /\ walk.found <= order.maxNodes
                       /\ pack.raw <= order.maxBytes /\ pack.raw <= order.viewBytes
                       /\ order.ceiling # NoCeiling => estimate_tokens(pack.raw) <= order.ceiling
    BY DEF PacketWithinLimits
  <2>1. walk.found \in Nat
    BY DEF WalkInv
  <2>. QED
    BY <2>1 DEF PackInv, Ordered, Admitting, Selecting
<1>2. OmissionJustified
  BY DEF PackInv, Selecting, OmissionJustified
<1>. QED
  BY <1>1, <1>2

-----------------------------------------------------------------------------
(* Questions. *)

AnswerFields == {"status", "outcome", "items", "truncated", "at"}

\* Only a question about reachability is at the node it classifies, only one
\* for a packet assembles one.
Answering ==
    /\ DOMAIN answer = AnswerFields
    /\ pack.status # "none" => ask.cmd \in {"packet", "cli_packet", "doctor"}
    /\ answer.status \in {"classify", "known", "tainted"} => ask.cmd \in {"reachability", "zombies"}

RetrievalInv ==
    /\ graph \in Graphs /\ ask \in Questions
    /\ WalkInv /\ PackInv /\ Answering

LEMMA WalkStartsNext == Starts(walk)' => WalkInv'
<1>1. Starts(walk) => WalkInv
  BY WalkStarts
<1>. QED
  BY <1>1, PTL

\* A walk begins whatever else it differs in from another one.
LEMMA WalkBegins ==
    ASSUME NEW seeds, NEW rank, \A s \in seeds : rank[s] \in Int /\ rank[s] <= 0,
           NEW bound \in Nat, NEW w, w = Walk(seeds, rank),
           DOMAIN walk' = DOMAIN w, walk'.maxDepth = bound,
           walk'.status = w.status, walk'.seeds = w.seeds, walk'.seen = w.seen,
           walk'.found = w.found, walk'.at = w.at, walk'.pending = w.pending,
           walk'.truncated = w.truncated, walk'.queue = w.queue
    PROVE  WalkInv'
<1>1. /\ DOMAIN w = WalkFields
      /\ w.status = "walking" /\ w.seeds = seeds /\ w.seen = seeds /\ w.found = 0
      /\ w.at = [node |-> Nowhere, depth |-> 0]
      /\ w.pending = {} /\ w.truncated = FALSE
      /\ w.queue = {[node |-> s, depth |-> 0, turn |-> rank[s]] : s \in seeds}
  BY DEF Walk, WalkFields
<1>2. walk'.queue = {[node |-> s, depth |-> 0, turn |-> rank[s]] : s \in walk'.seeds}
  BY <1>1
<1>3. \E r : /\ walk'.queue = {[node |-> s, depth |-> 0, turn |-> r[s]] : s \in walk'.seeds}
             /\ \A s \in walk'.seeds : r[s] \in Int /\ r[s] <= 0
  BY <1>1, <1>2
<1>4. Starts(walk)'
  BY <1>1, <1>3 DEF Starts
<1>. QED
  BY <1>4, WalkStartsNext

LEMMA Ranks ==
    ASSUME GraphAssumption
    PROVE  \A n \in Nodes : ById[n] \in Int /\ ById[n] <= 0
BY DEF ById, Nodes

\* The ranks of the ends of uncertain edges come before those of what is found.
LEMMA TaintedRanks ==
    ASSUME GraphAssumption, graph \in Graphs, NEW n \in Tainted
    PROVE  LET ends == {2 * e.id : e \in {e \in Uncertain : e.source = n}}
                       \cup {2 * e.id + 1 : e \in {e \in Uncertain : e.target = n}}
           IN  Min(ends) \in Nat /\ Min(ends) <= 2 * M + 1
<1>. DEFINE ends == {2 * e.id : e \in {e \in Uncertain : e.source = n}}
                    \cup {2 * e.id + 1 : e \in {e \in Uncertain : e.target = n}}
<1>1. \A e \in Uncertain : e.id \in 1 .. M
  BY DEF GraphAssumption, Uncertain, Edge
<1>2. ends # {}
  <2>1. PICK e \in Uncertain : n \in {e.source, e.target}
    BY DEF Tainted
  <2>2. CASE n = e.source
    <3>1. 2 * e.id \in ends
      BY <2>1, <2>2
    <3>. QED
      BY <3>1
  <2>3. CASE n = e.target
    <3>1. 2 * e.id + 1 \in ends
      BY <2>1, <2>3
    <3>. QED
      BY <3>1
  <2>. QED
    BY <2>1, <2>2, <2>3
<1>3. M \in Nat
  BY DEF GraphAssumption
<1>4. \A k \in ends : k \in Nat /\ k <= 2 * M + 1
  BY <1>1, <1>3
<1>. HIDE DEF ends
<1>5. \E k \in ends : \A l \in ends : k <= l
  BY <1>2, <1>4, LeastElement
<1>6. Min(ends) \in ends
  BY <1>5 DEF Min
<1>. QED
  BY <1>4, <1>6 DEF ends

LEMMA ReplyTyped ==
    ASSUME NEW outcome, NEW items, NEW truncated, DOMAIN answer = AnswerFields,
           Reply(outcome, items, truncated)
    PROVE  DOMAIN answer' = AnswerFields /\ answer'.status = "done"
BY DEF Reply, AnswerFields

LEMMA ConcludeTyped ==
    ASSUME NEW outcome, NEW truncated, Answering, ask.cmd \in {"reachability", "zombies"},
           Conclude(outcome, truncated), UNCHANGED <<ask, pack>>
    PROVE  Answering'
<1>1. CASE ask.cmd = "reachability"
  BY <1>1, ReplyTyped DEF Conclude, Answering
<1>2. CASE ask.cmd # "reachability"
  <2>1. \/ \E items, cut : Reply("Found", items, cut)
        \/ \E items, at : answer' = [answer EXCEPT !.status = "classify", !.items = items, !.at = at]
    BY <1>2 DEF Conclude
  <2>2. DOMAIN answer' = AnswerFields
    BY <2>1 DEF Reply, Answering, AnswerFields
  <2>. QED
    BY <2>2 DEF Answering
<1>. QED
  BY <1>1, <1>2

\* The steps that answer at once or at the end of a walk.
LEMMA AnswersStay ==
    ASSUME RetrievalInv,
           Find \/ Missing \/ Consumers \/ ImpactEnds \/ TrailEnds \/ Classification \/ TaintEnds
              \/ Query \/ PacketEnds
    PROVE  RetrievalInv'
<1>. USE DEF RetrievalInv
<1>1. OnlyAnswers
  BY DEF Find, Missing, Consumers, ImpactEnds, TrailEnds, Classification, TaintEnds, Query, PacketEnds
<1>2. WalkInv' /\ PackInv' /\ graph' \in Graphs /\ ask' \in Questions /\ UNCHANGED <<ask, pack>>
  BY <1>1, WalkStays, PackStays DEF OnlyAnswers, packetVars
<1>3. Answering'
  <2>1. CASE Find \/ Missing \/ Consumers \/ ImpactEnds \/ TrailEnds \/ Query \/ PacketEnds
    <3>1. \E outcome, items, truncated : Reply(outcome, items, truncated)
      BY <2>1 DEF Find, Missing, Consumers, ImpactEnds, TrailEnds, Query, PacketEnds
    <3>. QED
      BY <1>2, <3>1, ReplyTyped DEF Answering
  <2>2. CASE Classification
    <3>1. CASE Asked("zombies") /\ graph.nodes = {} /\ Reply("Found", <<>>, FALSE)
      BY <1>2, <3>1, ReplyTyped DEF Answering
    <3>2. CASE /\ ask.cmd \in {"reachability", "zombies"}
               /\ \E at : answer' = [answer EXCEPT !.status = "classify", !.at = at]
      BY <1>2, <3>2 DEF Answering, AnswerFields
    <3>. QED
      BY <2>2, <3>1, <3>2 DEF Classification, Asked
  <2>3. CASE TaintEnds
    BY <1>2, <2>3, ConcludeTyped DEF TaintEnds, Answering
  <2>. QED
    BY <2>1, <2>2, <2>3
<1>. QED
  BY <1>2, <1>3

\* The steps that may start a walk for a question to the graph.
LEMMA WalksBegin ==
    ASSUME GraphAssumption, QuestionsAssumption, RetrievalInv,
           Impact \/ Trail \/ Classify \/ KnownEnds
    PROVE  RetrievalInv'
<1>. USE DEF RetrievalInv
<1>1. OnlyWalks
  BY DEF Impact, Trail, Classify, KnownEnds
<1>2. PackInv' /\ graph' \in Graphs /\ ask' \in Questions /\ UNCHANGED <<ask, graph, pack>>
  <2>1. pack.status = "none"
    BY DEF Impact, Trail, Classify, KnownEnds, Asked, Answering
  <2>. QED
    BY <1>1, <2>1, PackWaits DEF OnlyWalks, packetVars
<1>3. graph.nodes \subseteq Nodes
  BY DEF GraphAssumption
<1>4. ASSUME UNCHANGED walk
      PROVE  WalkInv'
  BY <1>2, <1>4, WalkStays
<1>5. CASE Impact
  <2>1. ask.maxDepth \in Nat /\ ask.node \in Nodes
    BY <1>3, <1>5 DEF Impact, Asked, QuestionsAssumption
  <2>. DEFINE w == Walk({ask.node}, ById)
  <2>2. walk' = [w EXCEPT !.reverse = TRUE, !.stop = TRUE, !.maxDepth = ask.maxDepth,
                          !.maxItems = ask.max]
    BY <1>5 DEF Impact
  <2>3. DOMAIN w = WalkFields
    BY DEF Walk, WalkFields
  <2>. HIDE DEF w
  <2>4. /\ DOMAIN walk' = DOMAIN w /\ walk'.maxDepth = ask.maxDepth
        /\ walk'.status = w.status /\ walk'.seeds = w.seeds /\ walk'.seen = w.seen
        /\ walk'.found = w.found /\ walk'.at = w.at /\ walk'.pending = w.pending
        /\ walk'.truncated = w.truncated /\ walk'.queue = w.queue
    BY <2>2, <2>3 DEF WalkFields
  <2>5. WalkInv'
    BY <2>1, <2>4, WalkBegins, Ranks DEF w
  <2>6. Answering'
    BY <1>2, <1>5 DEF Impact, Answering, AnswerFields
  <2>. QED
    BY <1>2, <2>5, <2>6
<1>6. CASE Trail
  <2>1. CASE ask.node = ask.target
    BY <1>2, <1>4, <1>6, <2>1, ReplyTyped DEF Trail, Answering
  <2>2. CASE ask.node # ask.target
    <3>1. ask.maxDepth \in Nat /\ ask.node \in Nodes
      BY <1>3, <1>6 DEF Trail, Asked, QuestionsAssumption
    <3>. DEFINE w == Walk({ask.node}, ById)
    <3>2. walk' = [w EXCEPT !.byTarget = TRUE, !.goal = ask.target, !.maxDepth = ask.maxDepth,
                            !.maxItems = ask.max]
      BY <1>6, <2>2 DEF Trail
    <3>3. DOMAIN w = WalkFields
      BY DEF Walk, WalkFields
    <3>. HIDE DEF w
    <3>4. /\ DOMAIN walk' = DOMAIN w /\ walk'.maxDepth = ask.maxDepth
          /\ walk'.status = w.status /\ walk'.seeds = w.seeds /\ walk'.seen = w.seen
          /\ walk'.found = w.found /\ walk'.at = w.at /\ walk'.pending = w.pending
          /\ walk'.truncated = w.truncated /\ walk'.queue = w.queue
      BY <3>2, <3>3 DEF WalkFields
    <3>5. WalkInv'
      BY <3>1, <3>4, WalkBegins, Ranks DEF w
    <3>6. Answering'
      BY <1>2, <1>6, <2>2 DEF Trail, Answering, AnswerFields
    <3>. QED
      BY <1>2, <3>5, <3>6
  <2>. QED
    BY <2>1, <2>2
<1>7. CASE Classify
  <2>1. ask.cmd \in {"reachability", "zombies"} /\ ask.maxDepth \in Nat
    BY <1>7 DEF Classify, Answering, QuestionsAssumption
  <2>2. CASE walk' # KnownWalk
    BY <1>2, <1>4, <1>7, <2>1, <2>2, ConcludeTyped DEF Classify
  <2>3. CASE walk' = KnownWalk
    <3>. DEFINE seeds == {n \in graph.nodes : graph.node[n].role = "Entrypoint"}
                w == Walk(seeds, ById)
    <3>1. \A n \in seeds : ById[n] \in Int /\ ById[n] <= 0
      BY <1>3, Ranks
    <3>2. walk' = [w EXCEPT !.goal = answer.at, !.maxDepth = ask.maxDepth]
      BY <2>3 DEF KnownWalk
    <3>. HIDE DEF seeds
    <3>3. DOMAIN w = WalkFields
      BY DEF Walk, WalkFields
    <3>. HIDE DEF w
    <3>4. /\ DOMAIN walk' = DOMAIN w /\ walk'.maxDepth = ask.maxDepth
          /\ walk'.status = w.status /\ walk'.seeds = w.seeds /\ walk'.seen = w.seen
          /\ walk'.found = w.found /\ walk'.at = w.at /\ walk'.pending = w.pending
          /\ walk'.truncated = w.truncated /\ walk'.queue = w.queue
      BY <3>2, <3>3 DEF WalkFields
    <3>5. WalkInv'
      BY <2>1, <3>1, <3>4, WalkBegins DEF w
    <3>6. Answering'
      <4>1. \/ \E outcome : Conclude(outcome, FALSE)
            \/ answer' = [answer EXCEPT !.status = "known"]
        BY <1>7 DEF Classify
      <4>2. CASE answer' = [answer EXCEPT !.status = "known"]
        BY <1>2, <2>1, <4>2 DEF Answering, AnswerFields
      <4>. QED
        BY <1>2, <2>1, <4>1, <4>2, ConcludeTyped
    <3>. QED
      BY <1>2, <3>5, <3>6
  <2>. QED
    BY <2>2, <2>3
<1>8. CASE KnownEnds
  <2>1. ask.cmd \in {"reachability", "zombies"} /\ ask.maxDepth \in Nat
    BY <1>8 DEF KnownEnds, Answering, QuestionsAssumption
  <2>2. CASE walk' # TaintWalk
    BY <1>2, <1>4, <1>8, <2>1, <2>2, ConcludeTyped DEF KnownEnds
  <2>3. CASE walk' = TaintWalk
    <3>. DEFINE ends(n) == {2 * e.id : e \in {e \in Uncertain : e.source = n}}
                           \cup {2 * e.id + 1 : e \in {e \in Uncertain : e.target = n}}
                rank == [n \in Tainted |-> Min(ends(n)) - (2 * M + 1)]
                w == Walk(Tainted, rank)
    <3>1. \A n \in Tainted : rank[n] \in Int /\ rank[n] <= 0
      <4>. TAKE n \in Tainted
      <4>1. Min(ends(n)) \in Nat /\ Min(ends(n)) <= 2 * M + 1
        BY TaintedRanks
      <4>2. M \in Nat
        BY DEF GraphAssumption
      <4>3. rank[n] = Min(ends(n)) - (2 * M + 1)
        OBVIOUS
      <4>. HIDE DEF ends, rank
      <4>. QED
        BY <4>1, <4>2, <4>3
    <3>2. walk' = [w EXCEPT !.goal = answer.at, !.late = TRUE, !.maxDepth = ask.maxDepth]
      BY <2>3, Zenon DEF TaintWalk
    <3>. HIDE DEF rank
    <3>3. DOMAIN w = WalkFields
      BY DEF Walk, WalkFields
    <3>. HIDE DEF w
    <3>4. /\ DOMAIN walk' = DOMAIN w /\ walk'.maxDepth = ask.maxDepth
          /\ walk'.status = w.status /\ walk'.seeds = w.seeds /\ walk'.seen = w.seen
          /\ walk'.found = w.found /\ walk'.at = w.at /\ walk'.pending = w.pending
          /\ walk'.truncated = w.truncated /\ walk'.queue = w.queue
      BY <3>2, <3>3 DEF WalkFields
    <3>5. WalkInv'
      BY <2>1, <3>1, <3>4, WalkBegins DEF w
    <3>6. Answering'
      <4>1. \/ \E outcome, cut : Conclude(outcome, cut)
            \/ answer' = [answer EXCEPT !.status = "tainted"]
        BY <1>8 DEF KnownEnds
      <4>2. CASE answer' = [answer EXCEPT !.status = "tainted"]
        BY <1>2, <2>1, <4>2 DEF Answering, AnswerFields
      <4>. QED
        BY <1>2, <2>1, <4>1, <4>2, ConcludeTyped
    <3>. QED
      BY <1>2, <3>5, <3>6
  <2>. QED
    BY <2>2, <2>3
<1>. QED
  BY <1>5, <1>6, <1>7, <1>8

\* Every evidence that a request can bring has a length.
LEMMA RequestTyped ==
    ASSUME QuestionsAssumption, RetrievalInv, ask.cmd \in {"packet", "cli_packet", "doctor"}
    PROVE  /\ {Request.maxItems, Request.maxBytes, Request.spec.maxItems, Request.spec.maxBytes,
               Request.maxDepth, Request.maxNodes} \subseteq Nat
           /\ Request.ceiling \in Nat \cup {NoCeiling}
           /\ \A e \in Request.evidence : e.bytes \in Nat
<1>1. ask \in Questions /\ graph \in Graphs
  BY DEF RetrievalInv
<1>2. CASE ask.cmd = "packet"
  BY <1>1, <1>2 DEF Request, QuestionsAssumption
<1>3. CASE ask.cmd # "packet"
  <2>1. Request.evidence = AllEvidence /\ Request.ceiling = NoCeiling
    BY <1>3 DEF Request
  <2>2. \A e \in AllEvidence : e.bytes \in Nat
    BY <1>1 DEF AllEvidence, QuestionsAssumption
  <2>3. {Request.maxItems, Request.maxBytes, Request.spec.maxItems, Request.spec.maxBytes,
         Request.maxDepth, Request.maxNodes} \subseteq Nat
    BY <1>3 DEF Request, CliView, QuestionsAssumption
  <2>. QED
    BY <2>1, <2>2, <2>3
<1>. QED
  BY <1>2, <1>3

LEMMA PacketBegins ==
    ASSUME GraphAssumption, QuestionsAssumption, RetrievalInv, AskPacket
    PROVE  RetrievalInv'
<1>. USE DEF RetrievalInv
<1>1. UNCHANGED <<ask, graph>> /\ ask.cmd \in {"packet", "cli_packet", "doctor"}
  BY DEF AskPacket, BeginPacket
<1>2. CASE Reply("refused", <<>>, FALSE) /\ UNCHANGED <<graph, walk, order, pack>>
  BY <1>1, <1>2, WalkStays, PackStays, ReplyTyped DEF packetVars, Answering
<1>3. CASE ~(Reply("refused", <<>>, FALSE) /\ UNCHANGED <<graph, walk, order, pack>>)
  <2>. DEFINE view == Compiled(Request.spec)
              o == [seeds |-> ToSet(view.items), evidence |-> Request.evidence,
                    maxItems |-> Request.maxItems, maxBytes |-> Request.maxBytes,
                    ceiling |-> Request.ceiling, maxDepth |-> Request.maxDepth,
                    maxNodes |-> Request.maxNodes, viewItems |-> view.maxItems,
                    viewBytes |-> view.maxBytes, viewTruncated |-> view.truncated]
  <2>1. BeginPacket(o) /\ answer' = [answer EXCEPT !.status = "packet"]
    BY <1>3 DEF AskPacket
  <2>2. view.maxItems = Request.spec.maxItems /\ view.maxBytes = Request.spec.maxBytes
    BY DEF Compiled, compile
  <2>3. /\ {o.maxItems, o.maxBytes, o.viewItems, o.viewBytes, o.maxDepth, o.maxNodes} \subseteq Nat
        /\ o.ceiling \in Nat \cup {NoCeiling}
        /\ \A e \in o.evidence : e.bytes \in Nat
    BY <1>1, <2>2, RequestTyped
  <2>. HIDE DEF o
  <2>4. order' = o /\ Ordered'
    BY <2>1, <2>3 DEF BeginPacket, Ordered
  <2>5. PackInv'
    <3>1. /\ DOMAIN pack' = PackFields /\ pack'.status \in {"closing", "failed"}
          /\ pack'.taken = 0 /\ pack'.raw = 0 /\ pack'.selected = {} /\ pack'.omitted = {}
          /\ pack'.status = "closing" => walk' = Closure(o)
      BY <2>1 DEF BeginPacket, NoPack, PackFields
    <3>2. Closure(o).maxItems = o.maxNodes /\ Closure(o).found = 0
      BY DEF Closure, Walk
    <3>3. pack'.status = "closing" => Admitting'
      BY <2>3, <2>4, <3>1, <3>2 DEF Admitting
    <3>. QED
      BY <2>4, <3>1, <3>3 DEF PackInv
  <2>6. WalkInv'
    <3>1. CASE UNCHANGED walk
      BY <1>1, <3>1, WalkStays
    <3>2. CASE o.seeds \subseteq graph.nodes /\ walk' = Closure(o)
      <4>. DEFINE w == Walk(o.seeds, ById)
      <4>1. \A n \in o.seeds : ById[n] \in Int /\ ById[n] <= 0
        BY <3>2, Ranks DEF GraphAssumption
      <4>2. walk' = [w EXCEPT !.context = TRUE, !.maxDepth = o.maxDepth, !.maxItems = o.maxNodes]
        BY <3>2 DEF Closure
      <4>3. DOMAIN w = WalkFields
        BY DEF Walk, WalkFields
      <4>. HIDE DEF w
      <4>4. /\ DOMAIN walk' = DOMAIN w /\ walk'.maxDepth = o.maxDepth
            /\ walk'.status = w.status /\ walk'.seeds = w.seeds /\ walk'.seen = w.seen
            /\ walk'.found = w.found /\ walk'.at = w.at /\ walk'.pending = w.pending
            /\ walk'.truncated = w.truncated /\ walk'.queue = w.queue
        BY <4>2, <4>3 DEF WalkFields
      <4>. QED
        BY <2>3, <4>1, <4>4, WalkBegins DEF w
    <3>. QED
      BY <2>1, <3>1, <3>2 DEF BeginPacket
  <2>7. Answering'
    BY <1>1, <2>1 DEF Answering, AnswerFields
  <2>. QED
    BY <1>1, <2>5, <2>6, <2>7
<1>. QED
  BY <1>2, <1>3

LEMMA RetrievalStarts == RetrievalInit => RetrievalInv
<1>. SUFFICES ASSUME RetrievalInit PROVE RetrievalInv
  OBVIOUS
<1>1. graph \in Graphs /\ ask \in Questions
  BY QuestionsAssumption DEF RetrievalInit, QuestionsAssumption
<1>2. WalkInv
  <2>1. walk = NoWalk
    BY DEF RetrievalInit
  <2>2. /\ DOMAIN walk = WalkFields /\ walk.status = "none"
        /\ walk.seeds = {} /\ walk.seen = {} /\ walk.found = 0 /\ walk.maxDepth = N
        /\ walk.at = [node |-> Nowhere, depth |-> 0]
        /\ walk.pending = {} /\ walk.truncated = FALSE /\ walk.queue = {}
    BY <2>1 DEF NoWalk, Walk, WalkFields
  <2>3. \E rank : /\ walk.queue = {[node |-> s, depth |-> 0, turn |-> rank[s]] : s \in walk.seeds}
                  /\ \A s \in walk.seeds : rank[s] \in Int /\ rank[s] <= 0
    BY <2>2
  <2>4. Starts(walk)
    BY <2>2, <2>3, GraphAssumption DEF Starts, GraphAssumption
  <2>. QED
    BY <2>4, WalkStarts
<1>3. PackInv
  BY DEF RetrievalInit, NoPack, PackInv, PackFields
<1>4. Answering
  BY DEF RetrievalInit, NoPack, Answering, AnswerFields
<1>. QED
  BY <1>1, <1>2, <1>3, <1>4 DEF RetrievalInv

LEMMA RetrievalSteps == RetrievalInv /\ [RetrievalNext]_vars => RetrievalInv'
<1>. SUFFICES ASSUME RetrievalInv, [RetrievalNext]_vars PROVE RetrievalInv'
  OBVIOUS
<1>. USE DEF RetrievalInv
<1>1. CASE TraversalNext /\ UNCHANGED <<order, pack, ask, answer>>
  <2>1. graph' = graph
    BY <1>1 DEF TraversalNext, Pop, Relax, Exhaust
  <2>. QED
    BY <1>1, <2>1, WalkSteps, PackWalks DEF packetVars, Answering
<1>2. CASE PacketNext /\ UNCHANGED <<ask, answer>>
  <2>1. graph' = graph
    BY <1>2 DEF PacketNext, Index, SelectNext, Deliver
  <2>. QED
    BY <1>2, <2>1, PackSteps DEF Answering, PacketNext, Index, SelectNext, Deliver
<1>3. CASE Find \/ Missing \/ Consumers \/ ImpactEnds \/ TrailEnds \/ Classification \/ TaintEnds
              \/ Query \/ PacketEnds
  BY <1>3, AnswersStay
<1>4. CASE Impact \/ Trail \/ Classify \/ KnownEnds
  BY <1>4, WalksBegin, GraphAssumption, QuestionsAssumption
<1>5. CASE AskPacket
  BY <1>5, PacketBegins, GraphAssumption, QuestionsAssumption
<1>6. CASE UNCHANGED vars
  BY <1>6, WalkStays, PackStays DEF vars, packetVars, Answering
<1>. QED
  BY <1>1, <1>2, <1>3, <1>4, <1>5, <1>6 DEF RetrievalNext

-----------------------------------------------------------------------------
(* Theorems. *)

\* The inductive invariant.
THEOREM RetrievalInvHolds == RetrievalSpec => []RetrievalInv
BY RetrievalStarts, RetrievalSteps, PTL DEF RetrievalSpec

\* No walk of graph/query.rs or of a packet's closure sees a node that is not
\* connected to its seeds by the edges it follows.
THEOREM WalksAlwaysSound == RetrievalSpec => []WalkSound
<1>1. RetrievalInv => WalkSound
  BY DEF RetrievalInv, WalkInv
<1>. QED
  BY <1>1, RetrievalInvHolds, PTL

\* A walk that ended untruncated has seen all that its seeds reach, and one
\* that says it was truncated has left something out.
THEOREM TruncationAlwaysExact == RetrievalSpec => []TruncationExact
<1>1. RetrievalInv => TruncationExact
  BY WalkExact DEF RetrievalInv
<1>. QED
  BY <1>1, RetrievalInvHolds, PTL

\* A delivered packet is within the limits of the caller, the bytes of the view
\* and the items of the view with one more for each dependency the closure
\* admitted, of which there are at most as many as it allows
\* (PacketAssembler::assemble, effective_limits).
THEOREM PacketsWithinLimits == RetrievalSpec => []PacketWithinLimits
<1>1. RetrievalInv => PacketWithinLimits
  BY PackExact DEF RetrievalInv
<1>. QED
  BY <1>1, RetrievalInvHolds, PTL

\* A delivered packet holds all required evidence, accounts for the rest, and
\* has no room for anything it left out.
THEOREM OmissionsJustified == RetrievalSpec => []OmissionJustified
<1>1. RetrievalInv => OmissionJustified
  BY PackExact DEF RetrievalInv
<1>. QED
  BY <1>1, RetrievalInvHolds, PTL

-----------------------------------------------------------------------------
(* The walks of reachability, zombies and trail: what they find and where. *)

Deeper(w, e) == w.depths[e.target] = w.depths[e.source] + 1

\* They go forward along all Known edges and stop at no bound.
Plain ==
    /\ walk.reverse = FALSE /\ walk.context = FALSE /\ walk.stop = FALSE
    /\ walk.late \in BOOLEAN
    /\ walk.status \in {"walking", "found", "exhausted"}
    /\ walk.seen \subseteq graph.nodes
    /\ walk.goal \in graph.nodes

\* The node looked for is not passed over: it is what ended the walk, or its
\* turn in the queue of a walk that tests late is to come.
Looking ==
    /\ walk.status = "found" => walk.goal \in walk.seen
    /\ walk.goal \in walk.seen =>
          \/ walk.status = "found"
          \/ walk.late /\ \E q \in walk.queue : q.node = walk.goal
    /\ walk.status = "found" /\ ~walk.late =>
          ~walk.truncated /\ walk.depths[walk.goal] = walk.at.depth + 1

\* No walk is deeper than the number of its discoveries, and no number of
\* discoveries passes that of the nodes: bounds as large as that never cut.
Counted ==
    /\ walk.found <= Cardinality(walk.seen)
    /\ walk.at.depth <= walk.found
    /\ \A q \in walk.queue : q.depth <= walk.found
    /\ walk.maxDepth >= N /\ walk.maxItems = N => ~walk.truncated

\* The trace holds an edge to every node found, from a node one step nearer.
Traced ==
    /\ walk.depths \in [walk.seen -> Nat]
    /\ \A s \in walk.seeds : walk.depths[s] = 0
    /\ \A q \in walk.queue : walk.depths[q.node] = q.depth
    /\ walk.at.node \in walk.seen => walk.depths[walk.at.node] = walk.at.depth
    /\ \A n \in walk.seen : walk.depths[n] <= walk.at.depth + 1
    /\ walk.trace \in Seq(graph.edges)
    /\ \A n \in walk.seen \ walk.seeds : \E e \in ToSet(walk.trace) : e.target = n
    /\ \A e \in ToSet(walk.trace) :
          /\ e.certainty = "Known" /\ {e.source, e.target} \subseteq walk.seen
          /\ Deeper(walk, e)

\* Past an edge that is neither in hand nor to come, nothing is farther than
\* one step.
Relaxed ==
    ~walk.truncated =>
        \A e \in graph.edges : e.certainty = "Known" /\ e.source \in walk.seen =>
            \/ e \in walk.pending
            \/ \E q \in walk.queue : q.node = e.source
            \/ e.target \in walk.seen /\ walk.depths[e.target] <= walk.depths[e.source] + 1

\* Such a walk, with all that its steps keep.
SearchInv == Plain /\ Looking /\ Counted /\ Traced /\ Relaxed

-----------------------------------------------------------------------------
(* The questions that such a walk answers. *)

Entrypoints == {n \in graph.nodes : graph.node[n].role = "Entrypoint"}

\* No role and no coverage speak for the node in question.
InQuestion ==
    /\ answer.at \in graph.nodes
    /\ graph.node[answer.at].role \notin {"Entrypoint", "Test", "Generated"}
    /\ <<"coverage", Partial>> \notin graph.node[answer.at].facts

\* Known edges do not lead from an entry point to the node in question.
NotKnown ==
    \E X \in SUBSET graph.nodes : answer.at \notin X /\ Entrypoints \subseteq X /\ KnownClosed(X)

\* What the walk in hand is for: the question that started it, its start and
\* its goal, by the state of the answer.
Searching ==
    /\ answer.status = "impact" => ask.cmd = "impact"
    /\ answer.status = "packet" => ask.cmd \in {"packet", "cli_packet", "doctor"}
    /\ answer.status = "trail" =>
          /\ ask.cmd = "trail" /\ SearchInv
          /\ ~walk.late /\ walk.goal = ask.target /\ walk.seeds = {ask.node}
    /\ answer.status = "classify" => answer.at \in graph.nodes
    /\ answer.status \in {"known", "tainted"} =>
          /\ InQuestion /\ SearchInv
          /\ walk.goal = answer.at /\ walk.maxDepth = ask.maxDepth /\ walk.maxItems = N
    /\ answer.status = "known" => ~walk.late /\ walk.seeds = Entrypoints
    /\ answer.status = "tainted" => walk.late /\ walk.seeds = Tainted /\ NotKnown

\* The nodes that a list of zombies is to name.
Zombies == {n \in graph.nodes : Abandoned(n)}

\* The zombies before the node in question are listed, unless depth cuts walks.
Listing ==
    ask.cmd = "zombies" =>
        /\ answer.items \in Seq(Zombies)
        /\ answer.status = "asked" => answer.items = <<>>
        /\ ask.maxDepth >= N =>
              /\ answer.status \in {"classify", "known", "tainted"} =>
                    \A n \in Zombies : n < answer.at => n \in ToSet(answer.items)
              /\ answer.status = "done" /\ ~answer.truncated => Zombies \subseteq ToSet(answer.items)

\* What every step keeps of the questions and their answers.
AnswersInv == RetrievalInv /\ Searching /\ Listing /\ TrailShortest

-----------------------------------------------------------------------------
(* Steps of such a walk. *)

\* What a graph is.
LEMMA GraphShape ==
    ASSUME GraphAssumption, graph \in Graphs
    PROVE  /\ N \in Nat /\ graph.nodes \subseteq Nodes
           /\ \A e \in graph.edges :
                 e.source \in graph.nodes /\ (e.certainty = "Known" => e.target \in graph.nodes)
BY DEF GraphAssumption, Builds

\* What an appended sequence holds.
LEMMA AppendIn ==
    ASSUME NEW S, NEW s \in Seq(S), NEW x \in S
    PROVE  Append(s, x) \in Seq(S) /\ ToSet(Append(s, x)) = ToSet(s) \cup {x}
<1>1. /\ DOMAIN s = 1 .. Len(s) /\ Len(s) \in Nat
      /\ DOMAIN Append(s, x) = 1 .. Len(s) + 1
      /\ Append(s, x)[Len(s) + 1] = x /\ \A i \in 1 .. Len(s) : Append(s, x)[i] = s[i]
  OBVIOUS
<1>2. 1 .. Len(s) + 1 = (1 .. Len(s)) \cup {Len(s) + 1}
  BY <1>1
<1>3. ToSet(Append(s, x)) = ToSet(s) \cup {x}
  BY <1>1, <1>2 DEF ToSet
<1>. QED
  BY <1>3

\* What was seen is finite, and not all of the nodes while there is another.
LEMMA SeenFinite ==
    ASSUME GraphAssumption, graph \in Graphs, NEW S \in SUBSET graph.nodes
    PROVE  /\ IsFiniteSet(S) /\ Cardinality(S) \in Nat /\ Cardinality(S) <= N
           /\ \A n \in graph.nodes \ S : Cardinality(S) < N
<1>1. N \in Nat /\ S \in SUBSET Nodes /\ graph.nodes \subseteq Nodes
  BY GraphShape
<1>2. IsFiniteSet(Nodes) /\ Cardinality(Nodes) = N
  BY <1>1, FS_Interval DEF Nodes
<1>3. IsFiniteSet(S) /\ Cardinality(S) <= N /\ (Cardinality(S) = N => S = Nodes)
  BY <1>1, <1>2, FS_Subset
<1>4. Cardinality(S) \in Nat
  BY <1>3, FS_CardinalityType
<1>. QED
  BY <1>1, <1>3, <1>4

\* On a walk without a context that goes forward, From and Onto are the ends
\* of an edge, and it follows all Known edges.
LEMMA PlainEdges ==
    ASSUME Plain
    PROVE  \A e : From(walk, e) = e.source /\ Onto(walk, e) = e.target
                  /\ (Follows(walk, e) <=> e.certainty = "Known")
BY DEF Plain, From, Onto, Follows

\* Each step of such a walk keeps what is said of it.
LEMMA SearchPops ==
    ASSUME GraphAssumption, graph \in Graphs, WalkInv, SearchInv, NEW q \in walk.queue, Pop(q)
    PROVE  SearchInv'
<1>. USE DEF SearchInv
<1>1. /\ walk'.queue = walk.queue \ {q}
      /\ walk'.at = [node |-> q.node, depth |-> q.depth]
      /\ walk'.pending = {e \in graph.edges : From(walk, e) = q.node}
      /\ walk'.status = IF walk.late /\ q.node = walk.goal THEN "found" ELSE "walking"
      /\ walk'.seeds = walk.seeds /\ walk'.seen = walk.seen /\ walk'.found = walk.found
      /\ walk'.truncated = walk.truncated /\ walk'.context = walk.context
      /\ walk'.reverse = walk.reverse /\ walk'.maxDepth = walk.maxDepth
      /\ walk'.maxItems = walk.maxItems /\ walk'.stop = walk.stop /\ walk'.late = walk.late
      /\ walk'.goal = walk.goal /\ walk'.depths = walk.depths /\ walk'.trace = walk.trace
      /\ walk.pending = {} /\ walk.status = "walking"
      /\ graph' = graph
  BY DEF Pop, WalkInv, WalkFields
<1>2. walk'.at.node = q.node /\ walk'.at.depth = q.depth
  BY <1>1
<1>3. q.node \in walk.seen /\ q.depth \in Nat /\ walk.at.depth <= q.depth /\ walk.at.depth \in Nat
  BY DEF WalkInv, Queued
<1>4. Plain'
  BY <1>1 DEF Plain
<1>5. Looking'
  BY <1>1, <1>3 DEF Looking, Plain
<1>6. Counted'
  BY <1>1, <1>2, <1>3 DEF Counted
<1>7. Traced'
  <2>1. \A n \in walk.seen : walk.depths[n] <= q.depth + 1
    BY <1>3 DEF Traced
  <2>. QED
    BY <1>1, <1>2, <1>3, <2>1 DEF Traced, Deeper
<1>8. Relaxed'
  BY <1>1, PlainEdges DEF Relaxed
<1>. QED
  BY <1>4, <1>5, <1>6, <1>7, <1>8

LEMMA SearchSkips ==
    ASSUME GraphAssumption, graph \in Graphs, WalkInv, SearchInv,
           NEW e \in walk.pending, walk.status = "walking",
           ~Follows(walk, e) \/ Onto(walk, e) \in walk.seen,
           walk' = [walk EXCEPT !.pending = @ \ {e}], UNCHANGED graph
    PROVE  SearchInv'
<1>. USE DEF SearchInv
<1>1. /\ walk'.pending = walk.pending \ {e}
      /\ walk'.status = walk.status /\ walk'.queue = walk.queue /\ walk'.at = walk.at
      /\ walk'.seeds = walk.seeds /\ walk'.seen = walk.seen /\ walk'.found = walk.found
      /\ walk'.truncated = walk.truncated /\ walk'.context = walk.context
      /\ walk'.reverse = walk.reverse /\ walk'.maxDepth = walk.maxDepth
      /\ walk'.maxItems = walk.maxItems /\ walk'.stop = walk.stop /\ walk'.late = walk.late
      /\ walk'.goal = walk.goal /\ walk'.depths = walk.depths /\ walk'.trace = walk.trace
      /\ graph' = graph
  BY DEF WalkInv, WalkFields
<1>2. e \in graph.edges /\ e.source = walk.at.node /\ walk.at.node \in walk.seen
  BY PlainEdges DEF WalkInv, InHand
<1>3. e.certainty = "Known" => e.target \in walk.seen
  BY PlainEdges
<1>4. e.certainty = "Known" => walk.depths[e.target] <= walk.depths[e.source] + 1
  BY <1>2, <1>3 DEF Traced
<1>5. Plain' /\ Looking'
  BY <1>1 DEF Plain, Looking
<1>6. Counted' /\ Traced'
  BY <1>1 DEF Counted, Traced, Deeper
<1>7. Relaxed'
  BY <1>1, <1>3, <1>4 DEF Relaxed
<1>. QED
  BY <1>5, <1>6, <1>7

LEMMA SearchCutsOff ==
    ASSUME GraphAssumption, graph \in Graphs, WalkInv, SearchInv,
           NEW e \in walk.pending, walk.status = "walking", AtBound,
           Follows(walk, e), Onto(walk, e) \notin walk.seen, CutOff(e), UNCHANGED graph
    PROVE  SearchInv'
<1>. USE DEF SearchInv
<1>1. /\ walk'.truncated = TRUE
      /\ walk'.status = walk.status /\ walk'.queue = walk.queue /\ walk'.at = walk.at
      /\ walk'.seeds = walk.seeds /\ walk'.seen = walk.seen /\ walk'.found = walk.found
      /\ walk'.context = walk.context
      /\ walk'.reverse = walk.reverse /\ walk'.maxDepth = walk.maxDepth
      /\ walk'.maxItems = walk.maxItems /\ walk'.stop = walk.stop /\ walk'.late = walk.late
      /\ walk'.goal = walk.goal /\ walk'.depths = walk.depths /\ walk'.trace = walk.trace
      /\ graph' = graph
  BY DEF WalkInv, WalkFields, CutOff, Plain
<1>2. e.target \in graph.nodes \ walk.seen
  BY GraphShape, PlainEdges DEF WalkInv, InHand
<1>3. ~(walk.maxDepth >= N /\ walk.maxItems = N)
  <2>1. walk.seen \in SUBSET graph.nodes
    BY DEF Plain
  <2>2. Cardinality(walk.seen) < N /\ Cardinality(walk.seen) \in Nat
    BY <1>2, <2>1, SeenFinite
  <2>3. walk.found \in Nat /\ walk.at.depth \in Nat /\ walk.maxDepth \in Nat /\ N \in Nat
    BY GraphShape DEF WalkInv
  <2>. QED
    BY <2>2, <2>3 DEF AtBound, Counted
<1>4. Plain' /\ Looking' /\ Relaxed'
  BY <1>1 DEF Plain, Looking, Relaxed
<1>5. Counted' /\ Traced'
  BY <1>1, <1>3 DEF Counted, Traced, Deeper
<1>. QED
  BY <1>4, <1>5

LEMMA SearchDiscovers ==
    ASSUME GraphAssumption, graph \in Graphs, WalkInv, SearchInv,
           NEW e \in walk.pending, walk.status = "walking", ~AtBound,
           Follows(walk, e), Onto(walk, e) \notin walk.seen, Discover(e), UNCHANGED graph
    PROVE  SearchInv'
<1>. USE DEF SearchInv
<1>. DEFINE n == e.target
            d == walk.at.depth + 1
            new == [node |-> n, depth |-> d, turn |-> 1 + walk.found]
<1>1. /\ walk'.pending = walk.pending \ {e}
      /\ walk'.status = IF ~walk.late /\ n = walk.goal THEN "found" ELSE "walking"
      /\ walk'.queue = walk.queue \cup {new} /\ walk'.at = walk.at
      /\ walk'.seeds = walk.seeds /\ walk'.seen = walk.seen \cup {n}
      /\ walk'.found = walk.found + 1
      /\ walk'.truncated = walk.truncated /\ walk'.context = walk.context
      /\ walk'.reverse = walk.reverse /\ walk'.maxDepth = walk.maxDepth
      /\ walk'.maxItems = walk.maxItems /\ walk'.stop = walk.stop /\ walk'.late = walk.late
      /\ walk'.goal = walk.goal /\ walk'.trace = Append(walk.trace, e)
      /\ walk'.depths = [m \in walk.seen \cup {n} |-> IF m = n THEN d ELSE walk.depths[m]]
      /\ graph' = graph
  BY PlainEdges DEF Discover, WalkInv, WalkFields
<1>2. /\ e \in graph.edges /\ e.source = walk.at.node /\ walk.at.node \in walk.seen
      /\ e.certainty = "Known" /\ n \notin walk.seen /\ n \in graph.nodes
  BY GraphShape, PlainEdges DEF WalkInv, InHand
<1>3. ~walk.truncated
  BY DEF WalkInv, Frontier
<1>4. walk.at.depth \in Nat /\ walk.found \in Nat
  BY DEF WalkInv
<1>5. walk'.depths[n] = d /\ \A m \in walk.seen : walk'.depths[m] = walk.depths[m]
  BY <1>1, <1>2
<1>6. new.node = n /\ new.depth = d /\ new \in walk'.queue
  BY <1>1
<1>. HIDE DEF new, n
<1>7. Plain'
  BY <1>1, <1>2 DEF Plain
<1>8. Looking'
  BY <1>1, <1>3, <1>5, <1>6 DEF Looking, Plain
<1>9. Counted'
  <2>1. walk.seen \in SUBSET graph.nodes
    BY DEF Plain
  <2>2. Cardinality(walk'.seen) = Cardinality(walk.seen) + 1 /\ Cardinality(walk.seen) \in Nat
    <3>1. IsFiniteSet(walk.seen) /\ Cardinality(walk.seen) \in Nat
      BY <2>1, SeenFinite
    <3>2. Cardinality(walk.seen \cup {n}) = Cardinality(walk.seen) + 1
      BY <1>2, <3>1, FS_AddElement
    <3>. QED
      BY <1>1, <3>1, <3>2
  <2>3. \A q \in walk.queue : q.depth \in Nat
    BY DEF WalkInv, Queued
  <2>. QED
    BY <1>1, <1>3, <1>4, <1>6, <2>2, <2>3 DEF Counted
<1>10. Traced'
  <2>1. walk'.depths \in [walk'.seen -> Nat]
    BY <1>1, <1>4 DEF Traced
  <2>2. \A s \in walk'.seeds : walk'.depths[s] = 0
    BY <1>1, <1>5 DEF Traced, WalkInv
  <2>3. \A q \in walk'.queue : walk'.depths[q.node] = q.depth
    <3>1. \A q \in walk.queue : q.node \in walk.seen /\ walk.depths[q.node] = q.depth
      BY DEF Traced, WalkInv, Queued
    <3>2. \A q \in walk.queue : walk'.depths[q.node] = q.depth
      BY <1>5, <3>1
    <3>. QED
      BY <1>1, <1>5, <1>6, <3>2
  <2>4. walk'.depths[walk'.at.node] = walk'.at.depth
    BY <1>1, <1>2, <1>5 DEF Traced
  <2>5. \A m \in walk'.seen : walk'.depths[m] <= walk'.at.depth + 1
    BY <1>1, <1>4, <1>5 DEF Traced
  <2>6. walk'.trace \in Seq(graph'.edges) /\ ToSet(walk'.trace) = ToSet(walk.trace) \cup {e}
    <3>1. walk.trace \in Seq(graph.edges)
      BY DEF Traced
    <3>. DEFINE old == walk.trace
                edges == graph.edges
    <3>2. old \in Seq(edges) /\ e \in edges
      BY <1>2, <3>1
    <3>3. walk'.trace = Append(old, e) /\ graph'.edges = edges
      BY <1>1
    <3>. HIDE DEF old, edges
    <3>4. Append(old, e) \in Seq(edges) /\ ToSet(Append(old, e)) = ToSet(old) \cup {e}
      BY <3>2, AppendIn
    <3>5. walk'.trace \in Seq(graph'.edges) /\ ToSet(walk'.trace) = ToSet(old) \cup {e}
      BY <3>3, <3>4
    <3>. QED
      BY <3>5 DEF old
  <2>7. \A m \in walk'.seen \ walk'.seeds : \E f \in ToSet(walk'.trace) : f.target = m
    BY <1>1, <2>6 DEF Traced, n
  <2>8. \A f \in ToSet(walk'.trace) :
           f.certainty = "Known" /\ {f.source, f.target} \subseteq walk'.seen /\ Deeper(walk', f)
    <3>1. \A f \in ToSet(walk.trace) :
             f.certainty = "Known" /\ {f.source, f.target} \subseteq walk.seen /\ Deeper(walk, f)
      BY DEF Traced
    <3>2. \A f \in ToSet(walk.trace) : Deeper(walk', f)
      BY <1>5, <3>1 DEF Deeper
    <3>3. Deeper(walk', e)
      BY <1>2, <1>5 DEF Deeper, Traced, n
    <3>. QED
      BY <1>1, <1>2, <2>6, <3>1, <3>2, <3>3 DEF n
  <2>. QED
    BY <2>1, <2>2, <2>3, <2>4, <2>5, <2>6, <2>7, <2>8 DEF Traced
<1>11. Relaxed'
  <2>. SUFFICES ASSUME NEW f \in graph.edges, f.certainty = "Known", f.source \in walk'.seen
                PROVE  \/ f \in walk'.pending
                       \/ \E q \in walk'.queue : q.node = f.source
                       \/ f.target \in walk'.seen /\ walk'.depths[f.target] <= walk'.depths[f.source] + 1
    BY <1>1 DEF Relaxed
  <2>1. CASE f.source = n
    BY <1>6, <2>1
  <2>2. CASE f = e
    <3>1. walk'.depths[f.target] = d /\ walk'.depths[f.source] = walk.at.depth
      BY <1>2, <1>5, <2>2 DEF Traced, n
    <3>. QED
      BY <1>1, <1>4, <2>2, <3>1 DEF n
  <2>3. CASE f.source # n /\ f # e
    <3>1. f.source \in walk.seen
      BY <1>1, <2>3
    <3>. QED
      BY <1>1, <1>3, <1>5, <2>3, <3>1 DEF Relaxed
  <2>. QED
    BY <2>1, <2>2, <2>3
<1>. QED
  BY <1>7, <1>8, <1>9, <1>10, <1>11

LEMMA SearchStays ==
    ASSUME SearchInv, UNCHANGED <<graph, walk>>
    PROVE  SearchInv'
BY DEF SearchInv, Plain, Looking, Counted, Traced, Relaxed, Deeper

LEMMA SearchSteps ==
    ASSUME GraphAssumption, graph \in Graphs, WalkInv, SearchInv, TraversalNext
    PROVE  /\ SearchInv'
           /\ walk'.goal = walk.goal /\ walk'.seeds = walk.seeds /\ walk'.late = walk.late
           /\ walk'.maxDepth = walk.maxDepth /\ walk'.maxItems = walk.maxItems
<1>1. CASE \E q \in walk.queue : Pop(q)
  <2>1. /\ walk'.goal = walk.goal /\ walk'.seeds = walk.seeds /\ walk'.late = walk.late
        /\ walk'.maxDepth = walk.maxDepth /\ walk'.maxItems = walk.maxItems
    BY <1>1 DEF Pop, WalkInv, WalkFields
  <2>. QED
    BY <1>1, <2>1, SearchPops
<1>2. CASE \E e \in walk.pending : Relax(e)
  <2>. PICK e \in walk.pending : Relax(e)
    BY <1>2
  <2>1. /\ walk'.goal = walk.goal /\ walk'.seeds = walk.seeds /\ walk'.late = walk.late
        /\ walk'.maxDepth = walk.maxDepth /\ walk'.maxItems = walk.maxItems
    <3>1. CASE walk' = [walk EXCEPT !.pending = @ \ {e}]
      BY <3>1 DEF WalkInv, WalkFields
    <3>2. CASE CutOff(e)
      BY <3>2 DEF CutOff, WalkInv, WalkFields
    <3>3. CASE Discover(e)
      BY <3>3 DEF Discover, WalkInv, WalkFields
    <3>. QED
      BY <3>1, <3>2, <3>3 DEF Relax
  <2>2. CASE ~Follows(walk, e) \/ Onto(walk, e) \in walk.seen
    BY <2>1, <2>2, SearchSkips DEF Relax
  <2>3. CASE Follows(walk, e) /\ Onto(walk, e) \notin walk.seen
    BY <2>1, <2>3, SearchCutsOff, SearchDiscovers DEF Relax
  <2>. QED
    BY <2>2, <2>3
<1>3. CASE Exhaust
  <2>1. /\ walk'.status = "exhausted" /\ walk.queue = {} /\ walk.pending = {}
        /\ walk.status = "walking"
        /\ walk'.pending = walk.pending /\ walk'.queue = walk.queue /\ walk'.at = walk.at
        /\ walk'.seeds = walk.seeds /\ walk'.seen = walk.seen /\ walk'.found = walk.found
        /\ walk'.truncated = walk.truncated /\ walk'.context = walk.context
        /\ walk'.reverse = walk.reverse /\ walk'.maxDepth = walk.maxDepth
        /\ walk'.maxItems = walk.maxItems /\ walk'.stop = walk.stop /\ walk'.late = walk.late
        /\ walk'.goal = walk.goal /\ walk'.depths = walk.depths /\ walk'.trace = walk.trace
        /\ graph' = graph
    BY <1>3 DEF Exhaust, WalkInv, WalkFields
  <2>2. Plain' /\ Looking' /\ Relaxed'
    BY <2>1 DEF SearchInv, Plain, Looking, Relaxed
  <2>3. Counted' /\ Traced'
    BY <2>1 DEF SearchInv, Counted, Traced, Deeper
  <2>. QED
    BY <2>1, <2>2, <2>3 DEF SearchInv
<1>. QED
  BY <1>1, <1>2, <1>3 DEF TraversalNext

-----------------------------------------------------------------------------
(* Distances. *)

\* The sets of Within are what its recursion says.
LEMMA WithinUnfolds ==
    ASSUME N \in Nat, NEW edges, NEW n
    PROVE  LET ball == Within(edges, n)
           IN  /\ ball[0] = {n}
               /\ \A k \in 1 .. N :
                     ball[k] = ball[k - 1] \cup {e.target : e \in {e \in edges :
                                 e.certainty = "Known" /\ e.source \in ball[k - 1]}}
<1>. DEFINE Next(B) == B \cup {e.target : e \in {e \in edges : e.certainty = "Known" /\ e.source \in B}}
            Good(m, f) == f = [k \in 0 .. m |-> IF k = 0 THEN {n} ELSE Next(f[k - 1])]
            S == {m \in Nat : \E f : Good(m, f)}
<1>1. 0 \in S
  <2>1. Good(0, [k \in 0 .. 0 |-> {n}])
    OBVIOUS
  <2>. QED
    BY <2>1
<1>2. ASSUME NEW m \in Nat, m \in S
      PROVE  m + 1 \in S
  <2>1. PICK f : Good(m, f)
    BY <1>2
  <2>. DEFINE g == [k \in 0 .. m + 1 |-> IF k = m + 1 THEN Next(f[m]) ELSE f[k]]
  <2>. HIDE DEF Next
  <2>2. \A k \in 0 .. m : f[k] = IF k = 0 THEN {n} ELSE Next(f[k - 1])
    BY <2>1
  <2>3. \A k \in 0 .. m + 1 : g[k] = IF k = 0 THEN {n} ELSE Next(g[k - 1])
    <3>. TAKE k \in 0 .. m + 1
    <3>1. CASE k = m + 1
      <4>1. k - 1 = m /\ g[k] = Next(f[m]) /\ g[m] = f[m] /\ k # 0
        BY <3>1
      <4>. QED
        BY <4>1
    <3>2. CASE k # m + 1
      <4>1. k \in 0 .. m /\ g[k] = f[k] /\ (k # 0 => k - 1 \in 0 .. m /\ g[k - 1] = f[k - 1])
        BY <3>2
      <4>. QED
        BY <2>2, <4>1
    <3>. QED
      BY <3>1, <3>2
  <2>4. Good(m + 1, g)
    BY <2>3
  <2>. HIDE DEF g, Good
  <2>. QED
    BY <2>4
<1>3. \E f : Good(N, f)
  <2>. HIDE DEF Good
  <2>1. Nat \subseteq S
    BY <1>1, <1>2, InductionSet
  <2>. QED
    BY <2>1
<1>4. Within(edges, n) = CHOOSE f : Good(N, f)
  BY Zenon DEF Within
<1>5. Good(N, Within(edges, n))
  <2>. HIDE DEF Good
  <2>. QED
    BY <1>3, <1>4
<1>. DEFINE ball == Within(edges, n)
<1>. HIDE DEF ball
<1>6. /\ ball[0] = {n}
      /\ \A k \in 1 .. N : ball[k] = Next(ball[k - 1])
  <2>. HIDE DEF Next
  <2>1. ball = [k \in 0 .. N |-> IF k = 0 THEN {n} ELSE Next(ball[k - 1])]
    BY <1>5 DEF ball
  <2>2. \A k \in 0 .. N : ball[k] = IF k = 0 THEN {n} ELSE Next(ball[k - 1])
    BY <2>1
  <2>. QED
    BY <2>2
<1>. QED
  BY <1>6 DEF ball

\* What is at most as far as the node in hand was seen, at its distance or
\* nearer, while nothing was left out.
LEMMA NearIsSeen ==
    ASSUME GraphAssumption, graph \in Graphs, WalkInv, SearchInv, ~walk.truncated,
           NEW s, walk.seeds = {s}, NEW k \in 0 .. N, k <= walk.at.depth,
           NEW n \in Within(graph.edges, s)[k]
    PROVE  n \in walk.seen /\ walk.depths[n] <= k
<1>. DEFINE ball == Within(graph.edges, s)
            S == {j \in Nat : j <= N /\ j <= walk.at.depth =>
                                 \A m \in ball[j] : m \in walk.seen /\ walk.depths[m] <= j}
<1>1. /\ N \in Nat /\ walk.at.depth \in Nat
      /\ ball[0] = {s}
      /\ \A j \in 1 .. N :
            ball[j] = ball[j - 1] \cup {e.target : e \in {e \in graph.edges :
                        e.certainty = "Known" /\ e.source \in ball[j - 1]}}
  BY GraphShape, WithinUnfolds DEF WalkInv
<1>. HIDE DEF ball
<1>2. 0 \in S
  BY <1>1 DEF WalkInv, SearchInv, Traced
<1>3. ASSUME NEW j \in Nat, j \in S
      PROVE  j + 1 \in S
  <2>. SUFFICES ASSUME j + 1 <= N, j + 1 <= walk.at.depth, NEW m \in ball[j + 1]
                PROVE  m \in walk.seen /\ walk.depths[m] <= j + 1
    OBVIOUS
  <2>1. \A l \in ball[j] : l \in walk.seen /\ walk.depths[l] <= j
    BY <1>1, <1>3
  <2>2. walk.depths \in [walk.seen -> Nat]
    BY DEF SearchInv, Traced
  <2>3. CASE m \in ball[j]
    BY <2>1, <2>2, <2>3
  <2>4. CASE m \notin ball[j]
    <3>1. j + 1 \in 1 .. N /\ (j + 1) - 1 = j
      BY <1>1
    <3>2. ball[j + 1] = ball[j] \cup {e.target : e \in {e \in graph.edges :
                                 e.certainty = "Known" /\ e.source \in ball[j]}}
      BY <1>1, <3>1
    <3>3. PICK e \in graph.edges : e.certainty = "Known" /\ e.source \in ball[j] /\ m = e.target
      BY <2>4, <3>2
    <3>4. e.source \in walk.seen /\ walk.depths[e.source] \in Nat /\ walk.depths[e.source] <= j
      BY <2>1, <2>2, <3>3
    <3>5. e \notin walk.pending
      <4>1. e \in walk.pending => e.source = walk.at.node
        BY PlainEdges DEF WalkInv, InHand, SearchInv
      <4>. QED
        BY <1>1, <3>4, <4>1 DEF SearchInv, Traced
    <3>6. \A q \in walk.queue : q.node # e.source
      <4>1. \A q \in walk.queue : q.depth \in Nat /\ walk.at.depth <= q.depth
        BY DEF WalkInv, Queued
      <4>2. \A q \in walk.queue : walk.depths[q.node] = q.depth
        BY DEF SearchInv, Traced
      <4>. QED
        BY <1>1, <3>4, <4>1, <4>2
    <3>7. e.target \in walk.seen /\ walk.depths[e.target] <= walk.depths[e.source] + 1
      BY <3>3, <3>4, <3>5, <3>6 DEF SearchInv, Relaxed
    <3>. QED
      BY <2>2, <3>3, <3>4, <3>7
  <2>. QED
    BY <2>3, <2>4
<1>4. k \in S
  <2>. HIDE DEF S
  <2>. QED
    BY <1>1, <1>2, <1>3, InductionSet
<1>. QED
  BY <1>1, <1>4 DEF ball

\* What Known edges do not leave holds all that is near.
LEMMA ClosedHoldsAll ==
    ASSUME GraphAssumption, graph \in Graphs, NEW X, KnownClosed(X), NEW s \in X
    PROVE  Within(graph.edges, s)[N] \subseteq X
<1>. DEFINE ball == Within(graph.edges, s)
            S == {j \in Nat : j <= N => ball[j] \subseteq X}
<1>1. /\ N \in Nat
      /\ ball[0] = {s}
      /\ \A j \in 1 .. N :
            ball[j] = ball[j - 1] \cup {e.target : e \in {e \in graph.edges :
                        e.certainty = "Known" /\ e.source \in ball[j - 1]}}
  BY GraphShape, WithinUnfolds
<1>. HIDE DEF ball
<1>2. 0 \in S
  BY <1>1
<1>3. ASSUME NEW j \in Nat, j \in S
      PROVE  j + 1 \in S
  <2>. SUFFICES ASSUME j + 1 <= N PROVE ball[j + 1] \subseteq X
    OBVIOUS
  <2>1. ball[j] \subseteq X
    BY <1>1, <1>3
  <2>2. j + 1 \in 1 .. N /\ (j + 1) - 1 = j
    BY <1>1
  <2>3. ball[j + 1] = ball[j] \cup {e.target : e \in {e \in graph.edges :
                               e.certainty = "Known" /\ e.source \in ball[j]}}
    BY <1>1, <2>2
  <2>. QED
    BY <2>1, <2>3 DEF KnownClosed
<1>4. N \in S
  <2>. HIDE DEF S
  <2>. QED
    BY <1>1, <1>2, <1>3, InductionSet
<1>. QED
  BY <1>1, <1>4 DEF ball

-----------------------------------------------------------------------------
(* The trail. *)

\* The edges that rebuild_trail walks back along.
LEMMA TrailUnfolds ==
    ASSUME walk.depths[ask.target] \in Nat
    PROVE  LET length == walk.depths[ask.target]
           IN  \E back :
                  /\ \A i \in 1 .. length :
                        back[i] = Via(IF i = 1 THEN ask.target ELSE back[i - 1].source)
                  /\ Trailed = [i \in 1 .. length |-> back[length + 1 - i]]
<1>. DEFINE length == walk.depths[ask.target]
            Good(m, f) ==
                f = [i \in 1 .. m |-> Via(IF i = 1 THEN ask.target ELSE f[i - 1].source)]
            S == {m \in Nat : \E f : Good(m, f)}
<1>1. 0 \in S
  <2>1. Good(0, [i \in 1 .. 0 |-> 0])
    OBVIOUS
  <2>. QED
    BY <2>1
<1>2. ASSUME NEW m \in Nat, m \in S
      PROVE  m + 1 \in S
  <2>1. PICK f : Good(m, f)
    BY <1>2
  <2>. DEFINE last == Via(IF m = 0 THEN ask.target ELSE f[m].source)
              g == [i \in 1 .. m + 1 |-> IF i = m + 1 THEN last ELSE f[i]]
  <2>2. \A i \in 1 .. m : f[i] = Via(IF i = 1 THEN ask.target ELSE f[i - 1].source)
    BY <2>1
  <2>3. \A i \in 1 .. m + 1 : g[i] = Via(IF i = 1 THEN ask.target ELSE g[i - 1].source)
    <3>. TAKE i \in 1 .. m + 1
    <3>1. CASE i = m + 1
      <4>1. g[i] = last /\ i - 1 = m /\ (i = 1 <=> m = 0) /\ (i # 1 => g[i - 1] = f[m])
        BY <3>1
      <4>. QED
        BY <4>1
    <3>2. CASE i # m + 1
      <4>1. i \in 1 .. m /\ g[i] = f[i] /\ (i # 1 => i - 1 \in 1 .. m /\ g[i - 1] = f[i - 1])
        BY <3>2
      <4>. QED
        BY <2>2, <4>1
    <3>. QED
      BY <3>1, <3>2
  <2>4. Good(m + 1, g)
    BY <2>3
  <2>. HIDE DEF g, Good
  <2>. QED
    BY <2>4
<1>3. \E f : Good(length, f)
  <2>. HIDE DEF Good
  <2>1. Nat \subseteq S
    BY <1>1, <1>2, InductionSet
  <2>. QED
    BY <2>1
<1>. DEFINE back == CHOOSE f : Good(length, f)
<1>4. Good(length, back)
  <2>. HIDE DEF Good
  <2>. QED
    BY <1>3
<1>5. Trailed = [i \in 1 .. length |-> back[length + 1 - i]]
  BY Zenon DEF Trailed
<1>. HIDE DEF back, length
<1>6. \A i \in 1 .. length : back[i] = Via(IF i = 1 THEN ask.target ELSE back[i - 1].source)
  BY <1>4
<1>. QED
  BY <1>5, <1>6 DEF length

\* A walk that has found the target has the shortest path to it.
LEMMA TrailFound ==
    ASSUME GraphAssumption, graph \in Graphs, WalkInv, SearchInv, ~walk.late,
           walk.seeds = {ask.node}, walk.goal = ask.target, walk.status = "found"
    PROVE  /\ Trailed # <<>> /\ Trailed[Len(Trailed)].target = ask.target
           /\ \A i \in DOMAIN Trailed :
                 /\ Trailed[i] \in graph.edges /\ Trailed[i].certainty = "Known"
                 /\ Trailed[i].source = IF i = 1 THEN ask.node ELSE Trailed[i - 1].target
           /\ ask.target \notin Within(graph.edges, ask.node)[Len(Trailed) - 1]
<1>. DEFINE length == walk.depths[ask.target]
            depths == walk.depths
<1>1. /\ walk.at.depth \in Nat /\ length = walk.at.depth + 1
      /\ ask.target \in walk.seen /\ ~walk.truncated
  BY DEF WalkInv, SearchInv, Looking
<1>2. length \in Nat /\ 1 \in 1 .. length /\ length \in 1 .. length
  BY <1>1
<1>3. PICK back :
         /\ \A i \in 1 .. length :
               back[i] = Via(IF i = 1 THEN ask.target ELSE back[i - 1].source)
         /\ Trailed = [i \in 1 .. length |-> back[length + 1 - i]]
  BY <1>2, TrailUnfolds
<1>. HIDE DEF length
<1>4. \A n \in walk.seen : depths[n] \in Nat /\ (depths[n] = 0 <=> n = ask.node)
  <2>. TAKE n \in walk.seen
  <2>1. depths[n] \in Nat
    BY DEF SearchInv, Traced
  <2>2. n = ask.node => depths[n] = 0
    BY DEF SearchInv, Traced
  <2>3. ASSUME n # ask.node PROVE depths[n] # 0
    <3>1. PICK e \in ToSet(walk.trace) : e.target = n
      BY <2>3 DEF SearchInv, Traced
    <3>2. e.source \in walk.seen /\ depths[e.target] = depths[e.source] + 1
      BY DEF SearchInv, Traced, Deeper
    <3>3. depths[e.source] \in Nat
      BY <3>2 DEF SearchInv, Traced
    <3>. QED
      BY <3>1, <3>2, <3>3
  <2>. QED
    BY <2>1, <2>2, <2>3
<1>5. \A n \in walk.seen : n # ask.node =>
         /\ Via(n) \in graph.edges /\ Via(n).certainty = "Known" /\ Via(n).target = n
         /\ Via(n).source \in walk.seen /\ depths[n] = depths[Via(n).source] + 1
  <2>. TAKE n \in walk.seen
  <2>. HAVE n # ask.node
  <2>1. Via(n) \in ToSet(walk.trace) /\ Via(n).target = n
    <3>1. \E e \in ToSet(walk.trace) : e.target = n
      BY DEF SearchInv, Traced
    <3>. QED
      BY <3>1 DEF Via
  <2>2. Via(n) \in graph.edges
    <3>1. \A e \in ToSet(walk.trace) : e \in graph.edges
      BY DEF SearchInv, Traced, ToSet
    <3>. QED
      BY <2>1, <3>1
  <2>3. /\ Via(n).certainty = "Known" /\ Via(n).source \in walk.seen
        /\ depths[Via(n).target] = depths[Via(n).source] + 1
    BY <2>1 DEF SearchInv, Traced, Deeper
  <2>. QED
    BY <2>1, <2>2, <2>3
<1>. DEFINE to(i) == IF i = 1 THEN ask.target ELSE back[i - 1].source
            S == {j \in Nat : j + 1 <= length =>
                     to(j + 1) \in walk.seen /\ depths[to(j + 1)] = length - j}
<1>6. \A i \in 1 .. length : to(i) \in walk.seen /\ depths[to(i)] = length + 1 - i
  <2>1. 0 \in S
    BY <1>1, <1>2 DEF length
  <2>2. ASSUME NEW j \in Nat, j \in S PROVE j + 1 \in S
    <3>. SUFFICES ASSUME j + 2 <= length
                  PROVE  to(j + 2) \in walk.seen /\ depths[to(j + 2)] = length - (j + 1)
      OBVIOUS
    <3>1. to(j + 1) \in walk.seen /\ depths[to(j + 1)] = length - j
      BY <1>2, <2>2
    <3>2. j + 1 \in 1 .. length /\ (j + 2) - 1 = j + 1 /\ j + 2 # 1
      BY <1>2
    <3>3. back[j + 1] = Via(to(j + 1)) /\ to(j + 2) = back[j + 1].source
      BY <1>3, <3>2
    <3>. HIDE DEF to
    <3>4. to(j + 1) # ask.node
      BY <1>2, <1>4, <3>1
    <3>5. to(j + 2) \in walk.seen /\ depths[to(j + 1)] = depths[to(j + 2)] + 1
      BY <1>5, <3>1, <3>3, <3>4
    <3>6. depths[to(j + 2)] \in Nat
      BY <1>4, <3>5
    <3>. QED
      BY <1>2, <3>1, <3>5, <3>6
  <2>3. Nat \subseteq S
    <3>. HIDE DEF S
    <3>. QED
      BY <2>1, <2>2, InductionSet
  <2>. TAKE i \in 1 .. length
  <2>4. i - 1 \in S /\ (i - 1) + 1 = i /\ i - 1 \in Nat
    BY <1>2, <2>3
  <2>. HIDE DEF to
  <2>. QED
    BY <1>2, <2>4
<1>7. \A i \in 1 .. length :
         /\ back[i] \in graph.edges /\ back[i].certainty = "Known" /\ back[i].target = to(i)
         /\ back[i].source \in walk.seen /\ depths[back[i].source] = length - i
  <2>. TAKE i \in 1 .. length
  <2>1. back[i] = Via(to(i))
    BY <1>3
  <2>. HIDE DEF to
  <2>2. to(i) \in walk.seen /\ depths[to(i)] = length + 1 - i
    BY <1>6
  <2>3. to(i) # ask.node
    BY <1>2, <1>4, <2>2
  <2>4. /\ Via(to(i)) \in graph.edges /\ Via(to(i)).certainty = "Known" /\ Via(to(i)).target = to(i)
        /\ Via(to(i)).source \in walk.seen
        /\ depths[to(i)] = depths[Via(to(i)).source] + 1
    BY <1>5, <2>2, <2>3
  <2>5. depths[Via(to(i)).source] \in Nat
    BY <1>4, <2>4
  <2>. QED
    BY <1>2, <2>1, <2>2, <2>4, <2>5
<1>8. DOMAIN Trailed = 1 .. length /\ Len(Trailed) = length /\ Trailed # <<>>
  <2>. DEFINE path == [i \in 1 .. length |-> back[length + 1 - i]]
  <2>1. DOMAIN path = 1 .. length
    OBVIOUS
  <2>2. Len(path) = length
    BY <1>2
  <2>3. path # <<>>
    BY <1>2, <2>1
  <2>. QED
    BY <1>3, <2>1, <2>2, <2>3, Zenon
<1>9. \A i \in 1 .. length : Trailed[i] = back[length + 1 - i] /\ length + 1 - i \in 1 .. length
  BY <1>2, <1>3
<1>10. Trailed[Len(Trailed)].target = ask.target
  <2>1. (length + 1) - length = 1
    BY <1>2
  <2>2. back[1].target = to(1)
    BY <1>2, <1>7
  <2>. QED
    BY <1>2, <1>8, <1>9, <2>1, <2>2
<1>11. ASSUME NEW i \in 1 .. length
       PROVE  Trailed[i].source = IF i = 1 THEN ask.node ELSE Trailed[i - 1].target
  <2>. DEFINE j == length + 1 - i
  <2>1. j \in 1 .. length /\ Trailed[i] = back[j]
    BY <1>9
  <2>2. CASE i = 1
    <3>1. j = length
      BY <1>2, <2>2
    <3>2. back[j].source \in walk.seen /\ depths[back[j].source] = 0
      BY <1>2, <1>7, <3>1
    <3>. QED
      BY <1>4, <2>1, <2>2, <3>2
  <2>3. CASE i # 1
    <3>1. i - 1 \in 1 .. length /\ length + 1 - (i - 1) = j + 1 /\ j + 1 # 1 /\ (j + 1) - 1 = j
      BY <1>2, <2>3
    <3>2. Trailed[i - 1] = back[j + 1] /\ j + 1 \in 1 .. length
      BY <1>9, <3>1
    <3>3. back[j + 1].target = to(j + 1)
      BY <1>7, <3>2
    <3>4. to(j + 1) = back[j].source
      BY <3>1
    <3>. HIDE DEF to, j
    <3>. QED
      BY <2>1, <2>3, <3>2, <3>3, <3>4
  <2>. QED
    BY <2>2, <2>3
<1>12. ask.target \notin Within(graph.edges, ask.node)[Len(Trailed) - 1]
  <2>1. Len(Trailed) - 1 = walk.at.depth
    BY <1>1, <1>8
  <2>2. walk.at.depth \in 0 .. N
    <3>1. Cardinality(walk.seen) \in Nat /\ Cardinality(walk.seen) <= N
      BY SeenFinite DEF SearchInv, Plain
    <3>. QED
      BY <1>1, <3>1, GraphShape DEF SearchInv, Counted, WalkInv
  <2>3. ask.target \in Within(graph.edges, ask.node)[walk.at.depth] =>
            walk.depths[ask.target] <= walk.at.depth
    BY <1>1, <2>2, NearIsSeen
  <2>. QED
    BY <1>1, <2>1, <2>3 DEF length
<1>13. \A i \in 1 .. length : Trailed[i] \in graph.edges /\ Trailed[i].certainty = "Known"
  BY <1>7, <1>9
<1>. HIDE DEF to
<1>. QED
  BY <1>8, <1>10, <1>11, <1>12, <1>13

\* A walk that ends untruncated without the target has not left what it saw.
LEMMA SearchClosed ==
    ASSUME GraphAssumption, graph \in Graphs, WalkInv, SearchInv,
           walk.status = "exhausted", ~walk.truncated
    PROVE  /\ KnownClosed(walk.seen) /\ walk.seen \in SUBSET graph.nodes
           /\ walk.seeds \subseteq walk.seen /\ walk.goal \notin walk.seen
<1>1. Closed(walk.seen)
  BY WalkExact DEF TruncationExact
<1>2. KnownClosed(walk.seen)
  BY <1>1, PlainEdges DEF Closed, KnownClosed, SearchInv, Plain
<1>3. walk.goal \notin walk.seen
  BY DEF WalkInv, SearchInv, Looking
<1>. QED
  BY <1>2, <1>3 DEF WalkInv, SearchInv, Plain

\* What a walk found is in every closed set that holds its seeds.
LEMMA SearchReaches ==
    ASSUME GraphAssumption, graph \in Graphs, WalkInv, SearchInv, walk.status = "found",
           NEW X \in SUBSET graph.nodes, walk.seeds \subseteq X, KnownClosed(X)
    PROVE  walk.goal \in X
<1>1. X \in SUBSET Nodes
  BY GraphShape
<1>2. Closed(X)
  BY PlainEdges DEF SearchInv, Plain, Closed, KnownClosed
<1>3. walk.seen \subseteq X
  BY <1>1, <1>2 DEF WalkInv, WalkSound
<1>. QED
  BY <1>3 DEF SearchInv, Looking

-----------------------------------------------------------------------------
(* The questions. *)

LEMMA SearchBegins ==
    ASSUME GraphAssumption, graph \in Graphs, NEW seeds \in SUBSET graph.nodes, NEW rank,
           NEW w, w = Walk(seeds, rank), UNCHANGED graph,
           walk'.reverse = w.reverse, walk'.context = w.context, walk'.stop = w.stop,
           walk'.status = w.status, walk'.seeds = w.seeds, walk'.seen = w.seen,
           walk'.found = w.found, walk'.depths = w.depths, walk'.trace = w.trace,
           walk'.at = w.at, walk'.truncated = w.truncated, walk'.queue = w.queue,
           walk'.late \in BOOLEAN, walk'.goal \in graph.nodes,
           walk'.late \/ walk'.goal \notin seeds
    PROVE  SearchInv'
<1>1. /\ walk'.reverse = FALSE /\ walk'.context = FALSE /\ walk'.stop = FALSE
      /\ walk'.status = "walking" /\ walk'.seeds = seeds /\ walk'.seen = seeds
      /\ walk'.found = 0 /\ walk'.depths = [n \in seeds |-> 0] /\ walk'.trace = <<>>
      /\ walk'.at = [node |-> Nowhere, depth |-> 0] /\ walk'.truncated = FALSE
      /\ walk'.queue = {[node |-> s, depth |-> 0, turn |-> rank[s]] : s \in seeds}
  BY DEF Walk
<1>2. /\ \A q \in walk'.queue : q.node \in seeds /\ q.depth = 0
      /\ \A s \in seeds : \E q \in walk'.queue : q.node = s
  <2>1. \A s \in seeds : [node |-> s, depth |-> 0, turn |-> rank[s]] \in walk'.queue
    BY <1>1
  <2>2. \A s \in seeds : \E q \in walk'.queue : q.node = s
    <3>. TAKE s \in seeds
    <3>. QED
      BY <2>1
  <2>3. \A q \in walk'.queue : q.node \in seeds /\ q.depth = 0
    BY <1>1
  <2>. QED
    BY <2>2, <2>3
<1>3. walk'.at.depth = 0 /\ walk'.at.node \notin seeds
  BY <1>1, GraphShape DEF Nowhere, Nodes
<1>4. Plain' /\ Looking'
  BY <1>1, <1>2 DEF Plain, Looking
<1>5. Counted'
  <2>1. Cardinality(seeds) \in Nat
    BY SeenFinite
  <2>. QED
    BY <1>1, <1>2, <1>3, <2>1 DEF Counted
<1>6. Traced'
  <2>1. walk'.trace \in Seq(graph'.edges) /\ ToSet(walk'.trace) = {}
    BY <1>1 DEF ToSet
  <2>. QED
    BY <1>1, <1>2, <1>3, <2>1 DEF Traced
<1>7. Relaxed'
  BY <1>1, <1>2 DEF Relaxed
<1>. QED
  BY <1>4, <1>5, <1>6, <1>7 DEF SearchInv

\* What the graph and the node in question alone decide.
LEMMA GraphStays ==
    ASSUME UNCHANGED graph
    PROVE  /\ Entrypoints' = Entrypoints /\ Tainted' = Tainted /\ Zombies' = Zombies
           /\ answer'.at = answer.at => (InQuestion' <=> InQuestion) /\ (NotKnown' <=> NotKnown)
<1>1. Entrypoints' = Entrypoints
  BY DEF Entrypoints
<1>2. Tainted' = Tainted
  BY DEF Tainted, Uncertain
<1>3. Zombies' = Zombies
  BY DEF Zombies, Abandoned, KnownClosed
<1>4. answer'.at = answer.at => (InQuestion' <=> InQuestion)
  BY DEF InQuestion
<1>5. answer'.at = answer.at => (NotKnown' <=> NotKnown)
  BY <1>1 DEF NotKnown, KnownClosed
<1>. QED
  BY <1>1, <1>2, <1>3, <1>4, <1>5

\* A node that an entry point reaches is no zombie.
LEMMA KnownReaches ==
    ASSUME GraphAssumption, RetrievalInv, Searching, answer.status = "known", walk.status = "found"
    PROVE  answer.at \notin Zombies
<1>. SUFFICES ASSUME answer.at \in Zombies PROVE FALSE
  OBVIOUS
<1>1. PICK X \in SUBSET graph.nodes :
         /\ answer.at \notin X /\ KnownClosed(X)
         /\ \A m \in graph.nodes : graph.node[m].role = "Entrypoint" => m \in X
  BY DEF Zombies, Abandoned
<1>2. walk.seeds \subseteq X
  BY <1>1 DEF Searching, Entrypoints
<1>3. walk.goal \in X
  BY <1>1, <1>2, SearchReaches DEF RetrievalInv, Searching
<1>. QED
  BY <1>1, <1>3 DEF Searching

\* Nor is one that an uncertain edge touches or that is reached from there.
LEMMA TaintReaches ==
    ASSUME GraphAssumption, RetrievalInv, Searching, answer.status = "tainted", walk.status = "found"
    PROVE  answer.at \notin Zombies
<1>. SUFFICES ASSUME answer.at \in Zombies PROVE FALSE
  OBVIOUS
<1>1. PICK X \in SUBSET graph.nodes :
         /\ answer.at \notin X /\ KnownClosed(X)
         /\ \A e \in graph.edges : e.certainty # "Known" =>
               {e.source, e.target} \cap graph.nodes \subseteq X
  BY DEF Zombies, Abandoned
<1>2. walk.seeds \subseteq X
  BY <1>1 DEF Searching, Tainted, Uncertain
<1>3. walk.goal \in X
  BY <1>1, <1>2, SearchReaches DEF RetrievalInv, Searching
<1>. QED
  BY <1>1, <1>3 DEF Searching

\* One that neither of the two walks finds is a zombie.
LEMMA NeitherReaches ==
    ASSUME GraphAssumption, RetrievalInv, Searching, answer.status = "tainted",
           walk.status = "exhausted", ~walk.truncated
    PROVE  answer.at \in Zombies
<1>1. /\ KnownClosed(walk.seen) /\ walk.seen \in SUBSET graph.nodes
      /\ Tainted \subseteq walk.seen /\ answer.at \notin walk.seen
  BY SearchClosed DEF RetrievalInv, Searching
<1>2. PICK X \in SUBSET graph.nodes : answer.at \notin X /\ Entrypoints \subseteq X /\ KnownClosed(X)
  BY DEF Searching, NotKnown
<1>. DEFINE Y == X \cup walk.seen
<1>3. Y \in SUBSET graph.nodes /\ answer.at \notin Y /\ KnownClosed(Y)
  BY <1>1, <1>2 DEF KnownClosed
<1>4. \A m \in graph.nodes : graph.node[m].role = "Entrypoint" => m \in Y
  BY <1>2 DEF Entrypoints
<1>5. \A e \in graph.edges : e.certainty # "Known" => {e.source, e.target} \cap graph.nodes \subseteq Y
  BY <1>1 DEF Tainted, Uncertain
<1>6. InQuestion
  BY DEF Searching
<1>. HIDE DEF Y
<1>. QED
  BY <1>3, <1>4, <1>5, <1>6 DEF Zombies, Abandoned, InQuestion

\* Entry points reach a node by Known edges, or the first walk separates it.
LEMMA KnownSeparates ==
    ASSUME GraphAssumption, RetrievalInv, Searching, answer.status = "known",
           walk.status = "exhausted", ~walk.truncated
    PROVE  NotKnown
<1>1. /\ KnownClosed(walk.seen) /\ walk.seen \in SUBSET graph.nodes
      /\ Entrypoints \subseteq walk.seen /\ answer.at \notin walk.seen
  BY SearchClosed DEF RetrievalInv, Searching
<1>. QED
  BY <1>1 DEF NotKnown

\* The end of one round of the loop of zombies.
LEMMA ConcludeLists ==
    ASSUME GraphAssumption, graph \in Graphs, Answering, Listing, ask.cmd = "zombies",
           answer.status \in {"classify", "known", "tainted"}, answer.at \in graph.nodes,
           NEW outcome, NEW truncated \in BOOLEAN, Conclude(outcome, truncated),
           UNCHANGED <<graph, ask>>,
           outcome = "Unreachable" /\ ~truncated => answer.at \in Zombies,
           ask.maxDepth >= N /\ answer.at \in Zombies => outcome = "Unreachable" /\ ~truncated
    PROVE  /\ Listing' /\ answer'.status \in {"classify", "done"}
           /\ answer'.status = "classify" => answer'.at \in graph.nodes
<1>. DEFINE zombie == outcome = "Unreachable" /\ ~truncated
            full == Len(answer.items) = ask.max
            later == {n \in graph.nodes : n > answer.at}
            items == IF zombie /\ ~full THEN Append(answer.items, answer.at) ELSE answer.items
<1>1. answer.items \in Seq(Zombies) /\ Zombies' = Zombies /\ Zombies \subseteq graph.nodes
  BY GraphStays DEF Listing, Zombies
<1>2. /\ items \in Seq(Zombies)
      /\ ToSet(items) = ToSet(answer.items) \cup IF zombie /\ ~full THEN {answer.at} ELSE {}
  <2>1. CASE zombie /\ ~full
    <3>. DEFINE old == answer.items
                at == answer.at
    <3>1. old \in Seq(Zombies) /\ at \in Zombies /\ items = Append(old, at)
      BY <1>1, <2>1
    <3>. HIDE DEF old, at, items, zombie, full
    <3>2. Append(old, at) \in Seq(Zombies) /\ ToSet(Append(old, at)) = ToSet(old) \cup {at}
      BY <3>1, AppendIn
    <3>. QED
      BY <2>1, <3>1, <3>2 DEF old, at
  <2>2. CASE ~(zombie /\ ~full)
    BY <1>1, <2>2
  <2>. QED
    BY <2>1, <2>2
<1>3. \A n \in graph.nodes : n \in Nat
  BY GraphShape DEF Nodes
<1>4. ask.maxDepth >= N /\ ~(zombie /\ full) =>
         \A n \in Zombies : n <= answer.at => n \in ToSet(items)
  <2>. SUFFICES ASSUME ask.maxDepth >= N, ~(zombie /\ full), NEW n \in Zombies, n <= answer.at
                PROVE  n \in ToSet(items)
    OBVIOUS
  <2>1. CASE n = answer.at
    BY <1>2, <2>1
  <2>2. CASE n # answer.at
    <3>1. n < answer.at
      BY <1>1, <1>3, <2>2
    <3>2. n \in ToSet(answer.items)
      BY <3>1 DEF Listing
    <3>. QED
      BY <1>2, <3>2
  <2>. QED
    BY <2>1, <2>2
<1>5. CASE (zombie /\ full) \/ later = {}
  <2>1. Reply("Found", items, zombie /\ full)
    BY <1>5, Zenon DEF Conclude
  <2>. HIDE DEF items, zombie, full, later
  <2>2. /\ answer'.status = "done" /\ answer'.items = items
        /\ answer'.truncated = (zombie /\ full)
    BY <2>1 DEF Reply, Answering, AnswerFields
  <2>3. ASSUME ask.maxDepth >= N, ~(zombie /\ full)
        PROVE  Zombies \subseteq ToSet(items)
    <3>1. \A n \in Zombies : n <= answer.at
      <4>1. later = {}
        BY <1>5, <2>3
      <4>. QED
        BY <1>1, <1>3, <4>1 DEF later
    <3>. QED
      BY <1>4, <2>3, <3>1
  <2>4. Listing'
    BY <1>1, <1>2, <2>2, <2>3 DEF Listing
  <2>. QED
    BY <2>2, <2>4
<1>6. CASE ~((zombie /\ full) \/ later = {})
  <2>1. answer' = [answer EXCEPT !.status = "classify", !.items = items, !.at = Min(later)]
    BY <1>6, Zenon DEF Conclude
  <2>2. Min(later) \in later /\ \A n \in later : Min(later) <= n
    <3>1. \E k \in later : \A l \in later : k <= l
      <4>1. later \in SUBSET Nat /\ later # {}
        BY <1>3, <1>6
      <4>. HIDE DEF later
      <4>. QED
        BY <4>1, LeastElement
    <3>. HIDE DEF later
    <3>. QED
      BY <3>1 DEF Min
  <2>. HIDE DEF items, zombie, full
  <2>3. /\ answer'.status = "classify" /\ answer'.items = items /\ answer'.at = Min(later)
    BY <2>1 DEF Answering, AnswerFields
  <2>4. \A n \in Zombies : n < answer'.at => n <= answer.at
    <3>1. \A n \in graph.nodes : n \in later <=> n > answer.at
      OBVIOUS
    <3>2. Min(later) \in Nat
      BY <1>3, <2>2
    <3>. HIDE DEF later
    <3>. QED
      BY <1>1, <1>3, <2>2, <2>3, <3>1, <3>2
  <2>5. Listing'
    BY <1>1, <1>2, <1>4, <1>6, <2>3, <2>4 DEF Listing
  <2>. QED
    BY <2>2, <2>3, <2>5
<1>. QED
  BY <1>5, <1>6

\* Steps that leave the graph, the walk and the answer as they are.
LEMMA AnswersKeep ==
    ASSUME Searching, Listing, TrailShortest, UNCHANGED <<graph, walk, ask, answer>>
    PROVE  Searching' /\ Listing' /\ TrailShortest'
<1>1. Searching'
  <2>1. SearchInv => SearchInv'
    BY SearchStays
  <2>. QED
    BY <2>1, GraphStays DEF Searching
<1>2. Listing'
  BY GraphStays DEF Listing
<1>3. TrailShortest'
  BY DEF TrailShortest
<1>. QED
  BY <1>1, <1>2, <1>3

\* Steps of a walk.
LEMMA AnswersWalk ==
    ASSUME GraphAssumption, RetrievalInv, Searching, Listing, TrailShortest, TraversalNext,
           UNCHANGED <<graph, ask, answer>>
    PROVE  Searching' /\ Listing' /\ TrailShortest'
<1>1. Searching'
  <2>1. SearchInv => /\ SearchInv'
                     /\ walk'.goal = walk.goal /\ walk'.seeds = walk.seeds /\ walk'.late = walk.late
                     /\ walk'.maxDepth = walk.maxDepth /\ walk'.maxItems = walk.maxItems
    BY SearchSteps DEF RetrievalInv
  <2>. QED
    BY <2>1, GraphStays DEF Searching
<1>2. Listing'
  BY GraphStays DEF Listing
<1>3. TrailShortest'
  BY DEF TrailShortest
<1>. QED
  BY <1>1, <1>2, <1>3

\* The answers to other questions, and the questions that start elsewhere.
LEMMA AnswersOther ==
    ASSUME RetrievalInv, Searching, Listing, TrailShortest,
           Find \/ Consumers \/ Impact \/ ImpactEnds \/ Query \/ AskPacket \/ PacketEnds
    PROVE  Searching' /\ Listing' /\ TrailShortest'
<1>1. ask' = ask /\ ask.cmd \notin {"zombies", "trail"}
  BY DEF Find, Consumers, Impact, ImpactEnds, Query, AskPacket, PacketEnds, OnlyAnswers, OnlyWalks,
         Asked, Searching
<1>2. \/ answer'.status = "done"
      \/ answer'.status = "impact" /\ ask.cmd = "impact"
      \/ answer'.status = "packet" /\ ask.cmd \in {"packet", "cli_packet", "doctor"}
  <2>1. CASE Find \/ Consumers \/ ImpactEnds \/ Query \/ PacketEnds
    <3>1. \E outcome, items, truncated : Reply(outcome, items, truncated)
      BY <2>1 DEF Find, Consumers, ImpactEnds, Query, PacketEnds
    <3>. QED
      BY <3>1 DEF Reply, RetrievalInv, Answering, AnswerFields
  <2>2. CASE Impact
    BY <2>2 DEF Impact, Asked, RetrievalInv, Answering, AnswerFields
  <2>3. CASE AskPacket
    BY <2>3 DEF AskPacket, Reply, RetrievalInv, Answering, AnswerFields
  <2>. QED
    BY <2>1, <2>2, <2>3
<1>. QED
  BY <1>1, <1>2 DEF Searching, Listing, TrailShortest

\* A question about a node that is not there ends at once.
LEMMA AnswersMissing ==
    ASSUME RetrievalInv, Missing
    PROVE  Searching' /\ Listing' /\ TrailShortest'
<1>1. ask' = ask /\ ask.cmd # "zombies"
  BY DEF Missing, OnlyAnswers
<1>2. answer'.status = "done" /\ answer'.outcome \in {"Missing", "MissingTarget"}
  BY DEF Missing, Reply, RetrievalInv, Answering, AnswerFields
<1>. QED
  BY <1>1, <1>2 DEF Searching, Listing, TrailShortest

\* The trail's walk keeps the invariant, and its end tells a shortest trail.
LEMMA AnswersTrail ==
    ASSUME GraphAssumption, RetrievalInv, Trail
    PROVE  Searching' /\ Listing' /\ TrailShortest'
<1>1. /\ ask' = ask /\ graph' = graph /\ ask.cmd = "trail"
      /\ ask.node \in graph.nodes /\ ask.target \in graph.nodes
  BY DEF Trail, Asked, OnlyWalks
<1>2. CASE ask.node = ask.target
  <2>1. /\ answer'.status = "done" /\ answer'.outcome = "Trail" /\ answer'.items = <<>>
    BY <1>2 DEF Trail, Reply, RetrievalInv, Answering, AnswerFields
  <2>. QED
    BY <1>1, <1>2, <2>1 DEF Searching, Listing, TrailShortest
<1>3. CASE ask.node # ask.target
  <2>. DEFINE w == Walk({ask.node}, ById)
  <2>1. /\ answer'.status = "trail"
        /\ walk' = [w EXCEPT !.byTarget = TRUE, !.goal = ask.target, !.maxDepth = ask.maxDepth,
                             !.maxItems = ask.max]
    BY <1>3 DEF Trail, RetrievalInv, Answering, AnswerFields
  <2>2. DOMAIN w = WalkFields /\ w.late = FALSE /\ w.seeds = {ask.node}
    BY DEF Walk, WalkFields
  <2>. HIDE DEF w
  <2>3. /\ walk'.reverse = w.reverse /\ walk'.context = w.context /\ walk'.stop = w.stop
        /\ walk'.status = w.status /\ walk'.seeds = w.seeds /\ walk'.seen = w.seen
        /\ walk'.found = w.found /\ walk'.depths = w.depths /\ walk'.trace = w.trace
        /\ walk'.at = w.at /\ walk'.truncated = w.truncated /\ walk'.queue = w.queue
        /\ walk'.late = FALSE /\ walk'.goal = ask.target
    BY <2>1, <2>2 DEF WalkFields
  <2>4. SearchInv'
    <3>1. {ask.node} \in SUBSET graph.nodes /\ graph \in Graphs
      BY <1>1 DEF RetrievalInv
    <3>. QED
      BY <1>1, <1>3, <2>3, <3>1, SearchBegins DEF w
  <2>. QED
    BY <1>1, <2>1, <2>2, <2>3, <2>4 DEF Searching, Listing, TrailShortest
<1>. QED
  BY <1>2, <1>3

LEMMA AnswersTrailEnds ==
    ASSUME GraphAssumption, RetrievalInv, Searching, TrailEnds
    PROVE  Searching' /\ Listing' /\ TrailShortest'
<1>1. /\ ask' = ask /\ graph' = graph /\ ask.cmd = "trail"
      /\ graph \in Graphs /\ WalkInv /\ SearchInv
      /\ ~walk.late /\ walk.goal = ask.target /\ walk.seeds = {ask.node}
  BY DEF TrailEnds, OnlyAnswers, Searching, RetrievalInv
<1>2. /\ answer'.status = "done" /\ answer'.truncated = walk.truncated
      /\ walk.status = "found" => answer'.outcome = "Trail" /\ answer'.items = Trailed
      /\ walk.status # "found" => answer'.outcome = "Unreachable" /\ walk.status = "exhausted"
  BY DEF TrailEnds, Reply, RetrievalInv, Answering, AnswerFields
<1>3. Searching' /\ Listing'
  BY <1>1, <1>2 DEF Searching, Listing
<1>4. CASE walk.status = "found"
  <2>. DEFINE path == Trailed
  <2>1. /\ path # <<>> /\ path[Len(path)].target = ask.target
        /\ \A i \in DOMAIN path :
              /\ path[i] \in graph.edges /\ path[i].certainty = "Known"
              /\ path[i].source = IF i = 1 THEN ask.node ELSE path[i - 1].target
        /\ ask.target \notin Within(graph.edges, ask.node)[Len(path) - 1]
    BY <1>1, <1>4, TrailFound
  <2>2. answer'.items = path /\ answer'.outcome = "Trail"
    BY <1>2, <1>4
  <2>. HIDE DEF path
  <2>. QED
    BY <1>1, <1>3, <2>1, <2>2 DEF TrailShortest
<1>5. CASE walk.status # "found"
  <2>1. ~walk.truncated => ask.target \notin Within(graph.edges, ask.node)[N]
    BY <1>1, <1>2, <1>5, SearchClosed, ClosedHoldsAll
  <2>. QED
    BY <1>1, <1>2, <1>3, <1>5, <2>1 DEF TrailShortest
<1>. QED
  BY <1>4, <1>5

\* A node is passed over for its role or coverage, or a walk looks for it.
LEMMA AnswersClassification ==
    ASSUME GraphAssumption, RetrievalInv, Listing, Classification
    PROVE  Searching' /\ Listing' /\ TrailShortest'
<1>1. /\ ask' = ask /\ graph' = graph /\ ask.cmd \in {"reachability", "zombies"}
      /\ answer.status = "asked" /\ graph \in Graphs
      /\ DOMAIN answer = AnswerFields
  BY DEF Classification, OnlyAnswers, Asked, RetrievalInv, Answering
<1>2. TrailShortest'
  BY <1>1 DEF TrailShortest
<1>3. CASE ask.cmd = "reachability"
  <2>1. answer'.status = "classify" /\ answer'.at \in graph.nodes
    BY <1>1, <1>3 DEF Classification, Asked, AnswerFields
  <2>. QED
    BY <1>1, <1>2, <1>3, <2>1 DEF Searching, Listing
<1>4. CASE ask.cmd = "zombies" /\ graph.nodes = {}
  <2>1. answer'.status = "done" /\ answer'.items = <<>>
    BY <1>1, <1>4 DEF Classification, Asked, Reply, AnswerFields
  <2>2. Zombies' = {}
    BY <1>1, <1>4 DEF Zombies
  <2>. QED
    BY <1>1, <1>2, <2>1, <2>2 DEF Searching, Listing
<1>5. CASE ask.cmd = "zombies" /\ graph.nodes # {}
  <2>1. /\ answer'.status = "classify" /\ answer'.at = Min(graph.nodes)
        /\ answer'.items = answer.items
    BY <1>1, <1>5 DEF Classification, Asked, AnswerFields
  <2>2. Min(graph.nodes) \in graph.nodes /\ \A n \in graph.nodes : n \in Nat /\ Min(graph.nodes) <= n
    <3>1. graph.nodes \in SUBSET Nat
      BY <1>1, GraphShape DEF Nodes
    <3>2. \E k \in graph.nodes : \A l \in graph.nodes : k <= l
      BY <1>5, <3>1, LeastElement
    <3>. QED
      BY <3>1, <3>2 DEF Min
  <2>3. Zombies' = Zombies /\ \A n \in Zombies : ~(n < Min(graph.nodes))
    BY <1>1, <2>2, GraphStays DEF Zombies
  <2>. QED
    BY <1>1, <1>2, <1>5, <2>1, <2>2, <2>3 DEF Searching, Listing
<1>. QED
  BY <1>1, <1>3, <1>4, <1>5

\* The end of a classification, of one node or in the loop.
LEMMA AnswersConclude ==
    ASSUME GraphAssumption, RetrievalInv, Listing,
           answer.status \in {"classify", "known", "tainted"}, answer.at \in graph.nodes,
           NEW outcome, NEW truncated \in BOOLEAN, Conclude(outcome, truncated),
           UNCHANGED <<graph, ask>>,
           outcome = "Unreachable" /\ ~truncated => answer.at \in Zombies,
           ask.maxDepth >= N /\ answer.at \in Zombies => outcome = "Unreachable" /\ ~truncated
    PROVE  Searching' /\ Listing' /\ TrailShortest'
<1>1. ask.cmd \in {"reachability", "zombies"} /\ Answering /\ graph \in Graphs
  BY DEF RetrievalInv, Answering
<1>2. TrailShortest'
  BY <1>1 DEF TrailShortest
<1>3. CASE ask.cmd = "reachability"
  <2>1. answer'.status = "done"
    BY <1>1, <1>3 DEF Conclude, Reply, Answering, AnswerFields
  <2>. QED
    BY <1>2, <1>3, <2>1 DEF Searching, Listing
<1>4. CASE ask.cmd = "zombies"
  <2>1. /\ Listing' /\ answer'.status \in {"classify", "done"}
        /\ answer'.status = "classify" => answer'.at \in graph.nodes
    BY <1>1, <1>4, ConcludeLists
  <2>. QED
    BY <1>2, <2>1 DEF Searching
<1>. QED
  BY <1>1, <1>3, <1>4

LEMMA AnswersClassify ==
    ASSUME GraphAssumption, RetrievalInv, Searching, Listing, Classify
    PROVE  Searching' /\ Listing' /\ TrailShortest'
<1>1. /\ ask' = ask /\ graph' = graph /\ answer.status = "classify"
      /\ graph \in Graphs /\ answer.at \in graph.nodes
      /\ ask.cmd \in {"reachability", "zombies"} /\ DOMAIN answer = AnswerFields
  BY DEF Classify, OnlyWalks, RetrievalInv, Searching, Answering
<1>2. \A r : r \in DOMAIN Immediate <=> r \in {"Entrypoint", "Test", "Generated"}
  BY DEF Immediate
<1>3. CASE ~InQuestion
  <2>. DEFINE role == graph.node[answer.at].role
  <2>1. \/ Conclude("Unknown", FALSE)
        \/ role \in {"Entrypoint", "Test", "Generated"} /\ Conclude(Immediate[role], FALSE)
    BY <1>1, <1>2, <1>3 DEF Classify, InQuestion, contains_value
  <2>2. answer.at \notin Zombies
    BY <1>1, <1>3 DEF Zombies, Abandoned, InQuestion
  <2>3. \E outcome : outcome # "Unreachable" /\ Conclude(outcome, FALSE)
    <3>1. role \in {"Entrypoint", "Test", "Generated"} => Immediate[role] # "Unreachable"
      BY DEF Immediate
    <3>. HIDE DEF role
    <3>. QED
      BY <2>1, <3>1
  <2>. QED
    BY <1>1, <2>2, <2>3, AnswersConclude
<1>4. CASE InQuestion
  <2>1. walk' = KnownWalk /\ answer' = [answer EXCEPT !.status = "known"]
    BY <1>1, <1>2, <1>4 DEF Classify, InQuestion, contains_value
  <2>2. /\ answer'.status = "known" /\ answer'.at = answer.at /\ answer'.items = answer.items
    BY <1>1, <2>1 DEF AnswerFields
  <2>. DEFINE w == Walk(Entrypoints, ById)
  <2>3. walk' = [w EXCEPT !.goal = answer.at, !.maxDepth = ask.maxDepth]
    BY <2>1 DEF KnownWalk, Entrypoints
  <2>4. DOMAIN w = WalkFields /\ w.late = FALSE /\ w.seeds = Entrypoints /\ w.maxItems = N
    BY DEF Walk, WalkFields
  <2>. HIDE DEF w
  <2>5. /\ walk'.reverse = w.reverse /\ walk'.context = w.context /\ walk'.stop = w.stop
        /\ walk'.status = w.status /\ walk'.seeds = w.seeds /\ walk'.seen = w.seen
        /\ walk'.found = w.found /\ walk'.depths = w.depths /\ walk'.trace = w.trace
        /\ walk'.at = w.at /\ walk'.truncated = w.truncated /\ walk'.queue = w.queue
        /\ walk'.late = FALSE /\ walk'.goal = answer.at
        /\ walk'.maxDepth = ask.maxDepth /\ walk'.maxItems = N
    BY <2>3, <2>4 DEF WalkFields
  <2>6. SearchInv'
    <3>1. Entrypoints \in SUBSET graph.nodes /\ answer.at \notin Entrypoints
      BY <1>4 DEF Entrypoints, InQuestion
    <3>. QED
      BY <1>1, <2>5, <3>1, SearchBegins DEF w
  <2>7. Entrypoints' = Entrypoints /\ Zombies' = Zombies /\ InQuestion'
    BY <1>1, <1>4, <2>2, GraphStays
  <2>8. Searching'
    BY <1>1, <2>2, <2>4, <2>5, <2>6, <2>7 DEF Searching
  <2>9. Listing' /\ TrailShortest'
    BY <1>1, <2>2, <2>7 DEF Listing, TrailShortest
  <2>. QED
    BY <2>8, <2>9
<1>. QED
  BY <1>3, <1>4

\* The end of the walk along Known edges.
LEMMA AnswersKnown ==
    ASSUME GraphAssumption, RetrievalInv, Searching, Listing, KnownEnds
    PROVE  Searching' /\ Listing' /\ TrailShortest'
<1>1. /\ ask' = ask /\ graph' = graph /\ answer.status = "known"
      /\ graph \in Graphs /\ WalkInv /\ SearchInv /\ InQuestion
      /\ walk.goal = answer.at /\ walk.maxDepth = ask.maxDepth /\ walk.maxItems = N
      /\ ask.cmd \in {"reachability", "zombies"} /\ DOMAIN answer = AnswerFields
  BY DEF KnownEnds, OnlyWalks, RetrievalInv, Searching, Answering
<1>2. answer.at \in graph.nodes
  BY <1>1 DEF InQuestion
<1>3. CASE walk.status = "found"
  <2>1. Conclude("Supporting", FALSE)
    BY <1>3 DEF KnownEnds
  <2>2. answer.at \notin Zombies
    BY <1>1, <1>3, KnownReaches
  <2>. QED
    BY <1>1, <1>2, <2>1, <2>2, AnswersConclude
<1>4. CASE walk.status # "found" /\ walk.truncated
  <2>1. Conclude("Unknown", TRUE)
    BY <1>4 DEF KnownEnds
  <2>2. ~(ask.maxDepth >= N)
    BY <1>1, <1>4 DEF SearchInv, Counted
  <2>. QED
    BY <1>1, <1>2, <2>1, <2>2, AnswersConclude
<1>5. CASE walk.status # "found" /\ ~walk.truncated
  <2>1. walk' = TaintWalk /\ answer' = [answer EXCEPT !.status = "tainted"]
    BY <1>5 DEF KnownEnds
  <2>2. /\ answer'.status = "tainted" /\ answer'.at = answer.at /\ answer'.items = answer.items
    BY <1>1, <2>1 DEF AnswerFields
  <2>. DEFINE ends(n) == {2 * e.id : e \in {e \in Uncertain : e.source = n}}
                         \cup {2 * e.id + 1 : e \in {e \in Uncertain : e.target = n}}
              rank == [n \in Tainted |-> Min(ends(n)) - (2 * M + 1)]
              w == Walk(Tainted, rank)
  <2>3. walk' = [w EXCEPT !.goal = answer.at, !.late = TRUE, !.maxDepth = ask.maxDepth]
    BY <2>1, Zenon DEF TaintWalk
  <2>. HIDE DEF rank
  <2>4. DOMAIN w = WalkFields /\ w.seeds = Tainted /\ w.maxItems = N
    BY DEF Walk, WalkFields
  <2>. HIDE DEF w
  <2>5. /\ walk'.reverse = w.reverse /\ walk'.context = w.context /\ walk'.stop = w.stop
        /\ walk'.status = w.status /\ walk'.seeds = w.seeds /\ walk'.seen = w.seen
        /\ walk'.found = w.found /\ walk'.depths = w.depths /\ walk'.trace = w.trace
        /\ walk'.at = w.at /\ walk'.truncated = w.truncated /\ walk'.queue = w.queue
        /\ walk'.late = TRUE /\ walk'.goal = answer.at
        /\ walk'.maxDepth = ask.maxDepth /\ walk'.maxItems = N
    BY <2>3, <2>4 DEF WalkFields
  <2>6. SearchInv'
    <3>1. Tainted \in SUBSET graph.nodes
      BY DEF Tainted
    <3>. QED
      BY <1>1, <1>2, <2>5, <3>1, SearchBegins DEF w
  <2>7. Tainted' = Tainted /\ Zombies' = Zombies /\ InQuestion' /\ NotKnown'
    <3>1. walk.status = "exhausted"
      BY <1>5 DEF KnownEnds
    <3>2. NotKnown
      BY <1>1, <1>5, <3>1, KnownSeparates
    <3>. QED
      BY <1>1, <2>2, <3>2, GraphStays
  <2>8. Searching'
    BY <1>1, <2>2, <2>4, <2>5, <2>6, <2>7 DEF Searching
  <2>9. Listing' /\ TrailShortest'
    BY <1>1, <2>2, <2>7 DEF Listing, TrailShortest
  <2>. QED
    BY <2>8, <2>9
<1>. QED
  BY <1>3, <1>4, <1>5

\* The end of the walk from the targets of uncertain edges.
LEMMA AnswersTainted ==
    ASSUME GraphAssumption, RetrievalInv, Searching, Listing, TaintEnds
    PROVE  Searching' /\ Listing' /\ TrailShortest'
<1>1. /\ ask' = ask /\ graph' = graph /\ answer.status = "tainted"
      /\ walk.status \in {"found", "exhausted"} /\ walk.truncated \in BOOLEAN
      /\ SearchInv /\ InQuestion /\ walk.maxDepth = ask.maxDepth /\ walk.maxItems = N
  BY DEF TaintEnds, OnlyAnswers, RetrievalInv, WalkInv, Searching
<1>2. answer.at \in graph.nodes
  BY <1>1 DEF InQuestion
<1>. DEFINE outcome == IF walk.status = "found" \/ walk.truncated THEN "Unknown" ELSE "Unreachable"
<1>3. Conclude(outcome, walk.truncated)
  BY DEF TaintEnds
<1>4. outcome = "Unreachable" <=> walk.status = "exhausted" /\ ~walk.truncated
  BY <1>1
<1>. HIDE DEF outcome
<1>5. outcome = "Unreachable" => answer.at \in Zombies
  BY <1>1, <1>4, NeitherReaches
<1>6. ASSUME ask.maxDepth >= N, answer.at \in Zombies
      PROVE  outcome = "Unreachable" /\ ~walk.truncated
  <2>1. ~walk.truncated
    BY <1>1, <1>6 DEF SearchInv, Counted
  <2>2. walk.status # "found"
    BY <1>1, <1>6, TaintReaches
  <2>. QED
    BY <1>1, <1>4, <2>1, <2>2
<1>. QED
  BY <1>1, <1>2, <1>3, <1>5, <1>6, AnswersConclude

LEMMA AnswersStart == RetrievalInit => AnswersInv
<1>. SUFFICES ASSUME RetrievalInit PROVE AnswersInv
  OBVIOUS
<1>1. answer.status = "asked" /\ answer.items = <<>>
  BY DEF RetrievalInit
<1>2. Searching /\ Listing /\ TrailShortest
  BY <1>1 DEF Searching, Listing, TrailShortest
<1>. QED
  BY <1>2, RetrievalStarts DEF AnswersInv

\* One step for each action of Retrieval.
LEMMA AnswersSteps == AnswersInv /\ [RetrievalNext]_vars => AnswersInv'
<1>. SUFFICES ASSUME AnswersInv, [RetrievalNext]_vars PROVE AnswersInv'
  OBVIOUS
<1>. USE GraphAssumption DEF AnswersInv
<1>1. RetrievalInv'
  BY RetrievalSteps
<1>2. CASE TraversalNext /\ UNCHANGED <<order, pack, ask, answer>>
  <2>1. graph' = graph
    BY <1>2 DEF TraversalNext, Pop, Relax, Exhaust
  <2>. QED
    BY <1>1, <1>2, <2>1, AnswersWalk
<1>3. CASE PacketNext /\ UNCHANGED <<ask, answer>>
  <2>1. UNCHANGED <<graph, walk>>
    BY <1>3 DEF PacketNext, Index, SelectNext, Deliver
  <2>. QED
    BY <1>1, <1>3, <2>1, AnswersKeep
<1>4. CASE Find \/ Consumers \/ Impact \/ ImpactEnds \/ Query \/ AskPacket \/ PacketEnds
  BY <1>1, <1>4, AnswersOther
<1>5. CASE Missing \/ Trail \/ TrailEnds
  BY <1>1, <1>5, AnswersMissing, AnswersTrail, AnswersTrailEnds
<1>6. CASE Classification \/ Classify \/ KnownEnds \/ TaintEnds
  BY <1>1, <1>6, AnswersClassification, AnswersClassify, AnswersKnown, AnswersTainted
<1>7. CASE UNCHANGED vars
  BY <1>1, <1>7, AnswersKeep DEF vars
<1>. QED
  BY <1>2, <1>3, <1>4, <1>5, <1>6, <1>7 DEF RetrievalNext

\* What is listed is what the graph says of the nodes listed.
LEMMA ListedExact ==
    ASSUME Listing
    PROVE  ZombiesExact
<1>1. \A z : z \in Zombies <=> z \in graph.nodes /\ Abandoned(z)
  BY DEF Zombies
<1>. SUFFICES ASSUME ask.cmd = "zombies"
              PROVE  /\ \A i \in DOMAIN answer.items : Abandoned(answer.items[i])
                     /\ answer.status = "done" /\ ~answer.truncated /\ ask.maxDepth >= N =>
                           {n \in graph.nodes : Abandoned(n)} \subseteq ToSet(answer.items)
  BY DEF ZombiesExact
<1>2. answer.items \in Seq(Zombies)
  BY DEF Listing
<1>3. \A i \in DOMAIN answer.items : answer.items[i] \in Zombies
  BY <1>2
<1>4. answer.status = "done" /\ ~answer.truncated /\ ask.maxDepth >= N =>
         Zombies \subseteq ToSet(answer.items)
  BY DEF Listing
<1>. QED
  BY <1>1, <1>3, <1>4 DEF Zombies

\* For every graph, question and bound, only abandoned nodes are listed as
\* zombies, an uncut list has all of them, and a trail is a shortest path of
\* Known edges (zombies, reachability and trail of graph/query.rs).
THEOREM AnswersAlwaysExact == RetrievalSpec => []AnswersExact
<1>1. AnswersInv => AnswersExact
  BY ListedExact DEF AnswersInv, AnswersExact
<1>2. RetrievalSpec => []AnswersInv
  BY AnswersStart, AnswersSteps, PTL DEF RetrievalSpec
<1>. QED
  BY <1>1, <1>2, PTL

-----------------------------------------------------------------------------
(* Orders. *)

\* A strict order arranges a finite set without loss.
LEMMA ArrangedAll ==
    ASSUME NEW S, IsFiniteSet(S), NEW R,
           \A x \in S : <<x, x>> \notin R,
           \A x, y \in S : x # y => <<x, y>> \in R \/ <<y, x>> \in R,
           \A x, y, z \in S : <<x, y>> \in R /\ <<y, z>> \in R => <<x, z>> \in R
    PROVE  /\ DOMAIN Arranged(S, R) = 1 .. Cardinality(S)
           /\ Arranged(S, R) \in Seq(S) /\ Len(Arranged(S, R)) = Cardinality(S)
           /\ ToSet(Arranged(S, R)) = S
<1>. DEFINE n == Cardinality(S)
            before(x) == {y \in S : <<y, x>> \in R}
            rank == [x \in S |-> Cardinality(before(x)) + 1]
<1>1. n \in Nat
  BY FS_CardinalityType
<1>2. \A x \in S : IsFiniteSet(before(x)) /\ Cardinality(before(x)) \in Nat /\ Cardinality(before(x)) < n
  <2>. TAKE x \in S
  <2>1. before(x) \in SUBSET S /\ before(x) # S
    OBVIOUS
  <2>2. IsFiniteSet(before(x)) /\ Cardinality(before(x)) <= n /\ Cardinality(before(x)) # n
    <3>. HIDE DEF before
    <3>. QED
      BY <2>1, FS_Subset
  <2>3. Cardinality(before(x)) \in Nat
    BY <2>2, FS_CardinalityType
  <2>. QED
    BY <1>1, <2>2, <2>3
<1>3. \A x, y \in S : <<x, y>> \in R => Cardinality(before(x)) < Cardinality(before(y))
  <2>. SUFFICES ASSUME NEW x \in S, NEW y \in S, <<x, y>> \in R
                PROVE  Cardinality(before(x)) < Cardinality(before(y))
    OBVIOUS
  <2>1. before(x) \in SUBSET before(y) /\ x \in before(y) /\ x \notin before(x)
    OBVIOUS
  <2>2. IsFiniteSet(before(y)) /\ Cardinality(before(x)) \in Nat /\ Cardinality(before(y)) \in Nat
    BY <1>2
  <2>. HIDE DEF before
  <2>3. Cardinality(before(x)) <= Cardinality(before(y)) /\ Cardinality(before(y)) # Cardinality(before(x))
    BY <2>1, <2>2, FS_Subset
  <2>. QED
    BY <2>2, <2>3
<1>. HIDE DEF before
<1>4. \A x, y \in S : rank[x] = rank[y] => x = y
  <2>. SUFFICES ASSUME NEW x \in S, NEW y \in S, x # y PROVE rank[x] # rank[y]
    OBVIOUS
  <2>1. Cardinality(before(x)) # Cardinality(before(y))
    <3>1. Cardinality(before(x)) \in Nat /\ Cardinality(before(y)) \in Nat
      BY <1>2
    <3>2. CASE <<x, y>> \in R
      BY <1>3, <3>1, <3>2
    <3>3. CASE <<y, x>> \in R
      BY <1>3, <3>1, <3>3
    <3>. QED
      BY <3>2, <3>3
  <2>. QED
    BY <1>2, <2>1
<1>5. rank \in [S -> 1 .. n]
  BY <1>1, <1>2
<1>6. \A i \in 1 .. n : \E x \in S : rank[x] = i
  <2>. HIDE DEF rank
  <2>1. rank \in Injection(S, 1 .. n)
    BY <1>4, <1>5 DEF Injection, IsInjective
  <2>2. IsFiniteSet(1 .. n) /\ Cardinality(1 .. n) = n
    BY <1>1, FS_Interval
  <2>3. rank \in Surjection(S, 1 .. n)
    BY <2>1, <2>2, FS_Injection
  <2>. QED
    BY <2>3 DEF Surjection
<1>. DEFINE seq == [i \in 1 .. n |-> CHOOSE x \in S : Cardinality(before(x)) = i - 1]
<1>7. Arranged(S, R) = seq
  BY DEF Arranged, before
<1>8. \A i \in 1 .. n : seq[i] \in S /\ rank[seq[i]] = i
  <2>. TAKE i \in 1 .. n
  <2>1. \E x \in S : Cardinality(before(x)) = i - 1
    BY <1>1, <1>2, <1>6
  <2>2. seq[i] \in S /\ Cardinality(before(seq[i])) = i - 1
    BY <2>1
  <2>. HIDE DEF seq
  <2>. QED
    BY <1>1, <2>2
<1>9. DOMAIN seq = 1 .. n /\ seq \in Seq(S) /\ Len(seq) = n
  <2>1. seq = [i \in 1 .. n |-> seq[i]]
    OBVIOUS
  <2>. HIDE DEF seq, n
  <2>2. seq \in [1 .. n -> S]
    BY <1>8, <2>1
  <2>. QED
    BY <1>1, <2>2
<1>10. ToSet(seq) = S
  <2>. HIDE DEF seq, rank
  <2>1. \A x \in S : seq[rank[x]] = x /\ rank[x] \in 1 .. n
    BY <1>4, <1>5, <1>8
  <2>. QED
    BY <1>8, <1>9, <2>1 DEF ToSet
<1>. HIDE DEF seq
<1>. QED
  BY <1>7, <1>9, <1>10

\* The loop of compile keeps a prefix of the candidates.
LEMMA KeptPrefix ==
    ASSUME NEW spec, spec.maxItems \in Nat, spec.maxBytes \in Nat,
           NEW candidates, Len(candidates) \in Nat, NEW node
    PROVE  Kept(spec, candidates, node) \in 0 .. Len(candidates)
<1>. DEFINE length == Len(candidates)
            rendered(k) == rendered_bytes(spec, node[candidates[k]])
            Good(m, f) == f = [k \in 0 .. m |-> IF k = 0 THEN 0 ELSE f[k - 1] + rendered(k)]
            S == {m \in Nat : \E f : Good(m, f)}
<1>1. 0 \in S
  <2>1. Good(0, [k \in 0 .. 0 |-> 0])
    OBVIOUS
  <2>. QED
    BY <2>1
<1>2. ASSUME NEW m \in Nat, m \in S
      PROVE  m + 1 \in S
  <2>1. PICK f : Good(m, f)
    BY <1>2
  <2>. DEFINE g == [k \in 0 .. m + 1 |-> IF k = m + 1 THEN f[m] + rendered(m + 1) ELSE f[k]]
  <2>. HIDE DEF rendered
  <2>2. \A k \in 0 .. m : f[k] = IF k = 0 THEN 0 ELSE f[k - 1] + rendered(k)
    BY <2>1
  <2>3. \A k \in 0 .. m + 1 : g[k] = IF k = 0 THEN 0 ELSE g[k - 1] + rendered(k)
    <3>. TAKE k \in 0 .. m + 1
    <3>1. CASE k = m + 1
      <4>1. k - 1 = m /\ g[k] = f[m] + rendered(k) /\ g[m] = f[m] /\ k # 0
        BY <3>1
      <4>. QED
        BY <4>1
    <3>2. CASE k # m + 1
      <4>1. k \in 0 .. m /\ g[k] = f[k] /\ (k # 0 => k - 1 \in 0 .. m /\ g[k - 1] = f[k - 1])
        BY <3>2
      <4>. QED
        BY <2>2, <4>1
    <3>. QED
      BY <3>1, <3>2
  <2>4. Good(m + 1, g)
    BY <2>3
  <2>. HIDE DEF g, Good
  <2>. QED
    BY <2>4
<1>3. \E f : Good(length, f)
  <2>. HIDE DEF Good
  <2>1. Nat \subseteq S
    BY <1>1, <1>2, InductionSet
  <2>. QED
    BY <2>1
<1>. DEFINE bytes == CHOOSE f : Good(length, f)
            fits == {k \in 0 .. length : k <= spec.maxItems /\ bytes[k] <= spec.maxBytes}
<1>4. Good(length, bytes)
  <2>. HIDE DEF Good
  <2>. QED
    BY <1>3
<1>5. Kept(spec, candidates, node) = Max(fits)
  BY Zenon DEF Kept
<1>. HIDE DEF bytes
<1>6. bytes[0] = 0
  BY <1>4
<1>. HIDE DEF length
<1>7. length \in Nat
  BY DEF length
<1>8. fits \subseteq 0 .. length /\ 0 \in fits
  BY <1>6, <1>7
<1>. HIDE DEF fits
<1>9. \E k \in fits : \A l \in fits : k >= l
  <2>. DEFINE T == {length - k : k \in fits}
  <2>1. T \in SUBSET Nat /\ T # {}
    BY <1>7, <1>8
  <2>. HIDE DEF T
  <2>2. PICK t \in T : \A u \in T : t <= u
    BY <2>1, LeastElement
  <2>3. PICK k \in fits : t = length - k
    BY DEF T
  <2>4. \A l \in fits : length - k <= length - l
    BY <2>2, <2>3 DEF T
  <2>. QED
    BY <1>7, <1>8, <2>4
<1>10. Max(fits) \in fits
  BY <1>9 DEF Max
<1>. QED
  BY <1>5, <1>8, <1>10 DEF length

\* What an order of nodes compares is a number.
LEMMA KeysAreNumbers ==
    ASSUME QuestionsAssumption, graph \in Graphs, NEW n \in graph.nodes,
           NEW sort, sort.kind \in SortKinds
    PROVE  SortKey(sort, graph.node[n]) \in Int
<1>. DEFINE node == graph.node[n]
<1>1. /\ node.role \in Roles /\ node.source \in Nat /\ node.confidence \in Nat
      /\ \A f \in node.facts : f[2] \in Nat
  BY DEF QuestionsAssumption
<1>. HIDE DEF node
<1>2. RoleRank(node.role) \in Int
  <2>1. \E i \in 1 .. 8 : RoleNames[i] = node.role
    BY <1>1 DEF Roles, RoleNames
  <2>2. DOMAIN RoleNames = 1 .. 8
    BY DEF RoleNames
  <2>. QED
    BY <2>1, <2>2 DEF RoleRank
<1>3. FirstValue(node, sort.key) \in Int
  <2>. DEFINE values == {f[2] : f \in {f \in node.facts : f[1] = sort.key}}
  <2>1. values \in SUBSET Nat
    BY <1>1
  <2>2. FirstValue(node, sort.key) = IF values = {} THEN 0 ELSE Min(values)
    BY DEF FirstValue
  <2>. HIDE DEF values
  <2>3. values # {} => Min(values) \in values
    <3>1. values # {} => \E k \in values : \A l \in values : k <= l
      BY <2>1, LeastElement
    <3>. QED
      BY <3>1 DEF Min
  <2>4. CASE values = {}
    BY <2>2, <2>4
  <2>5. CASE values # {}
    <3>1. FirstValue(node, sort.key) = Min(values)
      BY <2>2, <2>5
    <3>2. Min(values) \in Nat
      BY <2>1, <2>3, <2>5
    <3>. QED
      BY <3>1, <3>2
  <2>. QED
    BY <2>4, <2>5
<1>. QED
  BY <1>1, <1>2, <1>3 DEF SortKey, SortKinds, node

\* A view that is not cut has all the nodes its filter chooses.
LEMMA CompiledWhole ==
    ASSUME GraphAssumption, QuestionsAssumption, graph \in Graphs,
           NEW spec, spec.sort.kind \in SortKinds, spec.maxItems \in Nat, spec.maxBytes \in Nat,
           ~Compiled(spec).truncated
    PROVE  ToSet(Compiled(spec).items) = Chosen(spec, graph.nodes, graph.node)
<1>. DEFINE S == Chosen(spec, graph.nodes, graph.node)
            key(n) == SortKey(spec.sort, graph.node[n])
            R == {p \in S \X S : ComesBefore(graph.node, spec.sort, p[1], p[2])}
            candidates == stable_sort(S, graph.node, spec.sort)
            kept == Kept(spec, candidates, graph.node)
<1>1. S \in SUBSET graph.nodes
  BY DEF Chosen
<1>2. candidates = Arranged(S, R)
  BY Zenon DEF stable_sort
<1>3. Compiled(spec).items = SubSeq(candidates, 1, kept) /\ ~(kept < Len(candidates))
  BY DEF Compiled, compile
<1>. HIDE DEF S, candidates, kept
<1>4. IsFiniteSet(S) /\ Cardinality(S) \in Nat
  BY <1>1, SeenFinite
<1>5. \A n \in S : key(n) \in Int /\ n \in Nat
  <2>1. \A n \in S : n \in Nat
    BY <1>1, GraphShape DEF Nodes
  <2>2. \A n \in S : key(n) \in Int
    BY <1>1, KeysAreNumbers
  <2>. QED
    BY <2>1, <2>2
<1>6. \A a, b \in S : <<a, b>> \in R <=> key(a) < key(b) \/ (key(a) = key(b) /\ a < b)
  BY DEF ComesBefore
<1>. HIDE DEF R, key
<1>7. /\ Len(candidates) = Cardinality(S) /\ candidates \in Seq(S)
      /\ ToSet(candidates) = S
  <2>1. \A a \in S : <<a, a>> \notin R
    BY <1>5, <1>6
  <2>2. \A a, b \in S : a # b => <<a, b>> \in R \/ <<b, a>> \in R
    BY <1>5, <1>6
  <2>3. \A a, b, c \in S : <<a, b>> \in R /\ <<b, c>> \in R => <<a, c>> \in R
    BY <1>5, <1>6
  <2>4. /\ Arranged(S, R) \in Seq(S) /\ Len(Arranged(S, R)) = Cardinality(S)
        /\ ToSet(Arranged(S, R)) = S
    BY <1>4, <2>1, <2>2, <2>3, ArrangedAll
  <2>. QED
    BY <1>2, <2>4
<1>8. kept = Len(candidates)
  <2>1. Len(candidates) \in Nat
    BY <1>4, <1>7
  <2>2. kept \in 0 .. Len(candidates)
    BY <2>1, KeptPrefix DEF kept
  <2>. QED
    BY <1>3, <2>1, <2>2
<1>9. SubSeq(candidates, 1, Len(candidates)) = candidates
  BY <1>7
<1>. QED
  BY <1>3, <1>7, <1>8, <1>9 DEF S

-----------------------------------------------------------------------------
(* The whole of a packet. *)

\* A packet in the making: what it was asked is the compiled view's, the
\* closure goes forward from there along edges of a positive relationship, and
\* from the selection on its nodes are those of the evidence.
Assembling ==
    answer.status = "packet" =>
        /\ ask.cmd \in {"packet", "cli_packet", "doctor"}
        /\ order.seeds = ToSet(Compiled(Request.spec).items)
        /\ order.viewTruncated = Compiled(Request.spec).truncated
        /\ order.evidence = Request.evidence
        /\ pack.error # "ok"
        /\ pack.status \in {"closing", "selecting", "delivered"} =>
              /\ walk.reverse = FALSE /\ walk.context = TRUE
              /\ walk.seeds = order.seeds /\ walk.seen \subseteq graph.nodes
        /\ pack.status \in {"selecting", "delivered"} =>
              walk.status = "exhausted" /\ EvidenceError(order, walk.seen) = "none"

\* What every step keeps of packets and of the questions before them.
PacketInv == AnswersInv /\ Assembling /\ PacketComplete

\* The specification and evidence of a request are ones that can be sorted.
LEMMA RequestSorted ==
    ASSUME GraphAssumption, QuestionsAssumption, RetrievalInv,
           ask.cmd \in {"packet", "cli_packet", "doctor"}
    PROVE  /\ Request.spec.sort.kind \in SortKinds
           /\ Request.spec.maxItems \in Nat /\ Request.spec.maxBytes \in Nat
           /\ IsFiniteSet(Request.evidence)
           /\ \A e \in Request.evidence :
                 /\ {e.id, e.authority, e.freshness} \subseteq Nat
                 /\ e.priority \in DOMAIN PriorityRank
<1>1. ask \in Questions /\ graph \in Graphs
  BY DEF RetrievalInv
<1>2. Request.spec.maxItems \in Nat /\ Request.spec.maxBytes \in Nat
  BY RequestTyped
<1>3. CASE ask.cmd = "packet"
  <2>1. Request = ask
    BY <1>3 DEF Request
  <2>. QED
    BY <1>1, <1>2, <1>3, <2>1 DEF QuestionsAssumption
<1>4. CASE ask.cmd # "packet"
  <2>1. Request.evidence = AllEvidence /\ Request.spec.sort.kind = "NodeId"
    BY <1>4 DEF Request, CliView
  <2>2. \A e \in AllEvidence :
           /\ {e.id, e.authority, e.freshness} \subseteq Nat
           /\ e.priority \in DOMAIN PriorityRank
    <3>1. \A n \in graph.nodes : n \in Nat
      BY <1>1, GraphShape DEF Nodes
    <3>. QED
      BY <3>1 DEF AllEvidence, PriorityRank
  <2>3. IsFiniteSet(AllEvidence)
    <3>. DEFINE f == [n \in graph.nodes |->
                        [id |-> n, priority |-> "Recommended", authority |-> 100, freshness |-> 1,
                         anchors |-> "none",
                         bytes |-> graph.node[n].bytes + graph.node[n].content]]
    <3>1. IsFiniteSet(graph.nodes)
      BY <1>1, SeenFinite
    <3>2. f \in Surjection(graph.nodes, AllEvidence)
      BY DEF Surjection, AllEvidence
    <3>. HIDE DEF f
    <3>. QED
      BY <3>1, <3>2, FS_Surjection
  <2>. QED
    BY <1>2, <2>1, <2>2, <2>3 DEF SortKinds
<1>. QED
  BY <1>3, <1>4

\* What a packet is asked depends on the question and the graph.
LEMMA RequestStays ==
    ASSUME UNCHANGED <<graph, ask>>
    PROVE  /\ Request' = Request
           /\ Compiled(Request.spec)' = Compiled(Request.spec)
           /\ Chosen(Request.spec, graph.nodes, graph.node)' = Chosen(Request.spec, graph.nodes, graph.node)
<1>1. AllEvidence' = AllEvidence
  BY DEF AllEvidence
<1>2. Request' = Request
  BY <1>1 DEF Request
<1>3. /\ compile(Request.spec, graph.nodes, graph.node)' = compile(Request.spec, graph.nodes, graph.node)
      /\ Chosen(Request.spec, graph.nodes, graph.node)' = Chosen(Request.spec, graph.nodes, graph.node)
  BY <1>2
<1>. QED
  BY <1>2, <1>3 DEF Compiled

\* The order in which candidates are tried is strict where identities differ.
LEMMA SelectedAll ==
    ASSUME NEW S, IsFiniteSet(S),
           \A e \in S : /\ {e.id, e.authority, e.freshness} \subseteq Nat
                        /\ e.priority \in DOMAIN PriorityRank,
           \A e, f \in S : e.id = f.id => e = f
    PROVE  LET items == Arranged(S, {p \in S \X S : p[1] # p[2] /\ Precedes(p[1], p[2])})
           IN  /\ DOMAIN items = 1 .. Cardinality(S) /\ Cardinality(S) \in Nat
               /\ ToSet(items) = S
<1>. DEFINE R == {p \in S \X S : p[1] # p[2] /\ Precedes(p[1], p[2])}
            rank(e) == PriorityRank[e.priority]
<1>1. \A e \in S : /\ rank(e) \in Nat /\ e.id \in Nat /\ e.authority \in Nat /\ e.freshness \in Nat
  BY DEF PriorityRank
<1>2. \A a, b \in S : <<a, b>> \in R <=> a # b /\ Precedes(a, b)
  OBVIOUS
<1>3. \A a, b : Precedes(a, b) <=>
         \/ rank(a) < rank(b)
         \/ rank(a) = rank(b) /\ a.authority > b.authority
         \/ rank(a) = rank(b) /\ a.authority = b.authority /\ a.freshness > b.freshness
         \/ rank(a) = rank(b) /\ a.authority = b.authority /\ a.freshness = b.freshness /\ a.id <= b.id
  BY DEF Precedes
<1>. HIDE DEF R, rank
<1>4. \A a \in S : <<a, a>> \notin R
  BY <1>2
<1>5. \A a, b \in S : a # b => <<a, b>> \in R \/ <<b, a>> \in R
  BY <1>1, <1>2, <1>3
<1>6. ASSUME NEW a \in S, NEW b \in S, NEW c \in S, <<a, b>> \in R, <<b, c>> \in R
      PROVE  <<a, c>> \in R
  <2>1. Precedes(a, b) /\ Precedes(b, c) /\ a.id # b.id /\ b.id # c.id
    BY <1>2, <1>6
  <2>2. Precedes(a, c) /\ a.id # c.id
    BY <1>1, <1>3, <2>1
  <2>. QED
    BY <1>2, <2>2
<1>7. DOMAIN Arranged(S, R) = 1 .. Cardinality(S) /\ ToSet(Arranged(S, R)) = S
  BY <1>4, <1>5, <1>6, ArrangedAll
<1>8. Cardinality(S) \in Nat
  BY FS_CardinalityType
<1>. QED
  BY <1>7, <1>8 DEF R

\* The packet holds the context of the seeds that it was assembled for.
LEMMA PacketWhole ==
    ASSUME GraphAssumption, QuestionsAssumption, RetrievalInv, Assembling,
           answer.status = "packet", pack.status = "delivered", ~PacketTruncated
    PROVE  /\ {e.id : e \in pack.selected} =
                 {n \in graph.nodes :
                     \A X \in SUBSET graph.nodes :
                         /\ Chosen(Request.spec, graph.nodes, graph.node) \subseteq X
                         /\ \A e \in graph.edges :
                               e.certainty = "Known" /\ e.relationship \in PositiveContext
                                   /\ e.source \in X => e.target \in X
                         => n \in X}
           /\ pack.selected = order.evidence
           /\ \A e, f \in pack.selected : e.id = f.id => e = f
<1>1. /\ order.evidence = Request.evidence /\ walk.status = "exhausted"
      /\ EvidenceError(order, walk.seen) = "none"
      /\ walk.reverse = FALSE /\ walk.context = TRUE
      /\ walk.seeds = ToSet(Compiled(Request.spec).items) /\ walk.seen \in SUBSET graph.nodes
      /\ order.viewTruncated = Compiled(Request.spec).truncated
      /\ WalkInv /\ graph \in Graphs
      /\ ask.cmd \in {"packet", "cli_packet", "doctor"}
  BY DEF Assembling, RetrievalInv
<1>2. ~order.viewTruncated /\ ~walk.truncated /\ pack.omitted = {}
  BY DEF PacketTruncated
<1>3. pack.selected = order.evidence
  BY <1>2 DEF RetrievalInv, PackInv, Selecting
<1>4. /\ \A e, f \in pack.selected : e.id = f.id => e = f
      /\ walk.seen = {e.id : e \in pack.selected}
  <2>1. /\ \A e, f \in order.evidence : e.id = f.id => e = f
        /\ walk.seen \subseteq Given(order) /\ Given(order) \subseteq walk.seen
    BY <1>1 DEF EvidenceError
  <2>. QED
    BY <1>3, <2>1 DEF Given
<1>5. walk.seeds = Chosen(Request.spec, graph.nodes, graph.node)
  BY <1>1, <1>2, RequestSorted, CompiledWhole
<1>6. \A X : Closed(X) <=>
         \A e \in graph.edges :
            e.certainty = "Known" /\ e.relationship \in PositiveContext /\ e.source \in X => e.target \in X
  BY <1>1 DEF Closed, From, Onto
<1>7. Closed(walk.seen) /\ walk.seeds \subseteq walk.seen
  BY <1>1, <1>2, WalkExact DEF TruncationExact, WalkInv
<1>8. \A X \in SUBSET graph.nodes : walk.seeds \subseteq X /\ Closed(X) => walk.seen \subseteq X
  BY <1>1, GraphShape DEF WalkInv, WalkSound
<1>9. walk.seen = {n \in graph.nodes :
                     \A X \in SUBSET graph.nodes : walk.seeds \subseteq X /\ Closed(X) => n \in X}
  BY <1>1, <1>7, <1>8
<1>. QED
  BY <1>3, <1>4, <1>5, <1>6, <1>9

\* Steps of a walk, for the closure of a packet.
LEMMA ClosureSteps ==
    ASSUME GraphAssumption, graph \in Graphs, WalkInv, TraversalNext
    PROVE  /\ walk.status = "walking" /\ walk'.seeds = walk.seeds
           /\ walk'.reverse = walk.reverse /\ walk'.context = walk.context
           /\ walk.reverse = FALSE /\ walk.seen \subseteq graph.nodes => walk'.seen \subseteq graph.nodes
<1>1. CASE \E q \in walk.queue : Pop(q)
  BY <1>1 DEF Pop, WalkInv, WalkFields
<1>2. CASE \E e \in walk.pending : Relax(e)
  <2>. PICK e \in walk.pending : Relax(e)
    BY <1>2
  <2>1. /\ walk.status = "walking" /\ walk'.seeds = walk.seeds
        /\ walk'.reverse = walk.reverse /\ walk'.context = walk.context
        /\ walk'.seen = walk.seen \/ (Follows(walk, e) /\ walk'.seen = walk.seen \cup {Onto(walk, e)})
    <3>. DEFINE n == Onto(walk, e)
    <3>1. walk.status = "walking" /\ DOMAIN walk = WalkFields
      BY DEF Relax, WalkInv
    <3>. HIDE DEF n
    <3>2. CASE walk' = [walk EXCEPT !.pending = @ \ {e}] \/ CutOff(e)
      BY <3>1, <3>2 DEF CutOff, WalkFields
    <3>3. CASE Follows(walk, e) /\ Discover(e)
      <4>1. /\ walk'.seeds = walk.seeds /\ walk'.reverse = walk.reverse
            /\ walk'.context = walk.context /\ walk'.seen = walk.seen \cup {n}
        BY <3>1, <3>3 DEF Discover, WalkFields, n
      <4>. QED
        BY <3>1, <3>3, <4>1 DEF n
    <3>. QED
      BY <3>2, <3>3 DEF Relax
  <2>2. e \in graph.edges
    BY DEF WalkInv, InHand
  <2>3. Follows(walk, e) /\ walk.reverse = FALSE => Onto(walk, e) \in graph.nodes
    BY <2>2, GraphShape DEF Follows, Onto
  <2>. QED
    BY <2>1, <2>3
<1>3. CASE Exhaust
  BY <1>3 DEF Exhaust, WalkInv, WalkFields
<1>. QED
  BY <1>1, <1>2, <1>3 DEF TraversalNext

\* The request starts a packet that is still to be assembled.
LEMMA PacketAsked ==
    ASSUME GraphAssumption, RetrievalInv, AskPacket
    PROVE  Assembling' /\ PacketComplete'
<1>1. UNCHANGED <<graph, ask>> /\ ask.cmd \in {"packet", "cli_packet", "doctor"}
  BY DEF AskPacket, BeginPacket
<1>2. DOMAIN answer = AnswerFields /\ DOMAIN pack = PackFields
  BY DEF RetrievalInv, Answering, PackInv
<1>3. CASE Reply("refused", <<>>, FALSE)
  <2>1. answer'.status = "done" /\ answer'.outcome = "refused"
    BY <1>2, <1>3 DEF Reply, AnswerFields
  <2>. QED
    BY <2>1 DEF Assembling, PacketComplete
<1>4. CASE ~Reply("refused", <<>>, FALSE)
  <2>. DEFINE view == Compiled(Request.spec)
              o == [seeds |-> ToSet(view.items), evidence |-> Request.evidence,
                    maxItems |-> Request.maxItems, maxBytes |-> Request.maxBytes,
                    ceiling |-> Request.ceiling, maxDepth |-> Request.maxDepth,
                    maxNodes |-> Request.maxNodes, viewItems |-> view.maxItems,
                    viewBytes |-> view.maxBytes, viewTruncated |-> view.truncated]
  <2>1. BeginPacket(o) /\ answer' = [answer EXCEPT !.status = "packet"]
    BY <1>4 DEF AskPacket
  <2>2. /\ o.seeds = ToSet(view.items) /\ o.evidence = Request.evidence
        /\ o.viewTruncated = view.truncated
    OBVIOUS
  <2>. HIDE DEF o
  <2>3. answer'.status = "packet" /\ order' = o
    BY <1>2, <2>1 DEF BeginPacket, AnswerFields
  <2>4. /\ pack'.error # "ok"
        /\ pack'.status \in {"closing", "selecting", "delivered"} =>
           /\ pack'.status = "closing" /\ walk' = Closure(o) /\ o.seeds \subseteq graph.nodes
    BY <1>2, <2>1 DEF BeginPacket, NoPack, PackFields
  <2>5. LET c == Closure(o) IN c.reverse = FALSE /\ c.context = TRUE /\ c.seeds = o.seeds /\ c.seen = o.seeds
    BY DEF Closure, Walk
  <2>6. Compiled(Request.spec)' = view /\ Request' = Request
    BY <1>1, RequestStays
  <2>. HIDE DEF view
  <2>7. Assembling'
    <3>1. pack'.status \notin {"selecting", "delivered"}
      BY <2>4
    <3>2. pack'.status \in {"closing", "selecting", "delivered"} =>
             /\ walk'.reverse = FALSE /\ walk'.context = TRUE
             /\ walk'.seeds = o.seeds /\ walk'.seen \subseteq graph.nodes
      BY <2>4, <2>5
    <3>3. ask'.cmd \in {"packet", "cli_packet", "doctor"} /\ graph' = graph
      BY <1>1
    <3>. QED
      BY <2>2, <2>3, <2>4, <2>6, <3>1, <3>2, <3>3 DEF Assembling
  <2>8. PacketComplete'
    BY <2>3 DEF PacketComplete
  <2>. QED
    BY <2>7, <2>8
<1>. QED
  BY <1>3, <1>4

\* A packet that is delivered whole holds all of its context.
LEMMA PacketTold ==
    ASSUME GraphAssumption, QuestionsAssumption, RetrievalInv, Assembling, PacketEnds
    PROVE  Assembling' /\ PacketComplete'
<1>1. UNCHANGED <<graph, ask>> /\ answer.status = "packet" /\ DOMAIN answer = AnswerFields
  BY DEF PacketEnds, OnlyAnswers, RetrievalInv, Answering
<1>. DEFINE S == pack.selected
            items == Arranged(S, {p \in S \X S : p[1] # p[2] /\ Precedes(p[1], p[2])})
            ids == [i \in DOMAIN items |-> items[i].id]
<1>2. /\ answer'.status = "done"
      /\ \/ pack.status = "failed" /\ answer'.outcome = pack.error
         \/ ask.cmd = "doctor"
         \/ /\ pack.status = "delivered"
            /\ answer'.items = ids /\ answer'.truncated = PacketTruncated
  BY <1>1 DEF PacketEnds, Reply, AnswerFields
<1>3. Assembling'
  BY <1>2 DEF Assembling
<1>. SUFFICES ASSUME ask.cmd \in {"packet", "cli_packet"}, answer'.outcome = "ok", ~answer'.truncated
              PROVE  PacketComplete'
  BY <1>1, <1>3 DEF PacketComplete
<1>4. CASE pack.status = "failed"
  <2>1. pack.error # "ok"
    BY <1>1 DEF Assembling
  <2>. QED
    BY <1>2, <1>4, <2>1
<1>5. CASE pack.status = "delivered"
  <2>1. answer'.items = ids /\ ~PacketTruncated
    BY <1>2, <1>5
  <2>2. /\ S = Request.evidence /\ \A e, f \in S : e.id = f.id => e = f
    BY <1>1, <1>5, <2>1, PacketWhole DEF Assembling
  <2>3. /\ DOMAIN items = 1 .. Cardinality(S) /\ ToSet(items) = S
    BY <2>2, RequestSorted, SelectedAll
  <2>4. ToSet(ids) = {e.id : e \in S}
    <3>. HIDE DEF items
    <3>. QED
      BY <2>3 DEF ToSet
  <2>. HIDE DEF ids
  <2>5. ToSet(answer'.items) =
            {n \in graph.nodes :
                \A X \in SUBSET graph.nodes :
                    /\ Chosen(Request.spec, graph.nodes, graph.node) \subseteq X
                    /\ \A e \in graph.edges :
                          e.certainty = "Known" /\ e.relationship \in PositiveContext
                              /\ e.source \in X => e.target \in X
                    => n \in X}
    BY <1>1, <1>5, <2>1, <2>4, PacketWhole
  <2>6. Chosen(Request.spec, graph.nodes, graph.node)' = Chosen(Request.spec, graph.nodes, graph.node)
    BY <1>1, RequestStays
  <2>. QED
    BY <1>1, <2>5, <2>6 DEF PacketComplete
<1>. QED
  BY <1>1, <1>4, <1>5 DEF PacketEnds

\* A state with the same packet is as complete.
LEMMA PacketKeeps ==
    ASSUME PacketComplete, UNCHANGED <<graph, ask, answer>>
    PROVE  PacketComplete'
<1>1. Chosen(Request.spec, graph.nodes, graph.node)' = Chosen(Request.spec, graph.nodes, graph.node)
  BY RequestStays
<1>. QED
  BY <1>1 DEF PacketComplete

LEMMA PacketInvStarts == RetrievalInit => PacketInv
<1>. SUFFICES ASSUME RetrievalInit PROVE PacketInv
  OBVIOUS
<1>1. answer.status = "asked"
  BY DEF RetrievalInit
<1>. QED
  BY <1>1, AnswersStart DEF PacketInv, Assembling, PacketComplete

\* One step for each action of Retrieval.
LEMMA PacketInvSteps == PacketInv /\ [RetrievalNext]_vars => PacketInv'
<1>. SUFFICES ASSUME PacketInv, [RetrievalNext]_vars PROVE PacketInv'
  OBVIOUS
<1>. USE GraphAssumption, QuestionsAssumption DEF PacketInv
<1>1. AnswersInv' /\ RetrievalInv
  BY AnswersSteps DEF AnswersInv
<1>2. CASE TraversalNext /\ UNCHANGED <<order, pack, ask, answer>>
  <2>1. graph' = graph
    BY <1>2 DEF TraversalNext, Pop, Relax, Exhaust
  <2>2. /\ Compiled(Request.spec)' = Compiled(Request.spec) /\ Request' = Request
    BY <1>2, <2>1, RequestStays
  <2>3. /\ walk.status = "walking" /\ walk'.seeds = walk.seeds
        /\ walk'.reverse = walk.reverse /\ walk'.context = walk.context
        /\ walk.reverse = FALSE /\ walk.seen \subseteq graph.nodes => walk'.seen \subseteq graph.nodes
    BY <1>1, <1>2, ClosureSteps DEF RetrievalInv
  <2>4. Assembling'
    BY <1>2, <2>1, <2>2, <2>3 DEF Assembling
  <2>. QED
    BY <1>1, <1>2, <2>1, <2>4, PacketKeeps
<1>3. CASE PacketNext /\ UNCHANGED <<ask, answer>>
  <2>1. UNCHANGED <<graph, walk, order>>
    BY <1>3 DEF PacketNext, Index, SelectNext, Deliver
  <2>2. /\ Compiled(Request.spec)' = Compiled(Request.spec) /\ Request' = Request
    BY <1>3, <2>1, RequestStays
  <2>3. /\ pack.status \in {"closing", "selecting", "delivered"}
        /\ pack.error # "ok" => pack'.error # "ok"
        /\ pack'.status \in {"selecting", "delivered"} =>
              \/ pack.status \in {"selecting", "delivered"}
              \/ walk.status = "exhausted" /\ EvidenceError(order, walk.seen) = "none"
    <3>1. DOMAIN pack = PackFields
      BY <1>1 DEF RetrievalInv, PackInv
    <3>2. CASE Index
      BY <3>1, <3>2 DEF Index, PackFields, EvidenceError
    <3>3. CASE ~Index
      BY <1>3, <3>1, <3>3 DEF PacketNext, SelectNext, Deliver, PackFields
    <3>. QED
      BY <3>2, <3>3
  <2>4. EvidenceError(order, walk.seen)' = EvidenceError(order, walk.seen)
    BY <2>1
  <2>5. Assembling'
    BY <1>3, <2>1, <2>2, <2>3, <2>4 DEF Assembling
  <2>. QED
    BY <1>1, <1>3, <2>1, <2>5, PacketKeeps
<1>4. CASE AskPacket
  BY <1>1, <1>4, PacketAsked
<1>5. CASE PacketEnds
  BY <1>1, <1>5, PacketTold
<1>6. CASE Find \/ Missing \/ Consumers \/ Impact \/ ImpactEnds \/ Trail \/ TrailEnds
              \/ Classification \/ Classify \/ KnownEnds \/ TaintEnds \/ Query
  <2>1. DOMAIN answer = AnswerFields /\ ask' = ask
    BY <1>1, <1>6 DEF RetrievalInv, Answering, Find, Missing, Consumers, Impact, ImpactEnds, Trail,
                TrailEnds, Classification, Classify, KnownEnds, TaintEnds, Query, OnlyAnswers, OnlyWalks
  <2>2. answer'.status # "packet" /\ (answer'.status = "done" => ask.cmd \notin {"packet", "cli_packet"})
    <3>1. CASE Find \/ Missing \/ Consumers \/ Impact \/ Trail \/ Classification \/ Query
      BY <2>1, <3>1 DEF Find, Missing, Consumers, Impact, Trail, Classification, Query, Asked,
                        Reply, AnswerFields
    <3>2. CASE ImpactEnds \/ TrailEnds
      BY <2>1, <3>2 DEF ImpactEnds, TrailEnds, Reply, AnswerFields, AnswersInv, Searching
    <3>3. CASE Classify \/ KnownEnds \/ TaintEnds
      BY <1>1, <2>1, <3>3 DEF Classify, KnownEnds, TaintEnds, RetrievalInv, Answering, Conclude,
                        Reply, AnswerFields
    <3>. QED
      BY <1>6, <3>1, <3>2, <3>3
  <2>. QED
    BY <1>1, <2>1, <2>2 DEF Assembling, PacketComplete
<1>7. CASE UNCHANGED vars
  <2>1. /\ Compiled(Request.spec)' = Compiled(Request.spec) /\ Request' = Request
    BY <1>7, RequestStays DEF vars
  <2>2. EvidenceError(order, walk.seen)' = EvidenceError(order, walk.seen)
    BY <1>7 DEF vars
  <2>3. Assembling'
    BY <1>7, <2>1, <2>2 DEF Assembling, vars
  <2>. QED
    BY <1>1, <1>7, <2>3, PacketKeeps DEF vars
<1>. QED
  BY <1>2, <1>3, <1>4, <1>5, <1>6, <1>7 DEF RetrievalNext

\* For every view, graph and bound, a packet whose receipt does not say
\* truncated holds all the context of the view's filter and nothing else.
THEOREM PacketsAlwaysComplete == RetrievalSpec => []PacketComplete
<1>1. PacketInv => PacketComplete
  BY DEF PacketInv
<1>2. RetrievalSpec => []PacketInv
  BY PacketInvStarts, PacketInvSteps, PTL DEF RetrievalSpec
<1>. QED
  BY <1>1, <1>2, PTL
=============================================================================
