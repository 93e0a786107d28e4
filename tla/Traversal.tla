----------------------------- MODULE Traversal -----------------------------
(***************************************************************************)
(* The breadth-first walks over a KnowledgeGraph: impact, the two walks of *)
(* reachability and trail (bran/crates/bran-core/src/graph/query.rs), and  *)
(* the dependency closure of a context packet (packet/mod.rs).             *)
(*                                                                         *)
(* The five loops differ in their seeds, the direction and kind of the     *)
(* edges they follow, what they do at a bound and when they test for the   *)
(* node they look for; those are fields of `walk', next to the queue, the  *)
(* set of seen nodes and the results.  A step is one iteration of the      *)
(* outer loop (Pop) or of the inner one (Relax).                           *)
(*                                                                         *)
(* The queue is a set of [node, depth, turn]: the least turn is in front.  *)
(* The turns of seeds are not positive, what is found later comes after.   *)
(***************************************************************************)
EXTENDS Integers, FiniteSets, Sequences

CONSTANTS
    N, M,       \* nodes are identified by 1 .. N, edges by 1 .. M, in their order
    Graphs      \* the graphs asked about

Nodes == 1 .. N
Nowhere == 0    \* no node: the goal of a walk that has none

Certainties == {"Known", "Dynamic", "Unknown", "MissingTarget"}
PositiveContext == {"Dependency", "Implementation", "Replacement", "Supersedes",
                    "Validation", "Reachability"}
Relationships == PositiveContext \cup {"Unspecified", "Contradiction", "Conflict"}
Roles == {"Document", "Section", "Symbol", "External", "Entrypoint", "Test",
          "Generated", "Archived"}

Edge == [id : 1 .. M, source : Nodes, target : Nat, certainty : Certainties,
         relationship : Relationships]

\* What KnowledgeGraph::build accepts: a source that is a node, a target that
\* is a node unless the edge says it is missing, one edge to an identity.
Builds(g, maxNodes, maxEdges) ==
    /\ Cardinality(g.nodes) <= maxNodes
    /\ Cardinality(g.edges) <= maxEdges
    /\ \A e \in g.edges : /\ e.source \in g.nodes
                          /\ e.target \in g.nodes <=> e.certainty # "MissingTarget"
                          /\ \A f \in g.edges : e.id = f.id => e = f

ASSUME GraphAssumption ==
    /\ N \in Nat /\ M \in Nat
    /\ \A g \in Graphs :
          /\ g.nodes \subseteq Nodes
          /\ g.edges \subseteq Edge
          /\ Builds(g, Cardinality(g.nodes), Cardinality(g.edges))

VARIABLES graph, walk

walkVars == <<graph, walk>>

\* A walk about to start, with no bounds and no goal; `rank' orders its seeds.
Walk(seeds, rank) ==
    [seeds |-> seeds, reverse |-> FALSE, context |-> FALSE, stop |-> FALSE,
     late |-> FALSE, byTarget |-> FALSE, goal |-> Nowhere, maxDepth |-> N, maxItems |-> N,
     status |-> "walking", seen |-> seeds, found |-> 0, depths |-> [n \in seeds |-> 0],
     trace |-> <<>>, at |-> [node |-> Nowhere, depth |-> 0], pending |-> {}, truncated |-> FALSE,
     queue |-> {[node |-> s, depth |-> 0, turn |-> rank[s]] : s \in seeds}]

ById == [n \in Nodes |-> n - N]

From(w, e) == IF w.reverse THEN e.target ELSE e.source
Onto(w, e) == IF w.reverse THEN e.source ELSE e.target

FollowsAny(w, e) ==  \* mutant: any certainty
    w.context => e.relationship \in PositiveContext
Follows(w, e) ==
    /\ e.certainty = "Known"
    /\ w.context => e.relationship \in PositiveContext

\* The order in which a loop takes the edges of a node.
Before(w, e, f) ==
    IF w.byTarget /\ e.target # f.target THEN e.target < f.target ELSE e.id <= f.id

InFront(q) == \A r \in walk.queue : q.turn <= r.turn

Pop(q) ==
    /\ walk.status = "walking" /\ walk.pending = {}
    /\ q \in walk.queue /\ InFront(q)
    /\ walk' = [walk EXCEPT
          !.queue = @ \ {q},
          !.at = [node |-> q.node, depth |-> q.depth],
          !.pending = {e \in graph.edges : From(walk, e) = q.node},
          !.status = IF walk.late /\ q.node = walk.goal THEN "found" ELSE @]
    /\ UNCHANGED graph

AtBound == walk.at.depth = walk.maxDepth \/ walk.found = walk.maxItems

CutOffQuietly(e) ==  \* mutant: the bound is not reported
    walk' = [walk EXCEPT !.pending = @ \ {e},
                         !.status = IF walk.stop THEN "stopped" ELSE @]
\* The end of a loop at an edge it may not follow any more: impact returns,
\* the others only remember that something was left out.
CutOff(e) ==
    walk' = [walk EXCEPT !.pending = @ \ {e}, !.truncated = TRUE,
                         !.status = IF walk.stop THEN "stopped" ELSE @]

Discover(e) ==
    LET n == Onto(walk, e)
        depth == walk.at.depth + 1
    IN  walk' = [walk EXCEPT
            !.pending = @ \ {e},
            !.seen = @ \cup {n},
            !.found = @ + 1,
            !.depths = [m \in walk.seen \cup {n} |-> IF m = n THEN depth ELSE @[m]],
            !.trace = Append(@, e),
            !.queue = @ \cup {[node |-> n, depth |-> depth, turn |-> 1 + walk.found]},
            !.status = IF ~walk.late /\ n = walk.goal THEN "found" ELSE @]

Relax(e) ==
    /\ walk.status = "walking"
    /\ e \in walk.pending
    /\ \A f \in walk.pending : Before(walk, e, f)
    /\ \/ /\ ~Follows(walk, e) \/ Onto(walk, e) \in walk.seen
          /\ walk' = [walk EXCEPT !.pending = @ \ {e}]
       \/ /\ Follows(walk, e) /\ Onto(walk, e) \notin walk.seen
          /\ IF AtBound THEN CutOff(e) ELSE Discover(e)
    /\ UNCHANGED graph

Exhaust ==
    /\ walk.status = "walking" /\ walk.pending = {} /\ walk.queue = {}
    /\ walk' = [walk EXCEPT !.status = "exhausted"]
    /\ UNCHANGED graph

TraversalNext ==
    \/ \E q \in walk.queue : Pop(q)
    \/ \E e \in walk.pending : Relax(e)
    \/ Exhaust

-----------------------------------------------------------------------------
(* Properties. *)

\* No Known edge, of a positive relationship where only those count, leaves X.
Closed(X) ==
    \A e \in graph.edges :
        /\ e.certainty = "Known"
        /\ walk.context => e.relationship \in PositiveContext
        /\ From(walk, e) \in X
        => Onto(walk, e) \in X

\* What a walk has seen is connected to its seeds: it lies in every closed
\* set that holds them.
WalkSound ==
    \A X \in SUBSET Nodes : walk.seeds \subseteq X /\ Closed(X) => walk.seen \subseteq X

\* A walk says that it left something out exactly when it did: with WalkSound,
\* the result of a walk that ended untruncated is all that its seeds reach.
TruncationExact ==
    walk.status \in {"exhausted", "stopped"} => (walk.truncated <=> ~Closed(walk.seen))
=============================================================================
