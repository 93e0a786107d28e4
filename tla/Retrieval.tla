----------------------------- MODULE Retrieval -----------------------------
(***************************************************************************)
(* The read-only questions to a KnowledgeGraph, each answered once: find,  *)
(* consumers, impact, reachability, zombies and trail of graph/query.rs,   *)
(* a context packet for a compiled view (packet/mod.rs over view/mod.rs),  *)
(* and the three commands of the CLI that put them together, `bran query', *)
(* `bran packet' and the packet round trip of `bran doctor'                *)
(* (bran/crates/bran-cli/src/main.rs).                                     *)
(*                                                                         *)
(* A question is a record with its command as `cmd'.  An answer that takes *)
(* a walk goes through statuses of its own; `at' is the node in question.  *)
(***************************************************************************)
EXTENDS Packet, View

CONSTANTS
    Questions, Partial,         \* the text "partial"
    ScannedGraphs,              \* the graphs that a scan can build
    DoctorGraph,                \* the graph built into the doctor
    CliItems, CliBytes,         \* max_items, max_bytes of the CLI's views
    CliPacketItems, CliPacketBytes, CliDepth, CliNodes,
    HardMaxDepth, HardMaxNodes

\* Bounds, lengths, confidences and what evidence is weighed by are unsigned in
\* the code; a sort is of one of five kinds.
ASSUME QuestionsAssumption ==
    /\ ScannedGraphs \cup {DoctorGraph} \subseteq Graphs
    /\ \A g \in Graphs : \A n \in g.nodes :
          /\ g.node[n].role \in Roles
          /\ {g.node[n].source, g.node[n].confidence, g.node[n].bytes, g.node[n].content} \subseteq Nat
          /\ \A f \in g.node[n].facts : f[2] \in Nat
    /\ {CliItems, CliBytes, CliPacketItems, CliPacketBytes, CliDepth, CliNodes} \subseteq Nat
    /\ \A q \in Questions :
          /\ q.cmd \in {"impact", "trail", "reachability", "zombies"} => q.maxDepth \in Nat
          /\ q.cmd = "packet" =>
                /\ {q.maxItems, q.maxBytes, q.maxDepth, q.maxNodes, q.spec.maxItems, q.spec.maxBytes}
                      \subseteq Nat
                /\ q.ceiling \in Nat \cup {NoCeiling}
                /\ q.spec.sort.kind \in SortKinds
                /\ IsFiniteSet(q.evidence)
                /\ \A e \in q.evidence : /\ {e.id, e.authority, e.freshness, e.bytes} \subseteq Nat
                                         /\ e.priority \in DOMAIN PriorityRank

VARIABLES ask, answer

vars == <<graph, walk, order, pack, ask, answer>>

NoWalk == [Walk({}, ById) EXCEPT !.status = "none"]

RetrievalInit ==
    /\ ask \in Questions
    /\ graph \in CASE ask.cmd = "doctor" -> {DoctorGraph}
                   [] ask.cmd \in {"cli_query", "cli_packet"} -> ScannedGraphs
                   [] OTHER -> Graphs
    /\ walk = NoWalk
    /\ order = NoOrder
    /\ pack = NoPack
    /\ answer = [status |-> "asked", outcome |-> "none", items |-> <<>>, truncated |-> FALSE,
                 at |-> Nowhere]

Reply(outcome, items, truncated) ==
    answer' = [answer EXCEPT !.status = "done", !.outcome = outcome, !.items = items,
                             !.truncated = truncated]

Asked(cmd) == ask.cmd = cmd /\ answer.status = "asked"
Sorted(ids) == SetToSortSeq(ids, LAMBDA a, b : a < b)
UpTo(items, max) == SubSeq(items, 1, Least(Len(items), max))
OnlyAnswers == UNCHANGED <<graph, walk, order, pack, ask>>
OnlyWalks == UNCHANGED <<graph, order, pack, ask>>

-----------------------------------------------------------------------------
(* graph/query.rs *)

\* matches_node
Matches(n) ==
    \/ <<n, ask.needle>> \in Holds
    \/ <<graph.node[n].source, ask.needle>> \in Holds
    \/ <<graph.node[n].locator, ask.needle>> \in Holds

Find ==
    /\ Asked("find")
    /\ LET matching == Sorted({n \in graph.nodes : Matches(n)})
       IN  Reply("Found", UpTo(matching, ask.max), Len(matching) > ask.max)
    /\ OnlyAnswers

Missing ==
    /\ answer.status = "asked"
    /\ \/ /\ ask.cmd \in {"consumers", "reachability", "impact", "trail"}
          /\ ask.node \notin graph.nodes
          /\ Reply("Missing", <<ask.node>>, FALSE)
       \/ /\ ask.cmd = "trail"
          /\ ask.node \in graph.nodes /\ ask.target \notin graph.nodes
          /\ Reply("MissingTarget", <<ask.target>>, FALSE)
    /\ OnlyAnswers

\* Direct consumers, whatever the certainty of their edges.
Consumers ==
    /\ Asked("consumers") /\ ask.node \in graph.nodes
    /\ LET edges == Sorted({e.id : e \in {e \in graph.edges : e.target = ask.node}})
       IN  Reply("Found", UpTo(edges, ask.max), Len(edges) > ask.max)
    /\ OnlyAnswers

Impact ==
    /\ Asked("impact") /\ ask.node \in graph.nodes
    /\ walk' = [Walk({ask.node}, ById) EXCEPT
                   !.reverse = TRUE, !.stop = TRUE, !.maxDepth = ask.maxDepth, !.maxItems = ask.max]
    /\ answer' = [answer EXCEPT !.status = "impact"]
    /\ OnlyWalks

\* The items are what the walk found, in the order of their discovery.
ImpactEnds ==
    /\ answer.status = "impact" /\ walk.status \in {"exhausted", "stopped"}
    /\ Reply("Found", walk.trace, walk.truncated)
    /\ OnlyAnswers

Trail ==
    /\ Asked("trail") /\ {ask.node, ask.target} \subseteq graph.nodes
    /\ IF ask.node = ask.target
       THEN Reply("Trail", <<>>, FALSE) /\ UNCHANGED walk
       ELSE /\ walk' = [Walk({ask.node}, ById) EXCEPT
                           !.byTarget = TRUE, !.goal = ask.target,
                           !.maxDepth = ask.maxDepth, !.maxItems = ask.max]
            /\ answer' = [answer EXCEPT !.status = "trail"]
    /\ OnlyWalks

Via(n) == CHOOSE e \in ToSet(walk.trace) : e.target = n

\* rebuild_trail: the edges from the start to the target.
Trailed ==
    LET length == walk.depths[ask.target]
        back[i \in 1 .. length] ==
            Via(IF i = 1 THEN ask.target ELSE back[i - 1].source)
    IN  [i \in 1 .. length |-> back[length + 1 - i]]

TrailEnds ==
    /\ answer.status = "trail" /\ walk.status \in {"found", "exhausted"}
    /\ IF walk.status = "found" THEN Reply("Trail", Trailed, walk.truncated)
                                ELSE Reply("Unreachable", <<>>, walk.truncated)
    /\ OnlyAnswers

Immediate == [Entrypoint |-> "Active", Test |-> "TestOnly", Generated |-> "Generated"]

\* The end of one classification: an answer, or one round of the loop of zombies.
Conclude(outcome, truncated) ==
    IF ask.cmd = "reachability" THEN Reply(outcome, <<ask.node>>, truncated)
    ELSE LET zombie == outcome = "Unreachable" /\ ~truncated
             full == Len(answer.items) = ask.max
             later == {n \in graph.nodes : n > answer.at}
             items == IF zombie /\ ~full THEN Append(answer.items, answer.at) ELSE answer.items
         IN  IF (zombie /\ full) \/ later = {}
             THEN Reply("Found", items, zombie /\ full)
             ELSE answer' = [answer EXCEPT !.status = "classify", !.items = items, !.at = Min(later)]

Classification ==
    /\ \/ Asked("reachability") /\ ask.node \in graph.nodes
          /\ answer' = [answer EXCEPT !.status = "classify", !.at = ask.node]
       \/ Asked("zombies") /\ graph.nodes # {}
          /\ answer' = [answer EXCEPT !.status = "classify", !.at = Min(graph.nodes)]
       \/ Asked("zombies") /\ graph.nodes = {} /\ Reply("Found", <<>>, FALSE)
    /\ OnlyAnswers

\* known_distance_to: from all entry points at once, along Known edges.
KnownWalk ==
    [Walk({n \in graph.nodes : graph.node[n].role = "Entrypoint"}, ById) EXCEPT
        !.goal = answer.at, !.maxDepth = ask.maxDepth]

Classify ==
    /\ answer.status = "classify"
    /\ LET node == graph.node[answer.at]
       IN  IF contains_value(node, "coverage", Partial)
           THEN Conclude("Unknown", FALSE) /\ UNCHANGED walk
           ELSE IF node.role \in DOMAIN Immediate
           THEN Conclude(Immediate[node.role], FALSE) /\ UNCHANGED walk
           ELSE walk' = KnownWalk /\ answer' = [answer EXCEPT !.status = "known"]
    /\ OnlyWalks

Uncertain == {e \in graph.edges : e.certainty # "Known"}
TaintedSources == {e.source : e \in Uncertain}  \* mutant: the targets are forgotten
Tainted == UNION {{e.source, e.target} \cap graph.nodes : e \in Uncertain}

\* uncertain_path_to: from both ends of every edge that is not Known, in the
\* order of those edges.
TaintWalk ==
    LET ends(n) == {2 * e.id : e \in {e \in Uncertain : e.source = n}}
                   \cup {2 * e.id + 1 : e \in {e \in Uncertain : e.target = n}}
        last == 2 * M + 1
    IN  [Walk(Tainted, [n \in Tainted |-> Min(ends(n)) - last]) EXCEPT
            !.goal = answer.at, !.late = TRUE, !.maxDepth = ask.maxDepth]

KnownEnds ==
    /\ answer.status = "known" /\ walk.status \in {"found", "exhausted"}
    /\ IF walk.status = "found" THEN Conclude("Supporting", FALSE) /\ UNCHANGED walk
       ELSE IF walk.truncated THEN Conclude("Unknown", TRUE) /\ UNCHANGED walk
       ELSE walk' = TaintWalk /\ answer' = [answer EXCEPT !.status = "tainted"]
    /\ OnlyWalks

TaintEnds ==
    /\ answer.status = "tainted" /\ walk.status \in {"found", "exhausted"}
    /\ Conclude(IF walk.status = "found" \/ walk.truncated THEN "Unknown" ELSE "Unreachable",
                walk.truncated)
    /\ OnlyAnswers

-----------------------------------------------------------------------------
(* Packets: assemble over a compiled view, and the commands of the CLI. *)

\* The declaration of do_query and do_packet.
CliView(text, items, bytes) ==
    [source |-> [kind |-> "Roles", of |-> {"Document"}],
     filter |-> IF text = 0 THEN [kind |-> "All"]
                            ELSE [kind |-> "ProvenanceLocatorContains", text |-> text],
     sort |-> [kind |-> "NodeId"], grouping |-> [kind |-> "None"],
     fields |-> <<[kind |-> "ProvenanceLocator"], [kind |-> "NodeId"]>>, maxItems |-> items, maxBytes |-> bytes]

AllEvidence ==
    {[id |-> n, priority |-> "Recommended", authority |-> 100, freshness |-> 1, anchors |-> "none",
      bytes |-> graph.node[n].bytes + graph.node[n].content] : n \in graph.nodes}

\* What a packet is asked of the view, its evidence and limits.
Request ==
    CASE ask.cmd = "packet" -> ask
      [] ask.cmd = "cli_packet" ->
            [spec |-> CliView(ask.text, CliItems, CliBytes),
             evidence |-> AllEvidence,
             maxItems |-> CliPacketItems, maxBytes |-> CliPacketBytes, ceiling |-> NoCeiling,
             maxDepth |-> CliDepth, maxNodes |-> CliNodes]
      [] ask.cmd = "doctor" ->
            [spec |-> CliView(0, 1, CliBytes),
             evidence |-> AllEvidence,
             maxItems |-> 1, maxBytes |-> CliBytes, ceiling |-> NoCeiling,
             maxDepth |-> 1, maxNodes |-> 1]

Compiled(spec) == compile(spec, graph.nodes, graph.node)

\* do_query: the selected documents; that the view was cut is not passed on.
Query ==
    /\ Asked("cli_query")
    /\ LET spec == CliView(ask.text, CliItems, CliBytes)
       IN  IF validate(spec) THEN Reply("ok", Compiled(spec).items, FALSE)
                             ELSE Reply("view_error", <<>>, FALSE)
    /\ OnlyAnswers

\* DependencyClosureLimits::new
ClosureLimited(request) ==
    request.maxDepth <= HardMaxDepth /\ request.maxNodes \in 1 .. HardMaxNodes

AskPacket ==
    /\ ask.cmd \in {"packet", "cli_packet", "doctor"} /\ answer.status = "asked"
    /\ LET view == Compiled(Request.spec)
       IN  IF ~validate(Request.spec) \/ ~ClosureLimited(Request)
           THEN Reply("refused", <<>>, FALSE) /\ UNCHANGED <<graph, walk, order, pack>>
           ELSE /\ BeginPacket([seeds |-> ToSet(view.items), evidence |-> Request.evidence,
                                maxItems |-> Request.maxItems, maxBytes |-> Request.maxBytes,
                                ceiling |-> Request.ceiling, maxDepth |-> Request.maxDepth,
                                maxNodes |-> Request.maxNodes, viewItems |-> view.maxItems,
                                viewBytes |-> view.maxBytes, viewTruncated |-> view.truncated])
                /\ answer' = [answer EXCEPT !.status = "packet"]
    /\ UNCHANGED ask

PacketEnds ==
    /\ answer.status = "packet" /\ pack.status \in {"delivered", "failed"}
    /\ LET items == Arranged(pack.selected, {p \in pack.selected \X pack.selected :
                                                p[1] # p[2] /\ Precedes(p[1], p[2])})
       IN  IF pack.status = "failed" \/ (ask.cmd = "doctor" /\ Len(items) # 1)
           THEN Reply(pack.error, <<>>, FALSE)
           ELSE Reply("ok", [i \in DOMAIN items |-> items[i].id], PacketTruncated)
    /\ OnlyAnswers

-----------------------------------------------------------------------------
RetrievalNext ==
    \/ TraversalNext /\ UNCHANGED <<order, pack, ask, answer>>
    \/ PacketNext /\ UNCHANGED <<ask, answer>>
    \/ Find \/ Missing \/ Consumers \/ Impact \/ ImpactEnds \/ Trail \/ TrailEnds
    \/ Classification \/ Classify \/ KnownEnds \/ TaintEnds
    \/ Query \/ AskPacket \/ PacketEnds

RetrievalSpec == RetrievalInit /\ [][RetrievalNext]_vars

-----------------------------------------------------------------------------
(* Properties. *)

\* Known edges, whatever their relationship, lead nowhere out of X.
KnownClosed(X) ==
    \A e \in graph.edges : e.certainty = "Known" /\ e.source \in X => e.target \in X

\* Nothing that an entry point reaches, that an uncertain edge touches or that
\* is reached from there, whose role or partial coverage speaks for it.
Abandoned(n) ==
    /\ graph.node[n].role \notin {"Entrypoint", "Test", "Generated"}
    /\ <<"coverage", Partial>> \notin graph.node[n].facts
    /\ \E X \in SUBSET graph.nodes :
          /\ n \notin X /\ KnownClosed(X)
          /\ \A m \in graph.nodes : graph.node[m].role = "Entrypoint" => m \in X
          /\ \A e \in graph.edges : e.certainty # "Known" => {e.source, e.target} \cap graph.nodes \subseteq X

\* A zombie is proposed for removal, so it must be one: only abandoned nodes
\* are listed, however the bounds cut the two walks, and a list that is not
\* cut by depth or length has all of them (zombies over reachability).
ZombiesExact ==
    ask.cmd = "zombies" =>
        /\ \A i \in DOMAIN answer.items : Abandoned(answer.items[i])
        /\ answer.status = "done" /\ ~answer.truncated /\ ask.maxDepth >= N =>
              {n \in graph.nodes : Abandoned(n)} \subseteq ToSet(answer.items)

\* The nodes at most k Known edges away.
Within(edges, n) ==
    LET ball[k \in 0 .. N] ==
            IF k = 0 THEN {n}
            ELSE ball[k - 1] \cup {e.target : e \in {e \in edges :
                                        e.certainty = "Known" /\ e.source \in ball[k - 1]}}
    IN  ball

\* A trail is a path of Known edges from the start to the target and no path is
\* shorter; that there is none is said untruncated only when there is none.
TrailShortest ==
    ask.cmd = "trail" /\ answer.status = "done" =>
        /\ answer.outcome = "Trail" =>
              LET path == answer.items
                  last == IF path = <<>> THEN ask.node ELSE path[Len(path)].target
              IN  /\ last = ask.target
                  /\ \A i \in DOMAIN path :
                        /\ path[i] \in graph.edges /\ path[i].certainty = "Known"
                        /\ path[i].source = IF i = 1 THEN ask.node ELSE path[i - 1].target
                  /\ path # <<>> => ask.target \notin Within(graph.edges, ask.node)[Len(path) - 1]
        /\ answer.outcome = "Unreachable" /\ ~answer.truncated =>
              ask.target \notin Within(graph.edges, ask.node)[N]

\* What the commands that answer from one walk say is what the graph says.
AnswersExact == ZombiesExact /\ TrailShortest

\* A packet whose receipt does not say truncated holds all the context of the
\* view's filter: every node it chose and every node those depend on, through
\* the view's limits, the closure's bounds and the selection.
PacketComplete ==
    ask.cmd \in {"packet", "cli_packet"} /\ answer.status = "done"
        /\ answer.outcome = "ok" /\ ~answer.truncated =>
        ToSet(answer.items) =
            {n \in graph.nodes :
                \A X \in SUBSET graph.nodes :
                    /\ Chosen(Request.spec, graph.nodes, graph.node) \subseteq X
                    /\ \A e \in graph.edges :
                          e.certainty = "Known" /\ e.relationship \in PositiveContext
                              /\ e.source \in X => e.target \in X
                    => n \in X}

\* The skill sends an agent to `bran packet' before it searches the repository:
\* the command answers a query that selects documents.
PacketAnswersQuery ==
    ask.cmd = "cli_packet" /\ answer.status = "done" => answer.outcome = "ok"
=============================================================================
