----------------------------- MODULE ScanGraph -----------------------------
(***************************************************************************)
(* From a snapshot to the input of the knowledge graph, and from a change  *)
(* to the nodes it affects (bran/crates/bran-core/src/scan/graph_input.rs).*)
(* A node is named by the evidence its identity is computed from: a path,  *)
(* or the file, key, value and ordinal of a symbol or a test; the error of *)
(* two evidences with one digest is left out.                              *)
(***************************************************************************)
EXTENDS Scan

CONSTANTS
    MAX_MECHANICAL_ITEMS_PER_FILE,
    MAX_SEMANTIC_FACTS_PER_FILE,
    MAX_FIELDS,            \* of NodeFacts, as the next three
    MAX_VALUES_PER_FIELD,
    MAX_SEMANTIC_BYTES,    \* here tokens; a key is one token
    Unfit,                 \* the keys and values too long for a field
    KeyOrder          \* the keys of facts, in string order

Relationship == [dependency |-> "Dependency", import |-> "Dependency",
                 implementation |-> "Implementation", replacement |-> "Replacement",
                 supersedes |-> "Supersedes", validation |-> "Validation",
                 reachability |-> "Reachability", contradiction |-> "Contradiction",
                 conflict |-> "Conflict"]
Mechanical(fact) == fact.key \in DOMAIN Relationship \cup {"symbol", "test"}

KeyRank(key) == CHOOSE i \in DOMAIN KeyOrder : KeyOrder[i] = key

\* The facts of a report are sorted by key, then value.
FactsInOrder(facts) ==
    LET before(f) == {g \in facts : \/ KeyRank(g.key) < KeyRank(f.key)
                                    \/ g.key = f.key /\ Rank(g.value) < Rank(f.value)}
    IN [i \in 1 .. Cardinality(facts) |-> CHOOSE f \in facts : Cardinality(before(f)) = i - 1]

Evidence(path, fact, ordinal) == <<path, fact.key, fact.value, ordinal>>

MechanicalEdge(path, fact, ordinal, present) ==
    LET evidence == Evidence(path, fact, ordinal)
    IN [id |-> evidence, source |-> <<path>>,
        target |-> IF fact.key \in {"symbol", "test"} THEN evidence ELSE <<fact.value>>,
        certainty |-> IF fact.key \in {"symbol", "test"} \/ fact.value \in present
                      THEN "Known" ELSE "MissingTarget",
        relationship |-> CASE fact.key = "test" -> "Validation"
                           [] fact.key = "symbol" -> "Implementation"
                           [] OTHER -> Relationship[fact.key]]

\* The mechanical facts of a file that fit, by ordinal.
MechanicalItems(entry) ==
    LET all == SelectSeq(FactsInOrder(entry.metadata.facts), Mechanical)
    IN SubSeq(all, 1, IF Len(all) < MAX_MECHANICAL_ITEMS_PER_FILE
                      THEN Len(all) ELSE MAX_MECHANICAL_ITEMS_PER_FILE)

FileEdges(path, entry, present) ==
    LET items == MechanicalItems(entry)
    IN {MechanicalEdge(path, items[i], i, present) : i \in DOMAIN items}

\* Each key once, and each value of it.
SemanticBytes(fields) ==
    Cardinality({f.key : f \in fields})
      + MapThenSumSet(LAMBDA pair : Len(pair[2]), {<<f.key, f.value>> : f \in fields})

\* Two of the keys are left for the note that facts were omitted.
with_field_value(fields, fact) ==
    LET keys == {f.key : f \in fields}
        values == {f.value : f \in {f \in fields : f.key = fact.key}}
        fits == /\ fact.key \in keys \/ Cardinality(keys) < MAX_FIELDS - 2
                /\ {<<fact.key>>, fact.value} \cap Unfit = {}
                /\ \/ fact.value \in values
                   \/ /\ Cardinality(values) < MAX_VALUES_PER_FIELD
                      /\ SemanticBytes(fields \cup {fact}) <= MAX_SEMANTIC_BYTES
    IN IF fits THEN fields \cup {fact} ELSE fields

SemanticFields(entry) ==
    LET all == SelectSeq(FactsInOrder(entry.metadata.facts), LAMBDA f : ~Mechanical(f))
        seen == SubSeq(all, 1, IF Len(all) < MAX_SEMANTIC_FACTS_PER_FILE
                               THEN Len(all) ELSE MAX_SEMANTIC_FACTS_PER_FILE)
    IN FoldLeft(with_field_value, {}, seen)

Omitted(entry) ==
    Cardinality(entry.metadata.facts) - Len(MechanicalItems(entry)) - Cardinality(SemanticFields(entry))

\* No bytes are left for the note: there is no graph at all.
NoteRefused(entry) ==
    LET note == 4   \* bran.omitted_facts, its number, coverage, partial
    IN Omitted(entry) > 0 /\ SemanticBytes(SemanticFields(entry)) + note > MAX_SEMANTIC_BYTES

file_role(fields) ==
    CASE \E f \in fields : f.key = "status" /\ f.value = <<"archived">> -> "Archived"
      [] \E f \in fields : f.key = "type" /\ f.value = <<"generated">> -> "Generated"
      [] OTHER -> "Document"

FileNode(path, entry) ==
    LET fields == SemanticFields(entry)
    IN [id |-> <<path>>, role |-> file_role(fields), partial |-> Omitted(entry) > 0,
        facts |-> {<<f.key, f.value>> : f \in fields}]

SymbolNodes(path, entry) ==
    LET items == MechanicalItems(entry)
    IN {[id |-> Evidence(path, items[i], i), role |-> IF items[i].key = "test" THEN "Test" ELSE "Symbol"] :
          i \in {i \in DOMAIN items : items[i].key \in {"symbol", "test"}}}

graph_input(snapshot) ==
    LET present == DOMAIN snapshot.entries
    IN [files |-> {FileNode(p, snapshot.entries[p]) : p \in present},
        symbols |-> UNION {SymbolNodes(p, snapshot.entries[p]) : p \in present},
        edges |-> UNION {FileEdges(p, snapshot.entries[p], present) : p \in present}]

Dependencies_Only(graph, seed) ==  \* mutant: the edges out of a node only
    UNION {{e.source, e.target} : e \in {e \in graph.edges : e.source = seed}}
add_neighbors(graph, seed) ==
    UNION {{e.source, e.target} : e \in {e \in graph.edges : seed \in {e.source, e.target}}}

affected_graph_nodes(affected, previous, current) ==
    UNION {{<<a.path>>}
             \cup (IF a.previous # {} THEN add_neighbors(previous, <<a.path>>) ELSE {})
             \cup (IF a.current # {} THEN add_neighbors(current, <<a.path>>) ELSE {}) :
           a \in affected}

-----------------------------------------------------------------------------
Incident(graph, n) == {e \in graph.edges : n \in {e.source, e.target}}
About(graph, n) == {f \in graph.files : f.id = n} \cup {s \in graph.symbols : s.id = n}

Graphed(snapshot) == \A p \in DOMAIN snapshot.entries : ~NoteRefused(snapshot.entries[p])

GraphsCompare ==
    Graphed(known) /\ Graphed(known') /\ ~Collision(known.made \cup known'.made)

\* The nodes a change is said to affect are enough to bring a graph up to date, when
\* both snapshots have one and no two inputs share a digest: any node that is new, gone
\* or different, or that has an edge that is new, gone, or whose certainty changed
\* because its target came or went, is among them (affected_graph_nodes, graph_input).
NeighborsCovered ==
    [][Finish /\ job.op = "changed" /\ GraphsCompare =>
         LET old == graph_input(known)
             new == graph_input(known')
             nodes == UNION {{e.source, e.target} : e \in old.edges \cup new.edges}
                        \cup {f.id : f \in old.files \cup new.files}
         IN {n \in nodes : About(old, n) # About(new, n) \/ Incident(old, n) # Incident(new, n)}
              \subseteq affected_graph_nodes(report'.affected, old, new)]_vars
=============================================================================
