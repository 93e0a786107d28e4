---------------------------- MODULE MCRetrieval ----------------------------
EXTENDS Retrieval

\* Four nodes; locators are the numbers 11 .. 14, parts of texts 21 .. 23.
MCHolds == {<<1, 21>>, <<11, 21>>, <<12, 21>>, <<13, 22>>, <<14, 22>>, <<11, 22>>, <<31, 23>>}
MCRefused == {24}

Node(n, role, facts) ==
    [role |-> role, source |-> 30 + (n % 2), locator |-> 10 + n, confidence |-> 25 * (n % 3),
     facts |-> facts, bytes |-> n, content |-> 3]

Casts ==
    {<<"Entrypoint", "Document", "Symbol", "Archived">>, <<"Document", "Document", "Test", "Document">>,
     <<"Document", "Generated", "Symbol", "Document">>}
Covered(n, cast) == IF n = 2 /\ cast[3] = "Test" THEN {<<"coverage", Partial>>} ELSE {}

E(id, source, target, certainty, relationship) ==
    {[id |-> id, source |-> source, target |-> target, certainty |-> certainty,
      relationship |-> relationship]}

Known(id, source, target) == E(id, source, target, "Known", "Dependency")

EdgeSets ==
    {Known(4, 3, 4) \cup a \cup b \cup c \cup d \cup e :
        a \in {Known(1, 1, 2), E(1, 1, 2, "Dynamic", "Reachability")},
        b \in {{}, Known(2, 2, 3), E(2, 2, 3, "Known", "Conflict")},
        c \in {{}, Known(3, 1, 3)},
        d \in {{}, Known(5, 4, 2)},
        e \in {{}, E(6, 3, 5, "MissingTarget", "Dependency")}}

GraphOf(cast, edges) ==
    [nodes |-> 1 .. 4, edges |-> edges, node |-> [n \in 1 .. 4 |-> Node(n, cast[n], Covered(n, cast))]]
Empty == [nodes |-> {}, edges |-> {}, node |-> <<>>]
MCDoctorGraph ==
    [nodes |-> {1}, edges |-> {}, node |-> [n \in {1} |-> Node(1, "Document", {})]]
\* A file imports or replaces files, and has one symbol.
MCScannedGraphs ==
    {GraphOf(<<"Document", role, "Document", "Symbol">>,
             a \cup b \cup c \cup E(4, 3, 4, "Known", "Implementation")) :
        role \in {"Document", "Archived", "Generated"},
        a \in {{}, Known(1, 1, 2)}, b \in {{}, E(2, 2, 3, "Known", "Conflict")},
        c \in {{}, Known(3, 1, 3), E(3, 1, 5, "MissingTarget", "Replacement")}}
MCGraphs ==
    {Empty, MCDoctorGraph} \cup MCScannedGraphs
        \cup {GraphOf(cast, edges) : cast \in Casts, edges \in EdgeSets}

All == [kind |-> "All"]
Located(text) == [kind |-> "ProvenanceLocatorContains", text |-> text]
NotOdd == [kind |-> "Not", of |-> {[kind |-> "ProvenanceSourceContains", text |-> 23]}]
Either == [kind |-> "AnyOf", of |-> {NotOdd, Located(21), [kind |-> "IdPrefix", text |-> 21]}]
Both == [kind |-> "AllOf", of |-> {Either, [kind |-> "MinimumConfidence", value |-> 25],
                                   [kind |-> "Role", role |-> "Document"]}]
Deep == [kind |-> "Not", of |-> {[kind |-> "Not", of |-> {Both}]}]
Keyless == [kind |-> "SemanticFieldValue", key |-> "", text |-> 21]
Marked == [kind |-> "SemanticFieldValue", key |-> "coverage", text |-> Partial]
RECURSIVE WithNested(_)
WithNested(filters) ==
    IF filters = {} THEN {} ELSE filters \cup WithNested(UNION {Nested(f) : f \in filters})
MCFilters == WithNested({All, Deep, Marked, Keyless} \cup {Located(t) : t \in 21 .. 24})

Fields == <<[kind |-> "SemanticField", key |-> "coverage"]>>
Declared(source, filter, sort, grouping, items, bytes) ==
    [source |-> source, filter |-> filter, sort |-> [kind |-> sort, key |-> "coverage"],
     grouping |-> [kind |-> grouping, key |-> "coverage"], fields |-> Fields,
     maxItems |-> items, maxBytes |-> bytes]
Views ==
    {Declared([kind |-> "NodeIds", of |-> {1}], All, "NodeId", "None", 4, 9),
     Declared([kind |-> "Roles", of |-> {"Document", "Entrypoint"}], Either, "ConfidenceDescending", "Role", 1, 30),
     Declared([kind |-> "All"], Both, "ProvenanceSource", "ProvenanceSource", 4, 30),
     Declared([kind |-> "All"], Deep, "Role", "SemanticField", 4, 30),
     Declared([kind |-> "ProvenanceSourceContains", text |-> 23], Marked, "SemanticField", "None", 4, 30)}

\* All evidence alike, or the first required and the others in another order.
Evidence(ids, alike) ==
    {[id |-> n, priority |-> IF alike THEN "Recommended" ELSE IF n = 1 THEN "Required" ELSE "Related",
      authority |-> IF alike THEN 1 ELSE n % 2, freshness |-> n % 3, bytes |-> 3 + n,
      anchors |-> IF alike THEN "none" ELSE "held"] : n \in ids}
Unanchored == {[id |-> 1, priority |-> "Required", authority |-> 1, freshness |-> 1, bytes |-> 1,
                anchors |-> "none"]}

PacketQuestions ==
    {[cmd |-> "packet", spec |-> v, evidence |-> e, maxItems |-> l[1], maxBytes |-> l[2],
      ceiling |-> l[3], maxDepth |-> d[1], maxNodes |-> d[2]] :
        v \in Views,
        e \in {Evidence(ids, alike) : ids \in {1 .. 4, 1 .. 3, {1, 2}}, alike \in BOOLEAN} \cup {Unanchored},
        l \in {<<4, 30, NoCeiling>>, <<4, 12, 2>>, <<1, 30, NoCeiling>>, <<4, 3, NoCeiling>>},
        d \in {<<3, 3>>, <<1, 2>>, <<3, 1>>}}

\* Declarations and bounds that are refused: a key, the roles, the identities,
\* the depth and the nodes of the closure.
Mute == Declared([kind |-> "All"], All, "NodeId", "None", 4, 30)
RefusedQuestions ==
    {[cmd |-> "packet", spec |-> q[1], evidence |-> {}, maxItems |-> 4, maxBytes |-> 30,
      ceiling |-> NoCeiling, maxDepth |-> q[2], maxNodes |-> q[3]] :
        q \in {<<[Mute EXCEPT !.grouping = [kind |-> "SemanticField", key |-> ""]], 3, 3>>,
               <<[Mute EXCEPT !.fields = <<[kind |-> "SemanticField", key |-> ""]>>], 3, 3>>,
               <<[Mute EXCEPT !.source = [kind |-> "SemanticFieldValue", key |-> "", text |-> 21]], 3, 3>>,
               <<[Mute EXCEPT !.filter = Keyless], 3, 3>>,
               <<[Mute EXCEPT !.source = [kind |-> "Roles", of |-> Roles]], 3, 3>>,
               <<[Mute EXCEPT !.source = [kind |-> "NodeIds", of |-> 1 .. 4]], 3, 3>>,
               <<Mute, HardMaxDepth + 1, 3>>, <<Mute, 3, HardMaxNodes + 1>>, <<Mute, 3, 0>>}}

CliPackets == {[cmd |-> "cli_packet", text |-> t] : t \in 21 .. 22}
MCQuestions ==
    {[cmd |-> c, node |-> n, max |-> m, maxDepth |-> d] :
        c \in {"impact", "consumers", "reachability"}, n \in {2, 3, 5}, m \in {1, 3}, d \in {1, 4}}
    \cup {[cmd |-> "trail", node |-> n, target |-> t, max |-> m, maxDepth |-> d] :
        n \in {1, 5}, t \in {1, 4, 5}, m \in {2, 4}, d \in {1, 4}}
    \cup {[cmd |-> "zombies", max |-> m, maxDepth |-> d] : m \in {1, 4}, d \in {1, 4}}
    \cup {[cmd |-> "find", needle |-> 21, max |-> m] : m \in {0, 2}}
    \cup {[cmd |-> "cli_query", text |-> t] : t \in {21, 24}}
    \cup PacketQuestions \cup RefusedQuestions \cup CliPackets \cup {[cmd |-> "doctor"]}
=============================================================================
