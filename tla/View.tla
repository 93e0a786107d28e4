-------------------------------- MODULE View --------------------------------
(***************************************************************************)
(* ViewCompiler (bran/crates/bran-core/src/view/mod.rs): a declaration is  *)
(* validated, its source and filter select nodes, a sort orders them and   *)
(* two limits cut the list.                                                *)
(*                                                                         *)
(* A node is a record [role, source, locator, confidence, facts, bytes].   *)
(* Texts are numbers in the order of the strings, Holds the pairs of a     *)
(* text and a part of it; facts is a set of <<key, value>> pairs, bytes    *)
(* the length of the canonical identity and provenance components.         *)
(***************************************************************************)
EXTENDS Integers, FiniteSets, SequencesExt, FiniteSetsExt

CONSTANTS
    Filters,            \* the filters, with every filter nested in one of them
    Holds, Refused,     \* pairs <<text, part>>; texts that are blank or too long
    RefusedKeys,        \* semantic keys that are blank or too long
    MaxFilterDepth, MaxFilterClauses, MaxSourceIds, MaxSourceRoles,
    MaxFields, MaxOutputItems, MaxOutputBytes

Nested(filter) == IF filter.kind \in {"AllOf", "AnyOf", "Not"} THEN filter.of ELSE {}

ASSUME FiltersAssumption == \A f \in Filters : Nested(f) \subseteq Filters

\* role_name, in the order of the names.
RoleNames == <<"Archived", "Document", "Entrypoint", "External", "Generated",
               "Section", "Symbol", "Test">>
RoleRank(role) == CHOOSE i \in DOMAIN RoleNames : RoleNames[i] = role

contains_value(node, key, value) == <<key, value>> \in node.facts

\* NodeFacts::values(key).first(), 0 for no value.
FirstValue(node, key) ==
    LET values == {f[2] : f \in {f \in node.facts : f[1] = key}}
    IN  IF values = {} THEN 0 ELSE Min(values)

source_matches(src, id, node) ==
    \/ src.kind = "All"
    \/ src.kind = "NodeIds" /\ id \in src.of
    \/ src.kind = "Roles" /\ node.role \in src.of
    \/ src.kind = "ProvenanceSourceContains" /\ <<node.source, src.text>> \in Holds
    \/ src.kind = "SemanticFieldValue" /\ contains_value(node, src.key, src.text)

filter_matches(filter, id, node) ==
    LET matches[f \in Filters] ==
            CASE f.kind = "All" -> TRUE
              [] f.kind = "Role" -> node.role = f.role
              [] f.kind = "IdPrefix" -> <<id, f.text>> \in Holds
              [] f.kind = "ProvenanceSourceContains" -> <<node.source, f.text>> \in Holds
              [] f.kind = "ProvenanceLocatorContains" -> <<node.locator, f.text>> \in Holds
              [] f.kind = "MinimumConfidence" -> node.confidence >= f.value
              [] f.kind = "SemanticFieldValue" -> contains_value(node, f.key, f.text)
              [] f.kind = "AllOf" -> \A g \in f.of : matches[g]
              [] f.kind = "AnyOf" -> \E g \in f.of : matches[g]
              [] f.kind = "Not" -> \A g \in f.of : ~matches[g]
    IN  matches[filter]

FilterDepth[f \in Filters] == 1 + Max({0} \cup {FilterDepth[g] : g \in Nested(f)})
FilterClauses[f \in Filters] == 1 + MapThenSumSet(LAMBDA g : FilterClauses[g], Nested(f))
Texts[f \in Filters] ==
    (IF "text" \in DOMAIN f THEN {f.text} ELSE {}) \cup UNION {Texts[g] : g \in Nested(f)}

\* The semantic key that a source, a sort, a grouping, a field or a filter names.
KeyOf(part) == IF part.kind \in {"SemanticField", "SemanticFieldValue"} THEN {part.key} ELSE {}
FilterKeys[f \in Filters] == KeyOf(f) \cup UNION {FilterKeys[g] : g \in Nested(f)}

validate(spec) ==
    /\ spec.source.kind = "NodeIds" => Cardinality(spec.source.of) <= MaxSourceIds
    /\ spec.source.kind = "Roles" => Cardinality(spec.source.of) <= MaxSourceRoles
    /\ "text" \in DOMAIN spec.source => spec.source.text \notin Refused
    /\ Len(spec.fields) <= MaxFields
    /\ spec.maxItems <= MaxOutputItems
    /\ spec.maxBytes <= MaxOutputBytes
    /\ \A part \in {spec.source, spec.sort, spec.grouping} \cup ToSet(spec.fields) :
          KeyOf(part) \cap RefusedKeys = {}
    /\ FilterDepth[spec.filter] <= MaxFilterDepth
    /\ FilterClauses[spec.filter] <= MaxFilterClauses
    /\ Texts[spec.filter] \cap Refused = {} /\ FilterKeys[spec.filter] \cap RefusedKeys = {}

SortKinds == {"NodeId", "Role", "ProvenanceSource", "ConfidenceDescending", "SemanticField"}

SortKey(sort, node) ==
    CASE sort.kind = "NodeId" -> 0
      [] sort.kind = "Role" -> RoleRank(node.role)
      [] sort.kind = "ProvenanceSource" -> node.source
      [] sort.kind = "ConfidenceDescending" -> 0 - node.confidence
      [] sort.kind = "SemanticField" -> FirstValue(node, sort.key)

\* The elements of S in their order, for a strict order on S: each has its
\* place from the number of those before it.
Arranged(S, before) ==
    [i \in 1 .. Cardinality(S) |->
        CHOOSE x \in S : Cardinality({y \in S : <<y, x>> \in before}) = i - 1]

\* stable_sort: every order ends in the identity.
ComesBefore(node, sort, a, b) ==
    LET ka == SortKey(sort, node[a])
        kb == SortKey(sort, node[b])
    IN  ka < kb \/ (ka = kb /\ a < b)

stable_sort(ids, node, sort) ==
    Arranged(ids, {p \in ids \X ids : ComesBefore(node, sort, p[1], p[2])})

group_key(grouping, node) ==
    CASE grouping.kind = "None" -> 0
      [] grouping.kind = "Role" -> RoleRank(node.role)
      [] grouping.kind = "ProvenanceSource" -> node.source
      [] grouping.kind = "SemanticField" -> FirstValue(node, grouping.key)

\* project_item, canonical_item_bytes: one component for a group and two for
\* each field.
rendered_bytes(spec, node) ==
    node.bytes + (IF spec.grouping.kind = "None" THEN 0 ELSE 1) + 2 * Len(spec.fields)

Chosen(spec, nodes, node) ==
    {n \in nodes : /\ source_matches(spec.source, n, node[n])
                   /\ filter_matches(spec.filter, n, node[n])}

\* The loop of compile stops at the first item that does not fit.
Kept(spec, candidates, node) ==
    LET bytes[k \in 0 .. Len(candidates)] ==
            IF k = 0 THEN 0 ELSE bytes[k - 1] + rendered_bytes(spec, node[candidates[k]])
    IN  Max({k \in 0 .. Len(candidates) : k <= spec.maxItems /\ bytes[k] <= spec.maxBytes})

\* The CompiledView of a declaration that is valid.
compile(spec, nodes, node) ==
    LET candidates == stable_sort(Chosen(spec, nodes, node), node, spec.sort)
        kept == Kept(spec, candidates, node)
        items == SubSeq(candidates, 1, kept)
    IN  [items |-> items,
         groups |-> [k \in {group_key(spec.grouping, node[n]) : n \in ToSet(items)} |->
                        SelectSeq(items, LAMBDA n : group_key(spec.grouping, node[n]) = k)],
         maxItems |-> spec.maxItems, maxBytes |-> spec.maxBytes,
         truncated |-> kept < Len(candidates)]
=============================================================================
