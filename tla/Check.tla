------------------------------- MODULE Check -------------------------------
(***************************************************************************)
(* The bundle of a repository's documents and the two profiles it is       *)
(* validated against (bran/crates/bran-core/src/bundle.rs, profile.rs, and *)
(* derive_bundle_from_snapshot of bran-cli).  Besides what SourceMetadata  *)
(* reads, a document says whether its body has `citations' and `links'.    *)
(***************************************************************************)
EXTENDS SourceMetadata

CONSTANT MaxFileBytes   \* of a scan and of its metadata parser

Absent == [syntax |-> "Absent"]
Present(docs) == {p \in DOMAIN docs : docs[p] # Absent}

\* A scan fails on a file over the limit.
Scannable(docs) == \A p \in Present(docs) : docs[p].size <= MaxFileBytes

\* The paths of the documents of a bundle.
derive_bundle(docs) == {p \in Present(docs) : Extension(p) \in {".md", ".markdown"} /\ docs[p].utf8}

\* index.md and log.md are reserved, at any level.
Concept(path) == filename(path).value \notin {<<"index", ".md">>, <<"log", ".md">>}

\* The frontmatter: the values of each key; one value makes a string, several
\* a sequence.  A source that is too large for the parser has none.
Frontmatter(path, source) ==
    LET parsed == source.size <= MaxFileBytes
        pairs == IF parsed THEN Declared(path, source) ELSE {}
    IN [malformed |-> parsed /\ HasHeader(path, source) /\ Malformed(source),
        fields |-> [k \in {p[1] : p \in pairs} |-> {p[2] : p \in {q \in pairs : q[1] = k}}]]

IsString(fields, key) == key \in DOMAIN fields /\ Cardinality(fields[key]) = 1

okf_diagnostic(f) ==
    CASE f.malformed -> {"malformed-frontmatter"}
      [] ~f.malformed /\ "type" \notin DOMAIN f.fields -> {"missing-type"}
      [] ~f.malformed /\ "type" \in DOMAIN f.fields ->
            {d \in {"non-string-type"} : ~IsString(f.fields, "type")}

has_valid_okf_status(fields) ==
    IsString(fields, "okf_status") /\
    fields["okf_status"] \subseteq {<<"draft">>, <<"active">>, <<"deprecated">>}
has_tags_sequence(fields) == "tags" \in DOMAIN fields /\ ~IsString(fields, "tags")

strict_diagnostics(source, f) ==
    okf_diagnostic(f) \cup
    IF f.malformed THEN {}
    ELSE LET resource == IsString(f.fields, "resource")
         IN {c \in {"title", "status", "tag", "freshness", "authority", "citation-source",
                    "relationship", "public-boundary"} :
               \/ c = "title" /\ ~IsString(f.fields, "title")
               \/ c = "status" /\ ~has_valid_okf_status(f.fields)
               \/ c = "tag" /\ ~has_tags_sequence(f.fields)
               \/ c = "freshness" /\ ~IsString(f.fields, "timestamp") /\ ~IsString(f.fields, "freshness")
               \/ c = "authority" /\ ~resource
               \/ c = "citation-source" /\ ~resource /\ ~source.citations
               \/ c = "relationship" /\ ~source.links
               \/ c = "public-boundary" /\ ~IsString(f.fields, "public_boundary")}

Profiles == {"okf-v0.1", "bran-strict"}

\* The diagnostics of a profile, as [path, code].
validate(docs, profile) ==
    UNION {LET f == Frontmatter(p, docs[p])
               codes == IF profile = "okf-v0.1" THEN okf_diagnostic(f)
                        ELSE strict_diagnostics(docs[p], f)
           IN {[path |-> p, code |-> c] : c \in codes} :
             p \in {p \in derive_bundle(docs) : Concept(p)}}

Passes(docs, profile) == profile \in Profiles /\ validate(docs, profile) = {}
=============================================================================
