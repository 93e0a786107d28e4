--------------------------- MODULE SourceMetadata ---------------------------
(***************************************************************************)
(* What the metadata parser makes of one source file (bran/crates/         *)
(* bran-core/src/metadata/mod.rs).  A source is the outline the parser     *)
(* sees: the comment syntax of its header (or "None"), whether the header  *)
(* is closed, its fields [key, values, scalar], and its lines as           *)
(* [kind, name].  Texts are sequences of tokens, the last token of a path  *)
(* is its extension, which stands for the language it belongs to.          *)
(* Confidence is left out (it follows from the provenance), and so is the  *)
(* Git state, which no caller in the repository supplies.                  *)
(***************************************************************************)
EXTENDS Integers, FiniteSets, Sequences, SequencesExt

CONSTANT TextOrder   \* the texts of the instance, in string order

Rank(text) == CHOOSE i \in DOMAIN TextOrder : TextOrder[i] = text

Extension(path) == path[Len(path)]

SlashComment == {".rs", ".java", ".js", ".jsx", ".ts", ".tsx", ".go", ".cs"}
CLikeComment == {".c", ".cc", ".cpp", ".cxx", ".h", ".hh", ".hpp"}
HashComment == {".py", ".rb", ".sh", ".bash", ".zsh", ".yaml", ".yml", ".toml", ".ini", ".cfg"}

syntax_for(path) ==
    CASE Extension(path) \in {".md", ".markdown"} -> {"Markdown"}
      [] Extension(path) \in SlashComment -> {"Slash"}
      [] Extension(path) \in CLikeComment -> {"Slash", "Block"}
      [] Extension(path) \in HashComment -> {"Hash"}
      [] OTHER -> {}

Malformed(source) ==
    \/ ~source.closed
    \/ \E i \in DOMAIN source.fields :
          \/ ~source.fields[i].scalar
          \/ \E j \in DOMAIN source.fields[i].values : source.fields[i].values[j] = <<>>

HasHeader(path, source) == source.syntax \in syntax_for(path)

\* The pairs of a header, in no order: a list gives a pair for each value.
Declared(path, source) ==
    IF ~HasHeader(path, source) \/ Malformed(source) THEN {}
    ELSE UNION {{<<f.key, f.values[j]>> : j \in DOMAIN f.values} :
                  f \in {source.fields[i] : i \in DOMAIN source.fields}}

Fact(key, value, provenance) ==
    [key |-> key, value |-> value, provenance |-> provenance, state |-> "Candidate"]

Dependencies == {<<"[dependencies]">>, <<"[dev-dependencies]">>, <<"[build-dependencies]">>}

Cargo(path) == Len(path) > 1 /\ SubSeq(path, Len(path) - 1, Len(path)) = <<"Cargo", ".toml">>

\* One line of the source: `test' is set by a test attribute for the next line
\* only, `deps' by the section of a Cargo.toml.
InferLine(cargo, acc, line) ==
    LET Found(facts) == [acc EXCEPT !.facts = @ \cup facts, !.test = FALSE]
    IN CASE cargo /\ line.kind = "section" -> [acc EXCEPT !.deps = line.name \in Dependencies]
         [] line.kind = "test_attribute" -> [acc EXCEPT !.test = TRUE]
         [] line.kind = "assignment" /\ acc.deps ->
               Found({Fact("dependency", line.name, "Dependency")})
         [] line.kind = "symbol" ->
               Found({Fact("symbol", line.name, "Symbol")} \cup
                     {Fact("test", line.name, "Test") : t \in {acc.test} \ {FALSE}})
         [] line.kind = "python_test" ->
               Found({Fact("symbol", <<"test_">> \o line.name, "Symbol"),
                      Fact("test", line.name, "Test")})
         [] line.kind = "import" -> Found({Fact("import", line.name, "Import")})
         [] OTHER -> Found({})

infer(path, source) ==
    LET Line(acc, line) == InferLine(Cargo(path), acc, line)
    IN FoldLeft(Line, [facts |-> {}, test |-> FALSE, deps |-> FALSE], source.lines).facts

BoundaryMarkers == {".github", "auth", "ci", "credential", "deploy", "infra", "policy",
                    "secret", "security", "workflow"}
boundary(path) ==
    {f \in {Fact("important_boundary", <<"true">>, "BoundaryClassification")} :
       Cargo(path) \/ \E i \in DOMAIN path : path[i] \in BoundaryMarkers}

language(path) ==
    {Fact("language", <<Extension(path)>>, "Language") : x \in syntax_for(path)}
filename(path) ==
    LET starts == {i + 1 : i \in {i \in DOMAIN path : path[i] = "/"}} \cup {1}
        last == CHOOSE i \in starts : \A j \in starts : j <= i
    IN Fact("filename", SubSeq(path, last, Len(path)), "Filename")

multiple == {"tags", "symbol", "import", "test", "dependency"}
Header == {"MarkdownFrontmatter", "CommentedYaml"}

\* The single-valued keys with several values, one of them declared.
Conflicts(facts) ==
    {f.key : f \in {f \in facts : /\ f.key \notin multiple
                                  /\ f.provenance \in Header
                                  /\ \E g \in facts : g.key = f.key /\ g.value # f.value}}

resolve(facts) ==
    {IF f.key \in Conflicts(facts) THEN [f EXCEPT !.state = "Ambiguous"] ELSE f : f \in facts}

parse(path, source, defaults, limit) ==
    LET pairs == Declared(path, source)
        origin == IF source.syntax = "Markdown" THEN "MarkdownFrontmatter" ELSE "CommentedYaml"
        facts == {Fact(p[1], p[2], origin) : p \in pairs}
                   \cup {Fact(k, defaults[k], "PackageDefault") :
                            k \in DOMAIN defaults \ {p[1] : p \in pairs}}
                   \cup language(path) \cup {filename(path)}
                   \cup infer(path, source) \cup boundary(path)
        malformed == HasHeader(path, source) /\ Malformed(source)
    IN IF source.size > limit
       THEN [facts |-> {}, warnings |-> {"input-too-large"}]
       ELSE [facts |-> resolve(facts),
             warnings |-> {w \in {"malformed-metadata", "metadata-on-touch", "ambiguous-fact"} :
                             \/ w = "malformed-metadata" /\ malformed
                             \/ w = "metadata-on-touch" /\ (malformed \/ ~HasHeader(path, source))
                             \/ w = "ambiguous-fact" /\ Conflicts(facts) # {}}]
=============================================================================
