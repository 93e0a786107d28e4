------------------------------- MODULE MCScan -------------------------------
(* A small tree for Scan and ScanGraph: a document that declares a          *)
(* dependency, a source file with a symbol and a test, its directory, a     *)
(* link to that directory, two texts with the same weak identity, one that  *)
(* is not UTF-8, and rules and package defaults with equal digests.         *)
EXTENDS ScanGraph, TLC

A == <<"a", ".md">>
D == <<"d">>
B == <<"d", "/", "b", ".rs">>

L == <<"l">>
LB == <<"l", "/", "b", ".rs">>   \* b, by way of the link

MCPaths == {A, D, B, L, LB}
MCTextOrder == <<<<"..", "/", "a">>, <<".md">>, <<".okfignore">>, <<".rs">>, A, <<"active">>,
                 <<"archived">>, <<"b", ".rs">>, D, B, <<"f">>, L, LB>>
MCKeyOrder == <<"dependency", "filename", "language", "status", "symbol", "test">>

Text(id, size, syntax, fields, lines) ==
    [id |-> id, size |-> size, utf8 |-> TRUE, syntax |-> syntax, closed |-> TRUE,
     fields |-> fields, lines |-> lines]
Field(key, values) == [key |-> key, values |-> values, scalar |-> TRUE]

\* `note' depends on b; its twin has the same length and lanes.
NoteText == Text(1, 2, "Markdown", <<Field("dependency", <<B>>), Field("status", <<<<"archived">>>>)>>, <<>>)
TwinText == Text(1, 2, "Markdown", <<Field("status", <<<<"active">>>>)>>, <<>>)
CodeText == Text(2, 1, "None", <<>>, <<[kind |-> "test_attribute", name |-> <<>>],
                                       [kind |-> "symbol", name |-> <<"f">>]>>)
LargeText == Text(3, 3, "None", <<>>, <<>>)
Bytes == [Text(4, 1, "None", <<>>, <<>>) EXCEPT !.utf8 = FALSE]

File(source) == Node("file", source)
Dir == Node("dir", NoSource)

MCEdits == {[path |-> A, node |-> n] : n \in {None, File(TwinText), Node("locked", LargeText)}}
      \cup {[path |-> D, node |-> LinkTo(Outside)], [path |-> L, node |-> Dir]}
      \cup {[path |-> B, node |-> n] : n \in {None, Dir, File(LargeText), File(Bytes)}}

Rules(lines) == [kind |-> "text", lines |-> lines]
Missing == [kind |-> "missing", lines |-> <<>>]
Twins == {Rules(<<<<"/", "d", "/">>>>), Rules(<<<<"l", "/">>>>)}   \* of one digest
MCIgnoreFiles == {Missing, Rules(<<<<"..", "/", "a">>>>)} \cup Twins


Config(profile, defaults) ==
    [max_files |-> 3, max_file_bytes |-> 3, max_total_bytes |-> 4, profile |-> profile,
     package_defaults |-> defaults]
Local == Config("default", <<>> :> [status |-> <<"active">>] @@ D :> [status |-> <<"archived">>])
Other == Config("default", <<>> :> [status |-> <<"archived">>])
OtherTwin == Config("default", <<>> :> [status |-> <<"active">>])
MCConfigs == {Local, Other, OtherTwin}

MCDigest(field, value) ==
    CASE field = "ignore" /\ value \in Twins -> <<Rules(<<<<"l", "/">>>>)>>
      [] field = "package_defaults" /\ value = OtherTwin.package_defaults -> <<Other.package_defaults>>
      [] OTHER -> <<value>>

MCTree == A :> File(NoteText) @@ D :> Dir @@ B :> File(CodeText) @@ L :> LinkTo(D) @@ LB :> None
MCStarts == {[tree |-> MCTree, ignoreFile |-> file, config |-> Local] :
               file \in {Missing, Rules(<<<<"/", "d", "/">>>>)}}

\* No link, and an anchored rule for a directory that does not end in a slash.
AnchoredIgnoreFiles == {Missing, Rules(<<<<"/", "d">>>>)}
AnchoredStarts == {[tree |-> [MCTree EXCEPT ![L] = None], ignoreFile |-> Missing, config |-> Local]}
AnchoredEdits == {e \in MCEdits : e.path \in {A, B} /\ e.node.kind # "dir"}

MCUnfit == {A}

MCExtra == {{}, {A, B, <<".okfignore">>}, {D}, {L}, {<<"..", "/", "a">>}}
=============================================================================
