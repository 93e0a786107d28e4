---------------------------- MODULE MCCommands ----------------------------
(* Two documents, three texts (one that is strict, one that has only a type, *)
(* one with a block list), and command lines: every short one of -p over a   *)
(* small alphabet, and those that lead through each branch of the others.    *)
EXTENDS Commands, TLC

A == <<"a", ".md">>
Log == <<"log", ".md">>

Field(key, values) == [key |-> key, values |-> values, scalar |-> TRUE]
Text(id, fields, links) ==
    [id |-> id, size |-> 1, utf8 |-> TRUE, syntax |-> "Markdown", closed |-> TRUE,
     fields |-> fields, lines |-> <<>>, citations |-> FALSE, links |-> links]
One(key) == Field(key, <<<<"x">>>>)

Strict == Text(1, <<One("type"), One("title"), Field("okf_status", <<<<"active">>>>),
                    Field("tags", <<<<"x">>, <<"y">>>>), One("freshness"), One("resource"),
                    One("public_boundary")>>, TRUE)
Floor == Text(2, <<One("type"), One("title")>>, FALSE)
Untyped == Text(3, <<One("title"), One("public_boundary")>>, TRUE)
Huge == [Strict EXCEPT !.id = 5, !.size = 2]
BlockList == Text(4, <<One("type"), [One("tags") EXCEPT !.scalar = FALSE]>>, FALSE)

MCTargets == [a |-> A, log |-> Log]
MCDrafts == [strict |-> Strict, floor |-> Floor, huge |-> Huge]
MCEdits == {[path |-> A, source |-> s] : s \in {Floor, Untyped, Strict, Huge}}
FloorEdits == MCEdits \cup {[path |-> A, source |-> BlockList]}
MCStarts == {[docs |-> A :> s @@ Log :> Absent, configured |-> s = Strict] : s \in {Strict, Floor}}

MCTextOrder == <<A, Log>>   \* not used: no fact is ordered here

MCToolLists == ("read,search" :> <<"read", "search">>) @@ ("read,read" :> <<"read", "read">>)
               @@ ("read," :> <<"read", "">>) @@ ("read,write" :> <<"read", "write">>)

Words(alphabet, n) == UNION {[1 .. k -> alphabet] : k \in 0 .. n}

\* -p: every line of up to three arguments, and the longer ones by their values.
Prompts ==
    Words({"--agent", "--offline", "sol", " "}, 3)
    \cup {<<"--agent", "sol", "--key", "go">>, <<"--tools", "read,search", "go">>, <<"--agent", "sol", "go", "--other">>}
    \cup {<<"--agent", "sol", option, value, "go">> :
             option \in {"--reasoning", "--tools", "--provider", "--model", "--no-session"},
             value \in {"high", "read,search", "read,read", "read,", "read,write", "write",
                       "fixture-provider", "fixture-luna", "none", "--offline", Undecodable}}
    \cup {<<"--agent", agent, "--agent", "sol", "go">> : agent \in {"sol", "luna"}}
    \cup {<<"--agent", "terra", "go">>, <<"--agent", "sol", "long">>, <<"go", "--agent", "sol">>}

Roots == {<<>>, <<"/repo">>}
Plans == {<<"a", "strict">>, <<"a", "floor">>, <<"a", "huge">>, <<"log", "floor">>}
Maintain ==
    {<<"propose", "/repo", p[1], p[2]>> : p \in Plans}
    \cup {<<"apply", "/repo", p[1], p[2], digest, "me">> : p \in Plans, digest \in {"latest", "forged"}}
    \cup {<<"apply", "/repo", "a", "strict", "latest", " ">>, <<"apply", "/repo", "a", "strict", " ", "me">>,
          <<"apply", "/repo", "a", "strict", "latest">>, <<"revalidate", "/repo">>, <<"revalidate">>,
          <<"revalidate", "/repo", "x">>, <<"undo">>, <<>>, <<"propose", "/repo", Undecodable, "strict">>}
Others ==
    {<<>>, <<"smoke">>, <<"smoke", "x">>, <<"tui">>, <<Undecodable>>, <<"help">>, <<"p", "--agent", "sol", "go">>,
     <<"agents">>, <<"agents", "list">>, <<"agents", "list", "x">>, <<"agents", "add">>,
     <<"doctor">>, <<"doctor", "--agent">>, <<"doctor", "--onboarding">>, <<"doctor", "--all">>,
     <<"doctor", "--agent", "x">>}
    \cup {<<command>> \o root \o rest : command \in {"query", "packet"}, root \in Roots,
                                       rest \in {<<>>, <<" ">>, <<" ", "word">>, <<Undecodable>>}}
    \cup {<<"check">> \o root \o rest : root \in Roots,
             rest \in {<<>>, <<"okf-v0.1">>, <<"bran-strict">>, <<"none">>, <<"okf-v0.1", "x">>}}

MCLines == {<<"-p">> \o p : p \in Prompts} \cup {<<"maintain">> \o l : l \in Maintain} \cup Others
=============================================================================
