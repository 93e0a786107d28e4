------------------------------- MODULE Ignore -------------------------------
(***************************************************************************)
(* The rules of a root `.okfignore' (bran/crates/bran-core/src/scan/       *)
(* ignore.rs).  A text (a path, a line, a pattern) is a sequence of        *)
(* tokens: "/" and "*" are tokens of their own, and so is every piece of a *)
(* name between them.  The exclusion of drive letters, which have no       *)
(* meaning for the paths of a scan, is left out.                           *)
(***************************************************************************)
EXTENDS Integers, FiniteSets, Sequences, SequencesExt

Builtin == {".git", "target", "node_modules", "vendor", "generated", "cache", "caches"}

Slashes(t) == {i \in DOMAIN t : t[i] = "/"}

\* The directories above a path, from its first component down.
Above(t) == {SubSeq(t, 1, i - 1) : i \in Slashes(t)}

\* A path without its first components, one, two and so on.
Below(t) == {SubSeq(t, i + 1, Len(t)) : i \in Slashes(t)}

Components(t) ==
    {SubSeq(t, i + 1, j - 1) : i \in Slashes(t) \cup {0},
                               j \in Slashes(t) \cup {Len(t) + 1}} \ {<<>>}
Component(t) == {c \in Components(t) : Slashes(c) = {}}

\* Rule::parse joins the parts that are not empty by one slash each.
Joined(t) ==
    LET AddToken(acc, x) ==
          IF x = "/" /\ (acc = <<>> \/ Last(acc) = "/") THEN acc ELSE Append(acc, x)
        joined == FoldLeft(AddToken, <<>>, t)
    IN IF joined # <<>> /\ Last(joined) = "/" THEN Front(joined) ELSE joined

ParseError(line) ==
    LET pattern == Joined(line)
    IN CASE Len(line) > 1 /\ line[1] = "/" /\ line[2] = "/" -> "AbsolutePath"
         [] pattern = <<>> -> IF line[1] = "/" THEN "AbsolutePath" ELSE "EmptyPattern"
         [] Component(pattern) \cap {<<".">>, <<"..">>} # {} -> "Traversal"
         [] Cardinality({i \in DOMAIN pattern : pattern[i] = "*"}) > 1 -> "MultipleWildcards"
         [] OTHER -> "none"

Parsed(line) ==
    [pattern |-> Joined(line), anchored |-> line[1] = "/", directory |-> Last(line) = "/",
     has_slash |-> Slashes(Joined(line)) # {}]

wildcard_match(pattern, value) ==
    \/ pattern = value
    \/ \E i \in DOMAIN pattern :
          LET suffix == SubSeq(pattern, i + 1, Len(pattern))
          IN /\ pattern[i] = "*"
             /\ Len(value) >= Len(pattern) - 1
             /\ SubSeq(value, 1, i - 1) = SubSeq(pattern, 1, i - 1)
             /\ SubSeq(value, Len(value) - Len(suffix) + 1, Len(value)) = suffix

matches_target(rule, target) ==
    \/ wildcard_match(rule.pattern, target)
    \/ rule.directory /\ \E d \in Above(target) : wildcard_match(rule.pattern, d)

matches(rule, path) ==
    CASE rule.anchored -> matches_target(rule, path)
      [] ~rule.anchored /\ ~rule.has_slash ->
            \E c \in Component(path) : matches_target(rule, c)
      [] OTHER -> \E t \in {path} \cup Below(path) : matches_target(rule, t)

is_ignored_relative(rules, path) ==
    \/ \E c \in Component(path) : Len(c) = 1 /\ c[1] \in Builtin
    \/ \E r \in rules : matches(r, path)

\* A file has a kind ("missing", "link", "unreadable", "large", "binary" or
\* "text") and the lines that are neither blank nor a comment.  The error of
\* the first line that has one is the error of the file.
IgnoreError(file) ==
    LET bad == {i \in DOMAIN file.lines : ParseError(file.lines[i]) # "none"}
    IN CASE file.kind \in {"link", "unreadable"} -> "UnreadableIgnore"
         [] file.kind \in {"large", "binary"} -> "InvalidIgnore"
         [] file.kind = "text" /\ bad # {} -> "InvalidIgnore"
         [] OTHER -> "none"

from_okfignore(file) == {Parsed(file.lines[i]) : i \in DOMAIN file.lines}
=============================================================================
