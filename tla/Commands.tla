------------------------------ MODULE Commands ------------------------------
(***************************************************************************)
(* The command line of bran (bran/crates/bran-cli/src/main.rs): processes  *)
(* run one after the other on one repository, which others edit in         *)
(* between.  A command line is a sequence of arguments; the option loop of *)
(* `-p' takes one option, with its value, per step.                        *)
(*                                                                         *)
(* RepairCoordinator is modelled in Repair and the graph in Retrieval;     *)
(* here one apply, one query or one packet is a step with their outcomes.  *)
(***************************************************************************)
EXTENDS Check

CONSTANTS
    Lines,       \* the command lines that are given
    Targets,     \* argument |-> path, for the targets of maintain
    Drafts,      \* argument |-> source, for its replacements
    Starts,      \* what a session begins with, as [docs, configured]
    Edits,       \* the edits of others: [path, source]
    ToolLists,   \* argument |-> the names a --tools value lists
    Oversized,   \* the arguments of more than 65536 bytes
    MaxEdits     \* bound: edits of the others

Undecodable == "undecodable"    \* an argument that is not UTF-8
Blank == {"", " "}

\* Arguments are strings.  A complete line of maintain names a target and a draft:
\* a path that a document may be at, and the bytes of one.
ASSUME CommandsAssumption ==
    /\ Lines \subseteq Seq(STRING) /\ ToolLists \in [DOMAIN ToolLists -> Seq(STRING)]
    /\ \A line \in Lines :
          /\ Len(line) >= 5 /\ line[1] = "maintain" /\ line[2] \in {"propose", "apply"}
          /\ line[4] # Undecodable /\ line[5] # Undecodable
          => line[4] \in DOMAIN Targets /\ line[5] \in DOMAIN Drafts
    /\ \A draft \in DOMAIN Drafts : Drafts[draft] # Absent
    /\ \A start \in Starts : \A target \in DOMAIN Targets : Targets[target] \in DOMAIN start.docs
    /\ \A start \in Starts : start.docs \in [DOMAIN start.docs -> {start.docs[p] : p \in DOMAIN start.docs}]

TypedExit == [Success |-> 0, Validation |-> 1, Usage |-> 2, Operation |-> 3]

NoRun == [line |-> <<>>, stage |-> "idle", i |-> 0, options |-> <<>>, prompts |-> <<>>]
NoDigest == [target |-> <<>>, draft |-> Absent, source |-> Absent]

VARIABLES
    docs,        \* path |-> source: the documents of the repository
    marker,      \* the fixture authority marker is there
    configured,  \* .bran/settings.conf can be loaded
    digests,     \* the digests that were proposed
    run,         \* the process that runs
    executed,    \* how often it called the runtime
    result,      \* of the last process
    edits

vars == <<docs, marker, configured, digests, run, executed, result, edits>>
workspace == <<docs, marker, configured, digests, edits>>

NoResult == [command |-> "none", status |-> "none", exit |-> 0, is_error |-> FALSE, failure |-> "none"]

-----------------------------------------------------------------------------
(* How a process ends.                                                     *)

Exit(command, status, exit, failure) ==
    /\ result' = [command |-> command, status |-> status, exit |-> TypedExit[exit],
                  is_error |-> status = "error", failure |-> failure]
    /\ run' = [NoRun EXCEPT !.line = run.line, !.stage = "done"]

success(command) == Exit(command, "ok", "Success", "none")
usage(command, failure) == Exit(command, "error", "Usage", failure)
operation(command, failure) == Exit(command, "error", "Operation", failure)
Reports == UNCHANGED <<workspace, executed>>

-----------------------------------------------------------------------------
(* dispatch: the positional arguments.                                     *)

Has(i) == i <= Len(run.line) /\ run.line[i] # Undecodable
Command == IF Has(1) THEN run.line[1] ELSE "unknown"
Rest(i) == SubSeq(run.line, i, Len(run.line))

\* The arguments a command takes, each with the error when it is missing.
Positional(names, from) ==
    LET missing == {i \in DOMAIN names : ~Has(from + i - 1)}
    IN CASE missing # {} -> names[CHOOSE i \in missing : \A j \in missing : i <= j]
         [] missing = {} /\ Len(run.line) >= from + Len(names) -> "too_many_args"
         [] OTHER -> "none"

RetrievalUsage ==
    CASE ~Has(2) -> "missing_root"
      [] Has(2) /\ \E i \in DOMAIN Rest(3) : Rest(3)[i] = Undecodable -> "invalid_utf8"
      [] Has(2) /\ \A i \in DOMAIN Rest(3) : Rest(3)[i] \in Blank -> "missing_query"
      [] OTHER -> "none"

MaintainUsage ==
    CASE ~Has(2) -> "missing_subcommand"
      [] Has(2) /\ run.line[2] = "propose" ->
            Positional(<<"missing_root", "missing_target", "missing_replacement">>, 3)
      [] Has(2) /\ run.line[2] = "apply" ->
            Positional(<<"missing_root", "missing_target", "missing_replacement", "missing_digest",
                         "missing_authority">>, 3)
      [] Has(2) /\ run.line[2] = "revalidate" -> Positional(<<"missing_root">>, 3)
      [] OTHER -> "unknown_subcommand"

AgentsUsage ==
    CASE ~Has(2) -> "missing_subcommand"
      [] Has(2) /\ run.line[2] = "list" -> Positional(<<>>, 3)
      [] OTHER -> "unknown_subcommand"

DoctorUsage ==
    CASE ~Has(2) -> "missing_mode"
      [] Has(2) /\ Len(run.line) > 2 -> "too_many_args"
      [] OTHER -> IF run.line[2] \in {"--onboarding", "--agent"} THEN "none" ELSE "unknown_mode"

UsageError ==
    CASE run.line = <<>> -> "missing_command"
      [] Command \in {"smoke", "tui"} ->
            IF Len(run.line) > 1 THEN "unknown_command" ELSE "none"
      [] Command \in {"query", "packet"} -> RetrievalUsage
      [] Command = "check" -> Positional(<<"missing_root", "missing_profile">>, 2)
      [] Command = "maintain" -> MaintainUsage
      [] Command = "agents" -> AgentsUsage
      [] Command = "doctor" -> DoctorUsage
      [] Command = "-p" ->
            IF \E i \in DOMAIN run.line : run.line[i] = Undecodable THEN "invalid_utf8" ELSE "none"
      [] OTHER -> "unknown_command"

\* The command that the envelope of a usage error names, its subcommand left out.
Named ==
    CASE UsageError \in {"missing_command", "unknown_command"} -> ""
      [] UsageError \notin {"missing_command", "unknown_command"} /\ Command = "-p" -> "p"
      [] OTHER -> Command

Dispatch ==
    /\ run.stage = "dispatch"
    /\ Reports
    /\ IF UsageError # "none" THEN usage(Named, UsageError)
       ELSE /\ run' = [run EXCEPT !.stage = IF Command = "-p" THEN "flags" ELSE Command]
            /\ UNCHANGED result

Smoke == run.stage = "smoke" /\ success("smoke") /\ Reports

\* The session itself is Terminal; it may save settings, and end because the
\* terminal cannot be entered, drawn or read.
Tui(is_terminal) ==
    /\ run.stage = "tui"
    /\ \/ /\ is_terminal /\ configured' \in {configured, TRUE}
          /\ success("tui") \/ operation("tui", "terminal_error")
       \/ /\ ~is_terminal /\ UNCHANGED configured
          /\ operation("tui", "tui_unavailable_non_tty")
    /\ UNCHANGED <<docs, marker, digests, edits, executed>>

AgentsList == run.stage = "agents" /\ success("agents") /\ Reports

Retrieve(found) ==
    /\ run.stage \in {"query", "packet"} /\ Reports
    /\ IF found THEN success(run.stage) ELSE operation(run.stage, "error")

\* A connected agent is never ready: this build has no adapter for one.
Doctor ==
    LET ready == configured /\ run.line[2] = "--onboarding"
    IN /\ run.stage = "doctor" /\ Reports
       /\ IF ready THEN success("doctor") ELSE Exit("doctor", "warning", "Validation", "none")

-----------------------------------------------------------------------------
(* check.                                                                  *)

do_check(scans) ==
    LET profile == run.line[3]
    IN /\ run.stage = "check" /\ Reports
       /\ CASE ~scans \/ ~Scannable(docs) -> operation("check", "scan_error")
            [] profile \notin Profiles -> usage("check", "unknown-profile")
            [] Passes(docs, profile) -> success("check")
            [] OTHER -> Exit("check", "failed", "Validation", "none")

-----------------------------------------------------------------------------
(* maintain.                                                               *)

Subcommand(name) == run.stage = "maintain" /\ run.line[2] = name

\* What a proposal is made of: the plan and the source it was made against.
Digest(line) == [target |-> Targets[line[4]], draft |-> Drafts[line[5]],
                 source |-> docs[Targets[line[4]]]]

\* A digest argument is one that was printed, or is none of the program's.
Printed(arg) == IF arg \in DOMAIN digests THEN digests[arg] ELSE NoDigest

\* `reaches': the root and the target are safe paths and can be read.
propose(reaches) ==
    LET d == Digest(run.line)
    IN /\ Subcommand("propose")
       /\ IF reaches
          THEN /\ success("maintain.propose")
               /\ digests' = [digests EXCEPT !["latest"] = d]
          ELSE operation("maintain.propose", "unreachable") /\ UNCHANGED digests
       /\ UNCHANGED <<docs, marker, configured, edits, executed>>

StaleSource(given, actual) ==
    /\ given # NoDigest
    /\ given.target = actual.target /\ given.draft = actual.draft
    /\ given.source # actual.source

CompatibleOnly(after) ==  \* mutant: validates the compatibility profile
    marker /\ Scannable(after) /\ Passes(after, "okf-v0.1")
cli_maintainer_validator(after) == marker /\ Scannable(after) /\ Passes(after, "bran-strict")

AnyDigest(given, actual) ==  \* mutant: the plan is compared, not the source
    given.target = actual.target /\ given.draft = actual.draft
Authorizes(given, actual) == given = actual

\* The terminals of the coordinator that depend on somebody else at work, or on
\* the file system: the target is old, new, or in the coordinator's backup.
Interrupted(actual) ==
    /\ operation("maintain.apply", "interrupted")
    /\ \E source \in {actual.source, actual.draft, Absent} :
          docs' = [docs EXCEPT ![actual.target] = source]

Applied(actual, scans) ==
    LET after == [docs EXCEPT ![actual.target] = actual.draft]
    IN IF scans /\ cli_maintainer_validator(after)
       THEN docs' = after /\ success("maintain.apply")
       ELSE UNCHANGED docs /\ Exit("maintain.apply", "error", "Validation", "rejected")

apply(reaches, scans) ==
    LET line == run.line
        actual == Digest(line)
        given == Printed(line[6])
    IN /\ Subcommand("apply")
       /\ \/ /\ ~marker \/ line[6] \in Blank \/ line[7] \in Blank
             /\ usage("maintain.apply", "missing_authority") /\ UNCHANGED docs
          \/ /\ marker /\ line[6] \notin Blank /\ line[7] \notin Blank
             /\ IF ~reaches THEN operation("maintain.apply", "unreachable") /\ UNCHANGED docs
                ELSE IF Authorizes(given, actual)
                THEN Applied(actual, scans) \/ Interrupted(actual)
                ELSE /\ UNCHANGED docs
                     /\ IF StaleSource(given, actual)
                        THEN operation("maintain.apply", "stale_source")
                        ELSE usage("maintain.apply", "digest_mismatch")
       /\ UNCHANGED <<marker, configured, digests, edits, executed>>

revalidate(scans) ==
    /\ Subcommand("revalidate") /\ Reports
    /\ IF scans /\ cli_maintainer_validator(docs) THEN success("maintain.revalidate")
       ELSE Exit("maintain.revalidate", "error", "Validation", "rejected")

-----------------------------------------------------------------------------
(* -p: the option loop and what follows it.                                *)

Forbidden == {"--api-key", "--apikey", "--key", "--credential", "--credentials"}
Valued == {"--agent", "--reasoning", "--tools", "--provider", "--model"}
Flags == {"--no-session", "--offline"}
IsOption(arg) == arg \in Forbidden \cup Valued \cup Flags \cup {"--other"}

Args == Tail(run.line)

CredentialFlags ==
    /\ run.stage = "flags" /\ Reports
    /\ IF \E i \in DOMAIN Args : Args[i] \in Forbidden THEN usage("p", "forbidden_credential_flag")
       ELSE /\ run' = [run EXCEPT !.stage = "loop", !.i = 1]
            /\ UNCHANGED result

IsValue(i) == i <= Len(Args) /\ ~IsOption(Args[i]) /\ Args[i] \notin Blank

FlagsOnly(arg) ==  \* mutant: a second value takes the place of the first
    arg \in DOMAIN run.options \cap Flags
Repeated(arg) == arg \in DOMAIN run.options

OptionError ==
    LET arg == Args[run.i]
    IN CASE run.prompts # <<>> -> IF IsOption(arg) THEN "unknown_option" ELSE "too_many_positional"
         [] run.prompts = <<>> /\ Repeated(arg) -> "duplicate_option"
         [] run.prompts = <<>> /\ arg \in Valued /\ ~Repeated(arg) ->
               IF IsValue(run.i + 1) THEN "none" ELSE "missing_value"
         [] run.prompts = <<>> /\ arg \notin Valued \cup Flags /\ IsOption(arg) -> "unknown_option"
         [] OTHER -> "none"

Option ==
    LET arg == Args[run.i]
        value == IF arg \in Valued THEN Args[run.i + 1] ELSE "set"
    IN /\ run.stage = "loop" /\ run.i <= Len(Args) /\ Reports
       /\ IF OptionError # "none" THEN usage("p", OptionError)
          ELSE /\ UNCHANGED result
               /\ run' = IF arg \in Valued \cup Flags
                         THEN [run EXCEPT !.i = @ + (IF arg \in Valued THEN 2 ELSE 1),
                                          !.options = [o \in DOMAIN @ \cup {arg} |->
                                                         IF o = arg THEN value ELSE @[o]]]
                         ELSE [run EXCEPT !.i = @ + 1, !.prompts = <<arg>>]

ReasoningLevels == {"off", "minimal", "low", "medium", "high", "xhigh"}
Models == [sol |-> "fixture-sol", luna |-> "fixture-luna"]
Provider == "fixture-provider"

\* parse_tools looks at the names in their order.
ToolError(names) ==
    LET bad == {i \in DOMAIN names :
                  names[i] \notin {"read", "search"} \/ \E j \in 1 .. i - 1 : names[j] = names[i]}
        first == CHOOSE i \in bad : \A j \in bad : i <= j
    IN CASE \E i \in DOMAIN names : names[i] \in Blank -> "empty_tools"
         [] bad = {} -> "none"
         [] OTHER -> IF \E j \in 1 .. first - 1 : names[j] = names[first]
                     THEN "duplicate_tool" ELSE "denied_tool"

NamesOf(value) == IF value \in DOMAIN ToolLists THEN ToolLists[value] ELSE <<value>>

RequestError ==
    LET o == run.options
        given == DOMAIN o
    IN CASE run.prompts = <<>> -> "missing_prompt"
         [] run.prompts # <<>> /\ run.prompts[1] \in Blank -> "missing_prompt"
         [] OTHER ->
            CASE "--agent" \notin given -> "missing_agent"
              [] "--agent" \in given /\ "--reasoning" \in given /\ o["--reasoning"] \notin ReasoningLevels ->
                    "invalid_reasoning"
              [] OTHER ->
                 IF "--tools" \in given /\ ToolError(NamesOf(o["--tools"])) # "none"
                 THEN ToolError(NamesOf(o["--tools"]))
                 ELSE IF o["--agent"] \notin DOMAIN Models THEN "unknown_profile"
                 ELSE IF "--provider" \in given /\ o["--provider"] # Provider THEN "unknown_provider"
                 ELSE IF "--model" \in given /\ o["--model"] \notin {Models[a] : a \in DOMAIN Models}
                 THEN "unknown_model"
                 ELSE IF run.prompts[1] \in Oversized THEN "invalid_identity" ELSE "none"

\* The runtime of the binary is disabled or offline: its receipt is incomplete.
Execute ==
    /\ run.stage = "loop" /\ run.i > Len(Args)
    /\ IF RequestError # "none" THEN usage("p", RequestError) /\ UNCHANGED executed
       ELSE operation("p", "runtime_incomplete") /\ executed' = executed + 1
    /\ UNCHANGED workspace

-----------------------------------------------------------------------------
Begin(line) ==
    /\ run.stage = "idle"
    /\ run' = [NoRun EXCEPT !.line = line, !.stage = "dispatch"]
    /\ UNCHANGED <<workspace, executed, result>>

\* The caller has read the output.
Collect ==
    /\ run.stage = "done"
    /\ run' = NoRun /\ executed' = 0 /\ result' = NoResult
    /\ UNCHANGED workspace

EditDoc(path, source) ==
    /\ edits < MaxEdits /\ edits' = edits + 1
    /\ run.stage = "idle" /\ docs[path] # source
    /\ docs' = [docs EXCEPT ![path] = source]
    /\ UNCHANGED <<marker, configured, digests, run, executed, result>>

EditMarker ==
    /\ edits < MaxEdits /\ edits' = edits + 1
    /\ run.stage = "idle"
    /\ marker' = ~marker
    /\ UNCHANGED <<docs, configured, digests, run, executed, result>>

Init ==
    /\ \E s \in Starts : docs = s.docs /\ configured = s.configured
    /\ marker = TRUE /\ digests = [d \in {"latest"} |-> NoDigest]
    /\ run = NoRun /\ executed = 0 /\ result = NoResult /\ edits = 0

Process ==
    \/ Dispatch \/ Smoke \/ AgentsList \/ Doctor
    \/ \E tty \in BOOLEAN : Tui(tty)
    \/ \E found \in BOOLEAN : Retrieve(found)
    \/ \E scans \in BOOLEAN : do_check(scans) \/ revalidate(scans)
    \/ \E reaches \in BOOLEAN : propose(reaches)
    \/ \E reaches, scans \in BOOLEAN : apply(reaches, scans)
    \/ CredentialFlags \/ Option \/ Execute

Next ==
    \/ Process \/ Collect
    \/ \E line \in Lines : Begin(line)
    \/ \E e \in Edits : EditDoc(e.path, e.source)
    \/ EditMarker

CommandsSpec == Init /\ [][Next]_vars

-----------------------------------------------------------------------------
(* Properties.                                                             *)

Finished(command) == run.stage = "done" /\ result.command = command

\* The command line of -p as a grammar.  `starts' are the places of the options:
\* no option twice, a value behind each that takes one, and the prompt last.
Reads(starts) ==
    LET n == Len(Args)
        values == {i + 1 : i \in {i \in starts : Args[i] \in Valued}}
    IN /\ starts \cap values = {} /\ starts \cup values = 1 .. n - 1
       /\ \A i, j \in starts : Args[i] \in Valued \cup Flags /\ (Args[i] = Args[j] => i = j)
       /\ \A i \in values \cup {n} : ~IsOption(Args[i]) /\ Args[i] \notin Blank

ValuesOf(starts, option) == {Args[i + 1] : i \in {i \in starts : Args[i] = option}}
ReadOnly(names) ==
    \A i, j \in DOMAIN names :
        names[i] \in {"read", "search"} /\ (names[i] = names[j] => i = j)

Delegable ==
    /\ Args # <<>> /\ Args[Len(Args)] \notin Oversized
    /\ \A i \in DOMAIN Args : Args[i] # Undecodable
    /\ \E starts \in SUBSET (1 .. Len(Args) - 1) :
          /\ Reads(starts)
          /\ ValuesOf(starts, "--agent") # {} /\ ValuesOf(starts, "--agent") \subseteq {"sol", "luna"}
          /\ ValuesOf(starts, "--reasoning") \subseteq ReasoningLevels
          /\ \A value \in ValuesOf(starts, "--tools") : ReadOnly(NamesOf(value))
          /\ ValuesOf(starts, "--provider") \subseteq {"fixture-provider"}
          /\ ValuesOf(starts, "--model") \subseteq {"fixture-sol", "fixture-luna"}

\* `bran -p' calls the runtime once for a line of its grammar and never for
\* another one: no option passes for a value, no value for the prompt, and no
\* tool beyond reading is granted (do_headless_p_with).
PromptRunsOnce == Finished("p") => executed = IF Delegable THEN 1 ELSE 0

\* A process changes the documents only as `maintain apply', only at the target
\* that it names, with the draft it names, under a digest that was printed for
\* this draft and the very source that is replaced (do_maintain_apply).
ReviewedOnly ==
    [][run.stage # "idle" /\ docs' # docs =>
         LET line == run.line
             target == Targets[line[4]]
         IN /\ Subcommand("apply") /\ marker
            /\ line[6] \in DOMAIN digests
            /\ digests[line[6]] = [target |-> target, draft |-> Drafts[line[5]],
                                   source |-> docs[target]]
            /\ \A p \in DOMAIN docs \ {target} : docs'[p] = docs[p]
            /\ docs'[target] \in {Drafts[line[5]], Absent}
            /\ docs'[target] # Drafts[line[5]] => result'.failure = "interrupted"]_vars

\* After an apply that exits with 0 the draft is in place and the repository
\* passes both profiles: the next check and revalidate say so too.
AppliedPasses ==
    Finished("maintain.apply") /\ result.exit = 0 =>
        /\ docs[Targets[run.line[4]]] = Drafts[run.line[5]]
        /\ \A profile \in Profiles : Passes(docs, profile)

\* bundle.rs says that a concept needs no more than a type: a check of the floor
\* passes when each concept's closed frontmatter has one, whatever else it has.
Typed(source) ==
    /\ source.syntax = "Markdown" /\ source.closed
    /\ \E i \in DOMAIN source.fields :
          LET type == source.fields[i]
          IN /\ type.key = "type" /\ type.scalar /\ Len(type.values) = 1 /\ type.values[1] # <<>>
             /\ \A j \in DOMAIN source.fields : source.fields[j].key = "type" => i = j
OkfFloor ==
    /\ Finished("check") /\ result.failure # "scan_error"
    /\ Len(run.line) = 3 /\ run.line[3] = "okf-v0.1"
    /\ \A p \in derive_bundle(docs) : Concept(p) => Typed(docs[p])
    => result.status = "ok"
=============================================================================
