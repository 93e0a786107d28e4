--------------------------- MODULE CommandsProofs ---------------------------
(***************************************************************************)
(* ReviewedOnly and AppliedPasses for any command lines, documents and     *)
(* edits.  They rest on what dispatch has let through: a process that is   *)
(* at `maintain apply' has every argument, so that its target and draft    *)
(* are those of the line; and on that the strict profile contains the      *)
(* other one.                                                              *)
(*                                                                         *)
(* PromptRunsOnce: the loop that reads the options of `-p' accepts exactly *)
(* the lines of its grammar, so a prompt runs once or not at all.          *)
(***************************************************************************)
EXTENDS Commands, TLAPS

RunFields == {"line", "stage", "i", "options", "prompts"}

\* Documents change at the paths of the repository, and digests are printed
\* under names.
DocsAreDocs ==
    /\ docs = [p \in DOMAIN docs |-> docs[p]]
    /\ \A target \in DOMAIN Targets : Targets[target] \in DOMAIN docs

\* A process that runs has its line, and has passed dispatch at its command.
Dispatched ==
    /\ DOMAIN run = RunFields
    /\ run.stage # "idle" => run.line \in Lines
    /\ run.stage = "maintain" => Command = "maintain" /\ UsageError = "none"

CommandsInv == DocsAreDocs /\ Dispatched /\ AppliedPasses

-----------------------------------------------------------------------------

\* What the compatibility profile finds, the strict one finds too.
LEMMA StrictContainsFloor ==
    ASSUME NEW D, Passes(D, "bran-strict"), NEW profile \in Profiles
    PROVE  Passes(D, profile)
<1>1. CASE profile = "bran-strict"
  BY <1>1
<1>2. CASE profile = "okf-v0.1"
  <2> SUFFICES ASSUME NEW p \in derive_bundle(D), Concept(p),
                      NEW c \in okf_diagnostic(Frontmatter(p, D[p]))
               PROVE  FALSE
    BY <1>2 DEF Passes, Profiles, validate
  <2>1. c \in strict_diagnostics(D[p], Frontmatter(p, D[p]))
    BY DEF strict_diagnostics
  <2>2. [path |-> p, code |-> c] \in validate(D, "bran-strict")
    BY <2>1 DEF validate
  <2> QED BY <2>2 DEF Passes
<1> QED BY <1>1, <1>2 DEF Profiles

\* A line of `maintain apply' that dispatch let through has its target and draft.
LEMMA ApplyNamed ==
    ASSUME Dispatched, Subcommand("apply")
    PROVE  run.line[4] \in DOMAIN Targets /\ run.line[5] \in DOMAIN Drafts
<1> DEFINE names == <<"missing_root", "missing_target", "missing_replacement", "missing_digest",
                      "missing_authority">>
           missing == {i \in DOMAIN names : ~Has(3 + i - 1)}
<1>1. run.line \in Lines /\ Command = "maintain" /\ UsageError = "none"
  BY DEF Dispatched, Subcommand
<1>2. Has(1) /\ run.line[1] = "maintain"
  BY <1>1 DEF Command
<1>3. MaintainUsage = "none"
  BY <1>1 DEF UsageError
<1>4. Positional(names, 3) = "none"
  BY <1>3 DEF MaintainUsage, Subcommand
<1>5. missing = {}
  <2> SUFFICES ASSUME missing # {} PROVE FALSE
    OBVIOUS
  <2>1. Positional(names, 3) = names[CHOOSE i \in missing : \A j \in missing : i <= j]
    BY DEF Positional
  <2>2. missing \subseteq 1 .. 5
    OBVIOUS
  <2>3. \E i \in missing : \A j \in missing : i <= j
    <3> HIDE DEF missing
    <3>1. \/ 1 \in missing \/ 2 \in missing \/ 3 \in missing \/ 4 \in missing \/ 5 \in missing
      <4>1. PICK i \in missing : i \in 1 .. 5
        BY <2>2
      <4> QED BY <4>1
    <3>2. \A i \in missing : i \in {1, 2, 3, 4, 5}
      BY <2>2
    <3>3. CASE 1 \in missing
      BY <3>2, <3>3
    <3>4. CASE 1 \notin missing /\ 2 \in missing
      BY <3>2, <3>4
    <3>5. CASE 1 \notin missing /\ 2 \notin missing /\ 3 \in missing
      BY <3>2, <3>5
    <3>6. CASE missing \subseteq {4, 5} /\ 4 \in missing
      BY <3>6
    <3>7. CASE missing \subseteq {5}
      BY <3>1, <3>7
    <3> QED BY <3>1, <3>2, <3>3, <3>4, <3>5, <3>6, <3>7
  <2>4. (CHOOSE i \in missing : \A j \in missing : i <= j) \in 1 .. 5
    <3> HIDE DEF missing
    <3> QED BY <2>2, <2>3
  <2>5. \A i \in 1 .. 5 : names[i] # "none"
    OBVIOUS
  <2> QED BY <1>4, <2>1, <2>4, <2>5
<1>6. Has(4) /\ Has(5)
  <2>1. 2 \in DOMAIN names /\ 3 \in DOMAIN names
    OBVIOUS
  <2>2. Has(3 + 2 - 1) /\ Has(3 + 3 - 1)
    BY <1>5, <2>1
  <2> QED BY <2>2
<1>7. Len(run.line) >= 5 /\ run.line[4] # Undecodable /\ run.line[5] # Undecodable
  BY <1>6 DEF Has
<1> QED BY <1>1, <1>2, <1>7, CommandsAssumption DEF Subcommand

-----------------------------------------------------------------------------
(* apply. *)

\* The documents are changed only under a digest that was printed for the very
\* plan and source.
LEMMA ApplyWrites ==
    ASSUME CommandsInv, NEW reaches \in BOOLEAN, NEW scans \in BOOLEAN, apply(reaches, scans),
           docs' # docs
    PROVE  LET line == run.line
               target == Targets[line[4]]
           IN  /\ Subcommand("apply") /\ marker
               /\ line[6] \in DOMAIN digests
               /\ digests[line[6]] = [target |-> target, draft |-> Drafts[line[5]],
                                      source |-> docs[target]]
               /\ \A p \in DOMAIN docs \ {target} : docs'[p] = docs[p]
               /\ docs'[target] \in {Drafts[line[5]], Absent}
               /\ docs'[target] # Drafts[line[5]] => result'.failure = "interrupted"
<1> DEFINE line == run.line
           target == Targets[line[4]]
           actual == Digest(line)
           given == Printed(line[6])
<1>1. Subcommand("apply") /\ marker /\ Authorizes(given, actual)
  BY DEF apply
<1>2. line[4] \in DOMAIN Targets /\ line[5] \in DOMAIN Drafts /\ target \in DOMAIN docs
  BY <1>1, ApplyNamed DEF CommandsInv, DocsAreDocs
<1>3. actual = [target |-> target, draft |-> Drafts[line[5]], source |-> docs[target]]
  BY DEF Digest
<1>4. line[6] \in DOMAIN digests /\ digests[line[6]] = actual
  <2>1. actual # NoDigest
    BY <1>2, <1>3, CommandsAssumption DEF NoDigest
  <2> QED BY <1>1, <2>1 DEF Authorizes, Printed
<1>5. CASE Applied(actual, scans)
  <2>1. docs' = [docs EXCEPT ![target] = Drafts[line[5]]]
    BY <1>3, <1>5 DEF Applied
  <2> QED BY <1>1, <1>2, <1>3, <1>4, <2>1
<1>6. CASE Interrupted(actual)
  <2>1. PICK source \in {docs[target], Drafts[line[5]], Absent} :
            docs' = [docs EXCEPT ![target] = source]
    <3>1. actual.target = target /\ actual.draft = Drafts[line[5]] /\ actual.source = docs[target]
      BY <1>3
    <3> HIDE DEF actual
    <3> QED BY <1>6, <3>1 DEF Interrupted
  <2>2. source # docs[target]
    <3> SUFFICES ASSUME source = docs[target] PROVE FALSE
      OBVIOUS
    <3>1. docs' = [p \in DOMAIN docs |-> docs[p]]
      BY <2>1
    <3> QED BY <3>1 DEF CommandsInv, DocsAreDocs
  <2>3. result'.failure = "interrupted"
    BY <1>6 DEF Interrupted, operation, Exit
  <2> QED BY <1>1, <1>2, <1>3, <1>4, <2>1, <2>2, <2>3
<1> QED BY <1>1, <1>5, <1>6 DEF apply

\* An apply that reports success leaves the draft in a repository that passes.
LEMMA ApplyPasses ==
    ASSUME CommandsInv, NEW reaches \in BOOLEAN, NEW scans \in BOOLEAN, apply(reaches, scans)
    PROVE  /\ AppliedPasses' /\ DOMAIN docs' = DOMAIN docs
           /\ docs' = [p \in DOMAIN docs' |-> docs'[p]]
           /\ run' = [NoRun EXCEPT !.line = run.line, !.stage = "done"]
<1> DEFINE line == run.line
           actual == Digest(line)
           target == Targets[line[4]]
<1>1. Subcommand("apply")
  BY DEF apply
<1>2. target \in DOMAIN docs /\ actual.target = target /\ actual.draft = Drafts[line[5]]
  BY <1>1, ApplyNamed DEF CommandsInv, DocsAreDocs, Digest
<1>3. run' = [NoRun EXCEPT !.line = run.line, !.stage = "done"]
  BY DEF apply, Applied, Interrupted, success, usage, operation, Exit
<1>4. DOMAIN docs' = DOMAIN docs /\ docs' = [p \in DOMAIN docs' |-> docs'[p]]
  BY DEF apply, Applied, Interrupted, CommandsInv, DocsAreDocs
<1>5. \/ result'.exit # 0
      \/ /\ docs' = [docs EXCEPT ![target] = Drafts[line[5]]]
         /\ cli_maintainer_validator(docs')
  BY <1>2 DEF apply, Applied, Interrupted, success, usage, operation, Exit, TypedExit
<1>6. AppliedPasses'
  <2> SUFFICES ASSUME result'.exit = 0
               PROVE  /\ docs'[Targets[run'.line[4]]] = Drafts[run'.line[5]]
                      /\ \A profile \in Profiles : Passes(docs', profile)
    BY DEF AppliedPasses, Finished
  <2>1. run'.line = line
    BY <1>3 DEF NoRun
  <2> QED BY <1>2, <1>5, <2>1, StrictContainsFloor DEF cli_maintainer_validator
<1> QED BY <1>3, <1>4, <1>6

-----------------------------------------------------------------------------
(* The other actions. *)

\* How a process ends that leaves the documents alone and is no apply.
LEMMA EndsKeep ==
    ASSUME CommandsInv, run.stage # "idle", docs' = docs,
           run' = [NoRun EXCEPT !.line = run.line, !.stage = "done"],
           result'.command # "maintain.apply" \/ result'.exit # 0
    PROVE  CommandsInv'
  BY DEF CommandsInv, DocsAreDocs, Dispatched, AppliedPasses, Finished, NoRun, RunFields

\* A step of a process that goes on.
LEMMA GoesOnKeep ==
    ASSUME CommandsInv, run.stage # "idle", docs' = docs,
           DOMAIN run' = RunFields, run'.line = run.line,
           run'.stage \notin {"idle", "maintain", "done"}
    PROVE  CommandsInv'
  BY DEF CommandsInv, DocsAreDocs, Dispatched, AppliedPasses, Finished

LEMMA DispatchKeeps == ASSUME CommandsInv, Dispatch PROVE CommandsInv'
<1>0. docs' = docs /\ run.stage = "dispatch" /\ DOMAIN run = RunFields
  BY DEF Dispatch, Reports, workspace, CommandsInv, Dispatched
<1>1. CASE UsageError # "none"
  <2>1. /\ run' = [NoRun EXCEPT !.line = run.line, !.stage = "done"]
        /\ result'.exit # 0
    BY <1>1 DEF Dispatch, usage, Exit, TypedExit
  <2> QED BY <1>0, <2>1, EndsKeep
<1>2. CASE UsageError = "none"
  <2>1. Command \in {"smoke", "tui", "query", "packet", "check", "maintain", "agents",
                     "doctor", "-p"}
    BY <1>2 DEF UsageError, Command
  <2>2. run' = [run EXCEPT !.stage = IF Command = "-p" THEN "flags" ELSE Command]
    BY <1>2 DEF Dispatch
  <2>3. /\ DOMAIN run' = RunFields /\ run'.line = run.line
        /\ run'.stage = IF Command = "-p" THEN "flags" ELSE Command
    BY <1>0, <2>2 DEF RunFields
  <2>4. CASE Command # "maintain"
    BY <1>0, <2>1, <2>3, <2>4, GoesOnKeep
  <2>5. CASE Command = "maintain"
    <3>1. run'.stage = "maintain" /\ Command' = Command /\ UsageError' = UsageError
      BY <2>3, <2>5 DEF Command, UsageError, Has, RetrievalUsage, MaintainUsage, AgentsUsage,
                        DoctorUsage, Positional, Rest
    <3> QED BY <1>0, <1>2, <2>3, <2>5, <3>1
            DEF CommandsInv, DocsAreDocs, Dispatched, AppliedPasses, Finished
  <2> QED BY <2>4, <2>5
<1> QED BY <1>1, <1>2

\* The commands that are one step: neither an apply nor a prompt.
LEMMA OneStepNamed ==
    ASSUME \/ Smoke \/ AgentsList \/ Doctor
           \/ \E b \in BOOLEAN : Tui(b) \/ Retrieve(b) \/ do_check(b) \/ propose(b) \/ revalidate(b)
    PROVE  result'.command \notin {"maintain.apply", "p"}
<1>1. CASE Smoke \/ AgentsList \/ Doctor
  BY <1>1 DEF Smoke, AgentsList, Doctor, success, usage, operation, Exit
<1>2. ASSUME NEW b \in BOOLEAN, Tui(b) PROVE result'.command = "tui"
  <2>1. \/ success("tui") \/ operation("tui", "terminal_error")
        \/ operation("tui", "tui_unavailable_non_tty")
    BY <1>2 DEF Tui
  <2> QED BY <2>1 DEF success, operation, Exit
<1>3. ASSUME NEW b \in BOOLEAN, Retrieve(b) PROVE result'.command \in {"query", "packet"}
  BY <1>3 DEF Retrieve, success, usage, operation, Exit
<1>4. ASSUME NEW b \in BOOLEAN, do_check(b) PROVE result'.command = "check"
  BY <1>4 DEF do_check, success, usage, operation, Exit
<1>5. ASSUME NEW b \in BOOLEAN, propose(b) PROVE result'.command = "maintain.propose"
  BY <1>5 DEF propose, success, usage, operation, Exit
<1>6. ASSUME NEW b \in BOOLEAN, revalidate(b) PROVE result'.command = "maintain.revalidate"
  BY <1>6 DEF revalidate, success, usage, operation, Exit
<1> QED BY <1>1, <1>2, <1>3, <1>4, <1>5, <1>6

LEMMA OneStepKeeps ==
    ASSUME CommandsInv,
           \/ Smoke \/ AgentsList \/ Doctor
           \/ \E b \in BOOLEAN : Tui(b) \/ Retrieve(b) \/ do_check(b) \/ propose(b) \/ revalidate(b)
    PROVE  CommandsInv'
<1>1. /\ docs' = docs /\ run.stage # "idle"
      /\ run' = [NoRun EXCEPT !.line = run.line, !.stage = "done"]
  BY DEF Smoke, AgentsList, Doctor, do_check, propose, revalidate, Tui, Retrieve, Subcommand,
     Reports, workspace, success, usage, operation, Exit
<1>2. result'.command # "maintain.apply"
  BY OneStepNamed
<1> QED BY <1>1, <1>2, EndsKeep

LEMMA PromptKeeps ==
    ASSUME CommandsInv, CredentialFlags \/ Option \/ Execute
    PROVE  CommandsInv'
<1>0. docs' = docs /\ run.stage \in {"flags", "loop"} /\ DOMAIN run = RunFields
  BY DEF CredentialFlags, Option, Execute, Reports, workspace, CommandsInv, Dispatched
<1>1. CASE /\ run' = [NoRun EXCEPT !.line = run.line, !.stage = "done"]
           /\ result'.command = "p"
  BY <1>0, <1>1, EndsKeep
<1>2. CASE /\ DOMAIN run' = RunFields /\ run'.line = run.line /\ run'.stage = "loop"
  BY <1>0, <1>2, GoesOnKeep
<1>3. CASE CredentialFlags
  <2>1. \/ /\ run' = [NoRun EXCEPT !.line = run.line, !.stage = "done"]
           /\ result'.command = "p"
        \/ run' = [run EXCEPT !.stage = "loop", !.i = 1]
    BY <1>3 DEF CredentialFlags, usage, Exit
  <2> QED BY <1>0, <1>1, <1>2, <2>1 DEF RunFields
<1>4. CASE Option
  <2>1. \/ /\ run' = [NoRun EXCEPT !.line = run.line, !.stage = "done"]
           /\ result'.command = "p"
        \/ DOMAIN run' = RunFields /\ run'.line = run.line /\ run'.stage = run.stage
    <3>1. CASE OptionError # "none"
      BY <1>4, <3>1 DEF Option, usage, Exit
    <3>2. CASE OptionError = "none"
      BY <1>0, <1>4, <3>2 DEF Option, RunFields
    <3> QED BY <3>1, <3>2
  <2>2. run.stage = "loop"
    BY <1>4 DEF Option
  <2> QED BY <1>1, <1>2, <2>1, <2>2
<1>5. CASE Execute
  BY <1>1, <1>5 DEF Execute, usage, operation, Exit
<1> QED BY <1>3, <1>4, <1>5

\* Between two processes: the next is begun, its output read, the repository edited.
LEMMA BetweenKeeps ==
    ASSUME CommandsInv,
           \/ Collect \/ EditMarker \/ \E line \in Lines : Begin(line)
           \/ \E e \in Edits : EditDoc(e.path, e.source)
    PROVE  CommandsInv'
<1>1. CASE Collect
  BY <1>1 DEF Collect, workspace, NoRun, RunFields, CommandsInv, DocsAreDocs, Dispatched,
     AppliedPasses, Finished
<1>2. ASSUME NEW line \in Lines, Begin(line) PROVE CommandsInv'
  BY <1>2 DEF Begin, workspace, NoRun, RunFields, CommandsInv, DocsAreDocs, Dispatched,
     AppliedPasses, Finished
<1>3. CASE EditMarker \/ \E e \in Edits : EditDoc(e.path, e.source)
  <2>1. run' = run /\ run.stage = "idle"
    BY <1>3 DEF EditMarker, EditDoc
  <2>2. DOMAIN docs' = DOMAIN docs /\ docs' = [p \in DOMAIN docs' |-> docs'[p]]
    BY <1>3 DEF EditMarker, EditDoc, CommandsInv, DocsAreDocs
  <2> QED BY <2>1, <2>2 DEF CommandsInv, DocsAreDocs, Dispatched, AppliedPasses, Finished
<1> QED BY <1>1, <1>2, <1>3

LEMMA ApplyKeeps ==
    ASSUME CommandsInv, NEW reaches \in BOOLEAN, NEW scans \in BOOLEAN, apply(reaches, scans)
    PROVE  CommandsInv'
<1>1. /\ AppliedPasses' /\ DOMAIN docs' = DOMAIN docs
      /\ docs' = [p \in DOMAIN docs' |-> docs'[p]]
      /\ run' = [NoRun EXCEPT !.line = run.line, !.stage = "done"]
  BY ApplyPasses
<1>2. run.line \in Lines
  BY DEF CommandsInv, Dispatched, apply, Subcommand
<1> QED BY <1>1, <1>2 DEF CommandsInv, DocsAreDocs, Dispatched, NoRun, RunFields

-----------------------------------------------------------------------------

LEMMA CommandsInvInit == Init => CommandsInv
  BY CommandsAssumption DEF Init, NoRun, RunFields, CommandsInv, DocsAreDocs, Dispatched,
     AppliedPasses, Finished

LEMMA CommandsInvNext == CommandsInv /\ [Next]_vars => CommandsInv'
<1> SUFFICES ASSUME CommandsInv, [Next]_vars PROVE CommandsInv'
  OBVIOUS
<1>1. CASE UNCHANGED vars
  <2>1. UNCHANGED <<docs, run, result>>
    BY <1>1 DEF vars
  <2> QED BY <2>1 DEF CommandsInv, DocsAreDocs, Dispatched, AppliedPasses, Finished, Command,
             UsageError, Has, RetrievalUsage, MaintainUsage, AgentsUsage, DoctorUsage,
             Positional, Rest
<1> QED BY <1>1, DispatchKeeps, OneStepKeeps, PromptKeeps, ApplyKeeps, BetweenKeeps
        DEF Next, Process

\* The invariant holds of every sequence of processes (main.rs of bran-cli).
THEOREM CommandsInvHolds == CommandsSpec => []CommandsInv
  BY CommandsInvInit, CommandsInvNext, PTL DEF CommandsSpec

\* For any command lines: a process changes documents only as an apply, at the
\* target and with the draft it names, under a digest printed for this draft and
\* the very source that is replaced.
THEOREM AlwaysReviewedOnly == CommandsSpec => ReviewedOnly
<1> DEFINE Reviewed ==
        run.stage # "idle" /\ docs' # docs =>
            LET line == run.line
                target == Targets[line[4]]
            IN  /\ Subcommand("apply") /\ marker
                /\ line[6] \in DOMAIN digests
                /\ digests[line[6]] = [target |-> target, draft |-> Drafts[line[5]],
                                       source |-> docs[target]]
                /\ \A p \in DOMAIN docs \ {target} : docs'[p] = docs[p]
                /\ docs'[target] \in {Drafts[line[5]], Absent}
                /\ docs'[target] # Drafts[line[5]] => result'.failure = "interrupted"
<1>1. CommandsInv /\ [Next]_vars => [Reviewed]_vars
  <2> SUFFICES ASSUME CommandsInv, Next, run.stage # "idle", docs' # docs PROVE Reviewed
    OBVIOUS
  <2>1. PICK reaches \in BOOLEAN, scans \in BOOLEAN : apply(reaches, scans)
    BY DEF Next, Process, Dispatch, Smoke, AgentsList, Doctor, do_check, Tui, Retrieve, propose,
       revalidate, CredentialFlags, Option, Execute, Reports, workspace, Collect, Begin,
       EditDoc, EditMarker
  <2> QED BY <2>1, ApplyWrites
<1> QED BY <1>1, CommandsInvHolds, PTL DEF CommandsSpec, ReviewedOnly

\* After an apply that exits with 0, for any documents: the draft is in place and
\* the repository passes both profiles.
THEOREM AlwaysAppliedPasses == CommandsSpec => []AppliedPasses
<1>1. CommandsInv => AppliedPasses
  BY DEF CommandsInv
<1> QED BY <1>1, CommandsInvHolds, PTL

-----------------------------------------------------------------------------
(* -p.  An option begins with two dashes and neither a value nor the prompt   *)
(* does, so that the places of the options are determined by the line: those  *)
(* the loop has passed are OptionsUpTo its place, and a grammar reading of    *)
(* the whole line can only be the same one.                                   *)

OptionsUpTo(p) == {i \in 1 .. p : IsOption(Args[i])}
ValuesBehind(S) == {i + 1 : i \in {i \in S : Args[i] \in Valued}}

Decoded == Args \in Seq(STRING) /\ \A i \in DOMAIN Args : Args[i] # Undecodable

\* The arguments up to place p are options with their values.
LineUpTo(p) ==
    LET S == OptionsUpTo(p)
    IN  /\ ValuesBehind(S) = (1 .. p) \ S
        /\ \A i \in S : Args[i] \in Valued \cup Flags
        /\ \A i, j \in S : Args[i] = Args[j] => i = j
        /\ \A i \in (1 .. p) \ S : Args[i] \notin Blank

\* The parsed options are those of the places S, with their values.
Holds(options, S) ==
    /\ DOMAIN options = {Args[i] : i \in S}
    /\ \A i \in S : Args[i] \in Valued => options[Args[i]] = Args[i + 1]

ParsedUpTo(p) == LineUpTo(p) /\ Holds(run.options, OptionsUpTo(p))

\* The option loop: all arguments before its place are options or values, or the
\* last of them is the prompt.
InLoop ==
    /\ run.i \in 1 .. Len(Args) + 1
    /\ \/ run.prompts = <<>> /\ ParsedUpTo(run.i - 1)
       \/ /\ run.i >= 2
          /\ run.prompts = <<Args[run.i - 1]>> /\ ~IsOption(Args[run.i - 1])
          /\ ParsedUpTo(run.i - 2)

PromptInv ==
    /\ run.stage # "done" => executed = 0
    /\ run.stage # "loop" => run.prompts = <<>> /\ run.options = <<>>
    /\ run.stage \in {"flags", "loop"} => Decoded
    /\ run.stage = "loop" => InLoop
    /\ PromptRunsOnce

-----------------------------------------------------------------------------
(* The grammar. *)

LEMMA OptionWords ==
    /\ \A arg \in Valued \cup Flags : IsOption(arg)
    /\ Valued \cap Flags = {} /\ \A arg \in Blank : ~IsOption(arg)
  BY DEF IsOption, Valued, Flags, Forbidden, Blank

\* In a line of the grammar the options stand where the dashes are.
LEMMA ReadsHere ==
    ASSUME Decoded, Args # <<>>, NEW T \in SUBSET (1 .. Len(Args) - 1), Reads(T)
    PROVE  T = OptionsUpTo(Len(Args) - 1)
<1> DEFINE n == Len(Args)
<1>1. n \in Nat
  BY DEF Decoded
<1>2. T \cup ValuesBehind(T) = 1 .. n - 1
  BY DEF Reads, ValuesBehind
<1>3. \A i \in T : IsOption(Args[i])
  BY OptionWords DEF Reads
<1>4. \A i \in ValuesBehind(T) : ~IsOption(Args[i])
  BY DEF Reads, ValuesBehind
<1> QED BY <1>2, <1>3, <1>4 DEF OptionsUpTo

\* What a reading of the line says of each place.
LEMMA Places ==
    ASSUME Decoded, Args # <<>>, Reads(OptionsUpTo(Len(Args) - 1))
    PROVE  LET n == Len(Args)
           IN  /\ n \in Nat /\ n >= 1
               /\ ~IsOption(Args[n]) /\ Args[n] \notin Blank
               /\ \A i \in 1 .. n - 1 : IsOption(Args[i]) =>
                      /\ Args[i] \in Valued \cup Flags
                      /\ Args[i] \in Valued =>
                            i + 1 <= n - 1 /\ ~IsOption(Args[i + 1]) /\ Args[i + 1] \notin Blank
               /\ \A i \in 1 .. n - 1 : ~IsOption(Args[i]) => i >= 2 /\ Args[i - 1] \in Valued
               /\ \A i, j \in 1 .. n - 1 : IsOption(Args[i]) /\ Args[i] = Args[j] => i = j
<1> DEFINE n == Len(Args)
           T == OptionsUpTo(n - 1)
<1>1. n \in Nat /\ n >= 1
  BY DEF Decoded
<1>2. T = {i \in 1 .. n - 1 : IsOption(Args[i])}
  BY DEF OptionsUpTo
<1>3. /\ T \cup ValuesBehind(T) = 1 .. n - 1
      /\ \A i, j \in T : Args[i] \in Valued \cup Flags /\ (Args[i] = Args[j] => i = j)
      /\ \A i \in ValuesBehind(T) \cup {n} : ~IsOption(Args[i]) /\ Args[i] \notin Blank
  BY DEF Reads, ValuesBehind
<1> HIDE DEF T
<1>4. \A i \in 1 .. n - 1 : IsOption(Args[i]) =>
          /\ Args[i] \in Valued \cup Flags
          /\ Args[i] \in Valued =>
                i + 1 <= n - 1 /\ ~IsOption(Args[i + 1]) /\ Args[i + 1] \notin Blank
  <2> SUFFICES ASSUME NEW i \in 1 .. n - 1, IsOption(Args[i])
               PROVE  /\ Args[i] \in Valued \cup Flags
                      /\ Args[i] \in Valued =>
                            i + 1 <= n - 1 /\ ~IsOption(Args[i + 1]) /\ Args[i + 1] \notin Blank
    OBVIOUS
  <2>1. i \in T
    BY <1>2
  <2>2. Args[i] \in Valued => i + 1 \in ValuesBehind(T)
    BY <2>1 DEF ValuesBehind
  <2> QED BY <1>1, <1>3, <2>1, <2>2
<1>5. \A i \in 1 .. n - 1 : ~IsOption(Args[i]) => i >= 2 /\ Args[i - 1] \in Valued
  <2> SUFFICES ASSUME NEW i \in 1 .. n - 1, ~IsOption(Args[i])
               PROVE  i >= 2 /\ Args[i - 1] \in Valued
    OBVIOUS
  <2>1. i \in ValuesBehind(T)
    BY <1>2, <1>3
  <2>2. PICK k \in T : Args[k] \in Valued /\ i = k + 1
    BY <2>1 DEF ValuesBehind
  <2> QED BY <1>1, <1>2, <2>2
<1>6. \A i, j \in 1 .. n - 1 : IsOption(Args[i]) /\ Args[i] = Args[j] => i = j
  BY <1>2, <1>3
<1> QED BY <1>1, <1>3, <1>4, <1>5, <1>6

\* The grants that the values of a line are checked for.
Grants(S) ==
    /\ ValuesOf(S, "--agent") # {} /\ ValuesOf(S, "--agent") \subseteq {"sol", "luna"}
    /\ ValuesOf(S, "--reasoning") \subseteq ReasoningLevels
    /\ \A value \in ValuesOf(S, "--tools") : ReadOnly(NamesOf(value))
    /\ ValuesOf(S, "--provider") \subseteq {"fixture-provider"}
    /\ ValuesOf(S, "--model") \subseteq {"fixture-sol", "fixture-luna"}
    /\ Args[Len(Args)] \notin Oversized

\* There is one reading to look at.
LEMMA DelegableHere ==
    ASSUME Decoded
    PROVE  Delegable <=> /\ Args # <<>>
                         /\ Reads(OptionsUpTo(Len(Args) - 1)) /\ Grants(OptionsUpTo(Len(Args) - 1))
<1> DEFINE T == OptionsUpTo(Len(Args) - 1)
<1>1. T \in SUBSET (1 .. Len(Args) - 1)
  BY DEF OptionsUpTo
<1> HIDE DEF T
<1>2. ASSUME Delegable PROVE Args # <<>> /\ Reads(T) /\ Grants(T)
  <2>1. Args # <<>>
    BY <1>2 DEF Delegable
  <2>2. PICK S \in SUBSET (1 .. Len(Args) - 1) : Reads(S) /\ Grants(S)
    BY <1>2 DEF Delegable, Grants
  <2>3. S = T
    BY <2>1, <2>2, ReadsHere DEF T
  <2> QED BY <2>1, <2>2, <2>3
<1>3. ASSUME Args # <<>>, Reads(T), Grants(T) PROVE Delegable
  BY <1>1, <1>3 DEF Delegable, Decoded, Grants
<1> QED BY <1>2, <1>3 DEF T

\* A prefix that the loop has read, place by place.
LEMMA ParsedPlaces ==
    ASSUME NEW p \in Nat, ParsedUpTo(p)
    PROVE  /\ \A i \in 1 .. p : Args[i] \in Valued => i + 1 <= p /\ ~IsOption(Args[i + 1])
           /\ \A i \in 1 .. p : ~IsOption(Args[i]) => i >= 2 /\ Args[i - 1] \in Valued
           /\ \A i \in 1 .. p : IsOption(Args[i]) => Args[i] \in Valued \cup Flags
           /\ \A i, j \in 1 .. p : IsOption(Args[i]) /\ Args[i] = Args[j] => i = j
<1> DEFINE S == OptionsUpTo(p)
<1>1. S = {i \in 1 .. p : IsOption(Args[i])}
  BY DEF OptionsUpTo
<1>2. /\ ValuesBehind(S) = (1 .. p) \ S
      /\ \A i \in S : Args[i] \in Valued \cup Flags
      /\ \A i, j \in S : Args[i] = Args[j] => i = j
  BY DEF ParsedUpTo, LineUpTo
<1> HIDE DEF S
<1>3. \A i \in 1 .. p : Args[i] \in Valued => i + 1 <= p /\ ~IsOption(Args[i + 1])
  <2> SUFFICES ASSUME NEW i \in 1 .. p, Args[i] \in Valued
               PROVE  i + 1 <= p /\ ~IsOption(Args[i + 1])
    OBVIOUS
  <2>1. i + 1 \in ValuesBehind(S)
    BY <1>1, OptionWords DEF ValuesBehind
  <2> QED BY <1>1, <1>2, <2>1
<1>4. \A i \in 1 .. p : ~IsOption(Args[i]) => i >= 2 /\ Args[i - 1] \in Valued
  <2> SUFFICES ASSUME NEW i \in 1 .. p, ~IsOption(Args[i])
               PROVE  i >= 2 /\ Args[i - 1] \in Valued
    OBVIOUS
  <2>1. i \in ValuesBehind(S)
    BY <1>1, <1>2
  <2>2. PICK k \in S : Args[k] \in Valued /\ i = k + 1
    BY <2>1 DEF ValuesBehind
  <2> QED BY <1>1, <2>2
<1> QED BY <1>1, <1>2, <1>3, <1>4

-----------------------------------------------------------------------------
(* The loop. *)

\* No usage error of the loop meets a line of the grammar.
LEMMA LoopRefuses ==
    ASSUME Decoded, InLoop, run.i <= Len(Args), OptionError # "none"
    PROVE  ~Delegable
<1> SUFFICES ASSUME Delegable PROVE FALSE
  OBVIOUS
<1> DEFINE n == Len(Args)
           k == run.i
<1>1. Args # <<>> /\ Reads(OptionsUpTo(n - 1))
  BY DelegableHere
<1>2. /\ n \in Nat /\ n >= 1 /\ ~IsOption(Args[n]) /\ Args[n] \notin Blank
      /\ \A i \in 1 .. n - 1 : IsOption(Args[i]) =>
             /\ Args[i] \in Valued \cup Flags
             /\ Args[i] \in Valued =>
                   i + 1 <= n - 1 /\ ~IsOption(Args[i + 1]) /\ Args[i + 1] \notin Blank
      /\ \A i \in 1 .. n - 1 : ~IsOption(Args[i]) => i >= 2 /\ Args[i - 1] \in Valued
      /\ \A i, j \in 1 .. n - 1 : IsOption(Args[i]) /\ Args[i] = Args[j] => i = j
  BY <1>1, Places
<1>3. k \in 1 .. n
  BY <1>2 DEF InLoop
<1>4. IsOption(Args[k]) => k \in 1 .. n - 1
  BY <1>2, <1>3
<1>5. CASE run.prompts # <<>>
  <2>1. k >= 2 /\ ~IsOption(Args[k - 1]) /\ ParsedUpTo(k - 2)
    BY <1>5 DEF InLoop
  <2>2. k - 1 \in 1 .. n - 1 /\ k - 2 \in Nat
    BY <1>2, <1>3, <2>1
  <2>3. k - 1 >= 2 /\ Args[k - 2] \in Valued
    <3>1. k - 1 >= 2 /\ Args[(k - 1) - 1] \in Valued
      BY <1>2, <2>1, <2>2
    <3>2. (k - 1) - 1 = k - 2
      BY <1>3
    <3> QED BY <3>1, <3>2
  <2>4. k - 2 \in 1 .. k - 2
    BY <1>3, <2>3
  <2>5. (k - 2) + 1 <= k - 2
    BY <2>1, <2>2, <2>3, <2>4, ParsedPlaces
  <2> QED BY <1>3, <2>5
<1>6. CASE run.prompts = <<>>
  <2>0. k - 1 \in Nat /\ ParsedUpTo(k - 1)
    BY <1>3, <1>6 DEF InLoop
  <2>1. CASE Repeated(Args[k])
    <3>1. PICK j \in OptionsUpTo(k - 1) : Args[j] = Args[k]
      BY <2>0, <2>1 DEF Repeated, ParsedUpTo, Holds
    <3>2. j \in 1 .. k - 1 /\ IsOption(Args[j])
      BY <3>1 DEF OptionsUpTo
    <3>3. k \in 1 .. n - 1 /\ j \in 1 .. n - 1
      BY <1>3, <1>4, <3>1, <3>2
    <3> QED BY <1>2, <1>3, <3>1, <3>2, <3>3
  <2>2. CASE Args[k] \in Valued /\ ~IsValue(k + 1)
    <3>1. k \in 1 .. n - 1 /\ IsOption(Args[k])
      BY <1>4, <2>2, OptionWords
    <3>2. k + 1 <= n - 1 /\ ~IsOption(Args[k + 1]) /\ Args[k + 1] \notin Blank
      BY <1>2, <2>2, <3>1
    <3> QED BY <1>2, <1>3, <2>2, <3>2 DEF IsValue
  <2>3. CASE Args[k] \notin Valued \cup Flags /\ IsOption(Args[k])
    BY <1>2, <1>4, <2>3
  <2> QED BY <1>6, <2>1, <2>2, <2>3 DEF OptionError
<1> QED BY <1>5, <1>6

\* The places of the options, one argument further and two.
LEMMA NextOptions ==
    ASSUME NEW k \in Nat \ {0}
    PROVE  /\ IsOption(Args[k]) => OptionsUpTo(k) = OptionsUpTo(k - 1) \cup {k}
           /\ IsOption(Args[k]) /\ ~IsOption(Args[k + 1]) =>
                 OptionsUpTo(k + 1) = OptionsUpTo(k - 1) \cup {k}
           /\ k \notin OptionsUpTo(k - 1)
           /\ \A i \in OptionsUpTo(k - 1) : i \in Nat /\ i < k /\ IsOption(Args[i])
<1>1. 1 .. k = (1 .. k - 1) \cup {k} /\ 1 .. k + 1 = (1 .. k - 1) \cup {k, k + 1}
  OBVIOUS
<1>2. \A i \in 1 .. k - 1 : i \in Nat /\ i < k
  OBVIOUS
<1> QED BY <1>1, <1>2 DEF OptionsUpTo

\* An option that the loop accepts extends what it has read.
LEMMA LineGrows ==
    ASSUME NEW k \in Nat \ {0}, LineUpTo(k - 1), Args[k] \in Valued \cup Flags,
           \A i \in OptionsUpTo(k - 1) : Args[i] # Args[k]
    PROVE  /\ Args[k] \in Flags => LineUpTo(k)
           /\ Args[k] \in Valued /\ ~IsOption(Args[k + 1]) /\ Args[k + 1] \notin Blank
                 => LineUpTo(k + 1)
<1> DEFINE S == OptionsUpTo(k - 1)
<1>0. IsOption(Args[k])
  BY OptionWords
<1>1. /\ k \notin S /\ \A i \in S : i \in Nat /\ i < k /\ IsOption(Args[i])
      /\ OptionsUpTo(k) = S \cup {k}
      /\ ~IsOption(Args[k + 1]) => OptionsUpTo(k + 1) = S \cup {k}
  BY <1>0, NextOptions
<1>2. /\ ValuesBehind(S) = (1 .. k - 1) \ S
      /\ \A i \in S : Args[i] \in Valued \cup Flags
      /\ \A i, j \in S : Args[i] = Args[j] => i = j
      /\ \A i \in (1 .. k - 1) \ S : Args[i] \notin Blank
  BY DEF LineUpTo
<1>3. S \subseteq 1 .. k - 1
  BY DEF OptionsUpTo
<1> HIDE DEF S
<1>4. /\ \A i \in S \cup {k} : Args[i] \in Valued \cup Flags
      /\ \A i, j \in S \cup {k} : Args[i] = Args[j] => i = j
  BY <1>1, <1>2 DEF S
<1>5. CASE Args[k] \in Flags
  <2>1. ValuesBehind(S \cup {k}) = ValuesBehind(S)
    BY <1>5, OptionWords DEF ValuesBehind
  <2>2. (1 .. k) \ (S \cup {k}) = (1 .. k - 1) \ S
    BY <1>3
  <2>3. LineUpTo(k)
    BY <1>1, <1>2, <1>4, <2>1, <2>2 DEF LineUpTo
  <2> QED BY <1>5, <2>3, OptionWords
<1>6. CASE Args[k] \in Valued /\ ~IsOption(Args[k + 1]) /\ Args[k + 1] \notin Blank
  <2>1. ValuesBehind(S \cup {k}) = ValuesBehind(S) \cup {k + 1}
    BY <1>6 DEF ValuesBehind
  <2>2. (1 .. k + 1) \ (S \cup {k}) = ((1 .. k - 1) \ S) \cup {k + 1}
    BY <1>3
  <2>3. LineUpTo(k + 1)
    BY <1>1, <1>2, <1>4, <1>6, <2>1, <2>2 DEF LineUpTo
  <2> QED BY <1>6, <2>3, OptionWords
<1> QED BY <1>5, <1>6

\* The options after the one at place k has been read.
LEMMA HoldsMore ==
    ASSUME NEW k \in Nat \ {0}, NEW options, NEW value, Holds(options, OptionsUpTo(k - 1)),
           Args[k] \notin DOMAIN options, Args[k] \in Valued => value = Args[k + 1]
    PROVE  Holds([o \in DOMAIN options \cup {Args[k]} |-> IF o = Args[k] THEN value ELSE options[o]],
                 OptionsUpTo(k - 1) \cup {k})
<1> DEFINE S == OptionsUpTo(k - 1)
           more == [o \in DOMAIN options \cup {Args[k]} |-> IF o = Args[k] THEN value ELSE options[o]]
<1>1. /\ DOMAIN options = {Args[i] : i \in S}
      /\ \A i \in S : Args[i] \in Valued => options[Args[i]] = Args[i + 1]
  BY DEF Holds
<1> HIDE DEF S
<1>2. DOMAIN more = {Args[i] : i \in S \cup {k}}
  BY <1>1
<1>3. \A i \in S \cup {k} : Args[i] \in Valued => more[Args[i]] = Args[i + 1]
  BY <1>1
<1> QED BY <1>2, <1>3 DEF Holds, S

\* The loop has read up to place p, and maybe the prompt behind it.
LEMMA InLoopNext ==
    ASSUME Args' = Args, NEW p \in Nat, LineUpTo(p), Holds(run'.options, OptionsUpTo(p)),
           run'.i \in 1 .. Len(Args) + 1,
           \/ run'.prompts = <<>> /\ run'.i = p + 1
           \/ run'.prompts = <<Args[p + 1]>> /\ run'.i = p + 2 /\ ~IsOption(Args[p + 1])
    PROVE  InLoop'
<1>1. LineUpTo(p)' = LineUpTo(p) /\ OptionsUpTo(p)' = OptionsUpTo(p)
  BY DEF LineUpTo, OptionsUpTo, ValuesBehind
<1>2. CASE run'.prompts = <<>> /\ run'.i = p + 1
  <2>1. run'.i - 1 = p
    BY <1>2
  <2>2. ParsedUpTo(run.i - 1)'
    <3>1. OptionsUpTo(run.i - 1)' = OptionsUpTo(p)
      BY <2>1 DEF OptionsUpTo
    <3>2. LineUpTo(run.i - 1)'
      BY <2>1, <3>1 DEF LineUpTo, ValuesBehind
    <3>3. Holds(run.options, OptionsUpTo(run.i - 1))'
      BY <3>1 DEF Holds
    <3> QED BY <3>2, <3>3 DEF ParsedUpTo
  <2> QED BY <1>2, <2>2 DEF InLoop
<1>3. CASE run'.prompts = <<Args[p + 1]>> /\ run'.i = p + 2 /\ ~IsOption(Args[p + 1])
  <2>1. run'.i - 2 = p /\ run'.i - 1 = p + 1 /\ run'.i >= 2
    BY <1>3
  <2>2. ParsedUpTo(run.i - 2)'
    <3>1. OptionsUpTo(run.i - 2)' = OptionsUpTo(p)
      BY <2>1 DEF OptionsUpTo
    <3>2. LineUpTo(run.i - 2)'
      BY <2>1, <3>1 DEF LineUpTo, ValuesBehind
    <3>3. Holds(run.options, OptionsUpTo(run.i - 2))'
      BY <3>1 DEF Holds
    <3> QED BY <3>2, <3>3 DEF ParsedUpTo
  <2> QED BY <1>3, <2>1, <2>2 DEF InLoop
<1> QED BY <1>2, <1>3

\* One turn of the loop that finds no error.
LEMMA LoopGoesOn ==
    ASSUME Decoded, InLoop, DOMAIN run = RunFields, Option, OptionError = "none"
    PROVE  /\ run'.stage = "loop" /\ run'.line = run.line /\ DOMAIN run' = RunFields
           /\ InLoop'
<1> DEFINE n == Len(Args)
           k == run.i
           arg == Args[k]
           value == IF arg \in Valued THEN Args[k + 1] ELSE "set"
           options == [o \in DOMAIN run.options \cup {arg} |->
                          IF o = arg THEN value ELSE run.options[o]]
<1>1. /\ run.stage = "loop" /\ k \in 1 .. n /\ n \in Nat
      /\ run' = IF arg \in Valued \cup Flags
                THEN [run EXCEPT !.i = @ + (IF arg \in Valued THEN 2 ELSE 1), !.options = options]
                ELSE [run EXCEPT !.i = @ + 1, !.prompts = <<arg>>]
  BY DEF Option, InLoop, Decoded
<1>2. /\ run'.stage = "loop" /\ run'.line = run.line /\ DOMAIN run' = RunFields
  BY <1>1 DEF RunFields
<1>3. Args' = Args
  BY <1>2 DEF Args
<1>4. run.prompts = <<>> /\ ParsedUpTo(k - 1)
  <2>1. run.prompts = <<>>
    <3> SUFFICES ASSUME run.prompts # <<>> PROVE FALSE
      OBVIOUS
    <3>1. OptionError \in {"unknown_option", "too_many_positional"}
      BY DEF OptionError
    <3> QED BY <3>1
  <2> QED BY <2>1 DEF InLoop
<1>5. LineUpTo(k - 1) /\ Holds(run.options, OptionsUpTo(k - 1)) /\ k - 1 \in Nat /\ k \in Nat \ {0}
  BY <1>1, <1>4 DEF ParsedUpTo
<1>6. ~Repeated(arg)
  BY <1>4 DEF OptionError
<1>7. CASE arg \in Valued \cup Flags
  <2>1. \A i \in OptionsUpTo(k - 1) : Args[i] # arg
    BY <1>5, <1>6 DEF Holds, Repeated
  <2>2. Holds(options, OptionsUpTo(k - 1) \cup {k})
    <3>1. arg \notin DOMAIN run.options /\ (arg \in Valued => value = Args[k + 1])
      BY <1>6 DEF Repeated
    <3> HIDE DEF value
    <3>2. Holds([o \in DOMAIN run.options \cup {arg} |->
                   IF o = arg THEN value ELSE run.options[o]], OptionsUpTo(k - 1) \cup {k})
      BY <1>5, <3>1, HoldsMore
    <3> QED BY <3>2
  <2>3. IsOption(arg)
    BY <1>7, OptionWords
  <2> HIDE DEF options
  <2>4. CASE arg \in Valued
    <3>1. k + 1 <= n /\ ~IsOption(Args[k + 1]) /\ Args[k + 1] \notin Blank
      BY <1>4, <1>6, <2>4 DEF OptionError, IsValue
    <3>2. LineUpTo(k + 1) /\ OptionsUpTo(k + 1) = OptionsUpTo(k - 1) \cup {k}
      BY <1>5, <1>7, <2>1, <2>3, <2>4, <3>1, LineGrows, NextOptions
    <3>3. /\ run'.i = k + 2 /\ run'.options = options /\ run'.prompts = <<>>
      BY <1>1, <1>4, <2>4 DEF RunFields
    <3>4. Holds(run'.options, OptionsUpTo(k + 1))
      BY <2>2, <3>2, <3>3
    <3>5. k + 1 \in Nat /\ run'.i = (k + 1) + 1 /\ run'.i \in 1 .. Len(Args) + 1
      BY <1>1, <3>1, <3>3
    <3>6. InLoop'
      BY <1>3, <3>2, <3>3, <3>4, <3>5, InLoopNext
    <3> QED BY <1>2, <3>6
  <2>5. CASE arg \in Flags
    <3>1. LineUpTo(k) /\ OptionsUpTo(k) = OptionsUpTo(k - 1) \cup {k}
      BY <1>5, <1>7, <2>1, <2>3, <2>5, LineGrows, NextOptions
    <3>2. arg \notin Valued
      BY <2>5, OptionWords
    <3>3. /\ run'.i = k + 1 /\ run'.options = options /\ run'.prompts = <<>>
      BY <1>1, <1>4, <2>5, <3>2 DEF RunFields
    <3>4. Holds(run'.options, OptionsUpTo(k))
      BY <2>2, <3>1, <3>3
    <3>5. k \in Nat /\ run'.i \in 1 .. Len(Args) + 1
      BY <1>1, <3>3
    <3>6. InLoop'
      BY <1>3, <3>1, <3>3, <3>4, <3>5, InLoopNext
    <3> QED BY <1>2, <3>6
  <2> QED BY <1>7, <2>4, <2>5
<1>8. CASE arg \notin Valued \cup Flags
  <2>1. ~IsOption(arg)
    BY <1>4, <1>6, <1>8 DEF OptionError
  <2>2. run'.i = k + 1 /\ run'.options = run.options /\ run'.prompts = <<arg>>
    BY <1>1, <1>8 DEF RunFields
  <2>3. /\ run'.prompts = <<Args[(k - 1) + 1]>> /\ run'.i = (k - 1) + 2
        /\ ~IsOption(Args[(k - 1) + 1]) /\ run'.i \in 1 .. Len(Args) + 1
    <3>1. (k - 1) + 1 = k
      BY <1>1
    <3> QED BY <1>1, <2>1, <2>2, <3>1
  <2>4. Holds(run'.options, OptionsUpTo(k - 1))
    BY <1>5, <2>2
  <2>5. InLoop'
    BY <1>3, <1>5, <2>3, <2>4, InLoopNext
  <2> QED BY <1>2, <2>5
<1> QED BY <1>7, <1>8

-----------------------------------------------------------------------------
(* Behind the loop. *)

\* parse_tools accepts the lists that name reading tools, each once.
LEMMA ToolsReadOnly ==
    ASSUME NEW names \in Seq(STRING)
    PROVE  ToolError(names) = "none" <=> ReadOnly(names)
<1> DEFINE bad == {i \in DOMAIN names :
                     names[i] \notin {"read", "search"} \/ \E j \in 1 .. i - 1 : names[j] = names[i]}
<1>1. DOMAIN names = 1 .. Len(names) /\ Len(names) \in Nat
  OBVIOUS
<1>2. bad = {} <=> ReadOnly(names)
  <2>1. ASSUME bad = {} PROVE ReadOnly(names)
    <3> SUFFICES ASSUME NEW i \in DOMAIN names, NEW j \in DOMAIN names
                 PROVE  names[i] \in {"read", "search"} /\ (names[i] = names[j] => i = j)
      BY DEF ReadOnly
    <3>1. /\ names[i] \in {"read", "search"}
          /\ ~\E h \in 1 .. i - 1 : names[h] = names[i]
          /\ ~\E h \in 1 .. j - 1 : names[h] = names[j]
      BY <2>1
    <3>2. i \in 1 .. j - 1 \/ j \in 1 .. i - 1 \/ i = j
      BY <1>1
    <3> QED BY <3>1, <3>2
  <2>2. ASSUME ReadOnly(names), NEW i \in bad PROVE FALSE
    <3>1. i \in DOMAIN names /\ names[i] \in {"read", "search"}
      BY <2>2 DEF ReadOnly
    <3>2. PICK j \in 1 .. i - 1 : names[j] = names[i]
      BY <2>2, <3>1
    <3>3. j \in DOMAIN names /\ j # i
      BY <1>1, <3>1, <3>2
    <3> QED BY <2>2, <3>1, <3>2, <3>3 DEF ReadOnly
  <2> QED BY <2>1, <2>2
<1>3. (\E i \in DOMAIN names : names[i] \in Blank) => bad # {}
  BY DEF Blank
<1>4. ToolError(names) = "none" <=> bad = {}
  <2>1. CASE \E i \in DOMAIN names : names[i] \in Blank
    BY <1>3, <2>1 DEF ToolError
  <2>2. CASE ~(\E i \in DOMAIN names : names[i] \in Blank) /\ bad = {}
    BY <2>2 DEF ToolError
  <2>3. CASE ~(\E i \in DOMAIN names : names[i] \in Blank) /\ bad # {}
    <3>1. ToolError(names) \in {"duplicate_tool", "denied_tool"}
      BY <2>3 DEF ToolError
    <3> QED BY <2>3, <3>1
  <2> QED BY <2>1, <2>2, <2>3
<1> QED BY <1>2, <1>4

\* The line and the option values decide alike.
LEMMA GrantsExact ==
    ASSUME Decoded, Args # <<>>, ParsedUpTo(Len(Args) - 1), run.prompts = <<Args[Len(Args)]>>,
           Args[Len(Args)] \notin Blank
    PROVE  RequestError = "none" <=> Grants(OptionsUpTo(Len(Args) - 1))
<1> DEFINE S == OptionsUpTo(Len(Args) - 1)
           o == run.options
           given == DOMAIN o
           tools == o["--tools"]
<1>1. /\ given = {Args[i] : i \in S}
      /\ \A i \in S : Args[i] \in Valued => o[Args[i]] = Args[i + 1]
      /\ \A i \in S : Args[i] \in Valued => i + 1 \in DOMAIN Args
      /\ Args \in Seq(STRING)
  <2>1. \A i \in S : i \in 1 .. Len(Args) - 1 /\ i + 1 \in DOMAIN Args
    BY DEF OptionsUpTo, Decoded
  <2> QED BY <2>1 DEF ParsedUpTo, Holds, Decoded
<1> HIDE DEF S
<1> SUFFICES RequestError = "none" <=> Grants(S)
  BY DEF S
<1>2. ASSUME NEW option \in Valued
      PROVE  ValuesOf(S, option) = IF option \in given THEN {o[option]} ELSE {}
  BY <1>1 DEF ValuesOf
<1>3. {"--agent", "--reasoning", "--tools", "--provider", "--model"} = Valued
  BY DEF Valued
<1>4. /\ ValuesOf(S, "--agent") = IF "--agent" \in given THEN {o["--agent"]} ELSE {}
      /\ ValuesOf(S, "--reasoning") = IF "--reasoning" \in given THEN {o["--reasoning"]} ELSE {}
      /\ ValuesOf(S, "--tools") = IF "--tools" \in given THEN {o["--tools"]} ELSE {}
      /\ ValuesOf(S, "--provider") = IF "--provider" \in given THEN {o["--provider"]} ELSE {}
      /\ ValuesOf(S, "--model") = IF "--model" \in given THEN {o["--model"]} ELSE {}
  BY <1>2, <1>3
<1>5. "--tools" \in given =>
          (ToolError(NamesOf(tools)) = "none" <=> ReadOnly(NamesOf(tools)))
  <2> SUFFICES ASSUME "--tools" \in given
               PROVE  ToolError(NamesOf(tools)) = "none" <=> ReadOnly(NamesOf(tools))
    OBVIOUS
  <2>1. tools \in STRING
    BY <1>1, <1>3
  <2>2. NamesOf(tools) \in Seq(STRING)
    <3>1. tools \in DOMAIN ToolLists => ToolLists[tools] \in Seq(STRING)
      BY CommandsAssumption
    <3>2. <<tools>> \in Seq(STRING)
      BY <2>1
    <3> HIDE DEF tools
    <3> QED BY <3>1, <3>2 DEF NamesOf
  <2> QED BY <2>2, ToolsReadOnly
<1> DEFINE agent == "--agent" \in given /\ o["--agent"] \in {"sol", "luna"}
           reasoning == "--reasoning" \in given => o["--reasoning"] \in ReasoningLevels
           toolsOk == "--tools" \in given => ReadOnly(NamesOf(tools))
           provider == "--provider" \in given => o["--provider"] = "fixture-provider"
           model == "--model" \in given => o["--model"] \in {"fixture-sol", "fixture-luna"}
           fits == run.prompts[1] \notin Oversized
<1>6. Grants(S) <=> agent /\ reasoning /\ toolsOk /\ provider /\ model /\ fits
  <2>1. run.prompts[1] = Args[Len(Args)]
    OBVIOUS
  <2> QED BY <1>4, <2>1 DEF Grants
<1>7. /\ DOMAIN Models = {"sol", "luna"} /\ Provider = "fixture-provider"
      /\ {Models[a] : a \in DOMAIN Models} = {"fixture-sol", "fixture-luna"}
  BY DEF Models, Provider
<1>8. run.prompts # <<>> /\ run.prompts[1] \notin Blank
  OBVIOUS
<1> DEFINE rest == IF "--tools" \in given /\ ToolError(NamesOf(tools)) # "none"
                   THEN ToolError(NamesOf(tools))
                   ELSE IF o["--agent"] \notin DOMAIN Models THEN "unknown_profile"
                   ELSE IF "--provider" \in given /\ o["--provider"] # Provider THEN "unknown_provider"
                   ELSE IF "--model" \in given /\ o["--model"] \notin {Models[a] : a \in DOMAIN Models}
                   THEN "unknown_model"
                   ELSE IF run.prompts[1] \in Oversized THEN "invalid_identity" ELSE "none"
<1>9. CASE "--agent" \notin given
  <2>1. RequestError = "missing_agent"
    BY <1>8, <1>9 DEF RequestError
  <2> QED BY <1>6, <1>9, <2>1
<1>10. CASE "--agent" \in given /\ ~reasoning
  <2>1. RequestError = "invalid_reasoning"
    BY <1>8, <1>10 DEF RequestError
  <2> QED BY <1>6, <1>10, <2>1
<1>11. CASE "--agent" \in given /\ reasoning
  <2>1. RequestError = rest
    BY <1>8, <1>11 DEF RequestError
  <2>2. rest = "none" <=> toolsOk /\ o["--agent"] \in {"sol", "luna"} /\ provider /\ model
                             /\ fits
    BY <1>5, <1>7
  <2> HIDE DEF rest
  <2> QED BY <1>6, <1>11, <2>1, <2>2
<1> QED BY <1>9, <1>10, <1>11

\* Behind the loop the request is accepted when the line is one of the grammar.
LEMMA RequestExact ==
    ASSUME Decoded, InLoop, run.i > Len(Args)
    PROVE  RequestError = "none" <=> Delegable
<1> DEFINE n == Len(Args)
<1>1. n \in Nat /\ run.i = n + 1
  <2>1. n \in Nat
    BY DEF Decoded
  <2> QED BY <2>1 DEF InLoop
<1>2. CASE run.prompts = <<>>
  <2>1. RequestError = "missing_prompt"
    BY <1>2 DEF RequestError
  <2>2. ParsedUpTo(n)
    <3>1. run.i - 1 = n
      BY <1>1
    <3> QED BY <1>2, <3>1 DEF InLoop
  <2>3. ASSUME Delegable PROVE FALSE
    <3>1. Args # <<>> /\ Reads(OptionsUpTo(n - 1))
      BY <2>3, DelegableHere
    <3>2. /\ n >= 1 /\ ~IsOption(Args[n])
          /\ \A i \in 1 .. n - 1 : IsOption(Args[i]) /\ Args[i] \in Valued => i + 1 <= n - 1
      BY <3>1, Places
    <3>3. n >= 2 /\ Args[n - 1] \in Valued
      <4>1. n \in 1 .. n
        BY <1>1, <3>2
      <4> QED BY <1>1, <2>2, <3>2, <4>1, ParsedPlaces
    <3>4. n - 1 \in 1 .. n - 1 /\ IsOption(Args[n - 1])
      BY <1>1, <3>3, OptionWords
    <3>5. (n - 1) + 1 <= n - 1
      BY <3>2, <3>3, <3>4
    <3> QED BY <1>1, <3>5
  <2> QED BY <2>1, <2>3
<1>3. CASE run.prompts # <<>>
  <2>1. n >= 1 /\ run.prompts = <<Args[n]>> /\ ~IsOption(Args[n]) /\ ParsedUpTo(n - 1)
    <3>1. run.i - 1 = n /\ run.i - 2 = n - 1
      BY <1>1
    <3> QED BY <1>1, <1>3, <3>1 DEF InLoop
  <2>2. Args # <<>>
    BY <2>1 DEF Decoded
  <2>3. CASE Args[n] \in Blank
    <3>1. RequestError = "missing_prompt"
      BY <2>1, <2>3 DEF RequestError
    <3>2. ~Delegable
      BY <2>2, <2>3, DelegableHere, Places
    <3> QED BY <3>1, <3>2
  <2>4. CASE Args[n] \notin Blank
    <3> DEFINE S == OptionsUpTo(n - 1)
    <3>1. /\ ValuesBehind(S) = (1 .. n - 1) \ S
          /\ \A i \in S : Args[i] \in Valued \cup Flags
          /\ \A i, j \in S : Args[i] = Args[j] => i = j
          /\ \A i \in (1 .. n - 1) \ S : Args[i] \notin Blank
      BY <2>1 DEF ParsedUpTo, LineUpTo
    <3>2. S \subseteq 1 .. n - 1 /\ \A i \in (1 .. n - 1) \ S : ~IsOption(Args[i])
      BY DEF OptionsUpTo
    <3> HIDE DEF S
    <3>3. /\ S \cap ValuesBehind(S) = {} /\ S \cup ValuesBehind(S) = 1 .. n - 1
          /\ \A i \in ValuesBehind(S) \cup {n} : ~IsOption(Args[i]) /\ Args[i] \notin Blank
      BY <2>1, <2>4, <3>1, <3>2
    <3>4. Reads(S)
      BY <3>1, <3>3 DEF Reads, ValuesBehind
    <3>5. RequestError = "none" <=> Grants(S)
      BY <2>1, <2>2, <2>4, GrantsExact DEF S
    <3> QED BY <2>2, <3>4, <3>5, DelegableHere DEF S
  <2> QED BY <2>3, <2>4
<1> QED BY <1>2, <1>3

-----------------------------------------------------------------------------
(* The process. *)

\* The grammar looks at the line only.
LEMMA SameLine ==
    ASSUME run'.line = run.line
    PROVE  Args' = Args /\ Decoded' = Decoded /\ Delegable' = Delegable
<1>1. Args' = Args
  BY DEF Args
<1>2. Decoded' = Decoded
  BY <1>1 DEF Decoded
<1>3. Delegable' = Delegable
  BY <1>1 DEF Delegable, Reads, ValuesOf
<1> QED BY <1>1, <1>2, <1>3

\* A process that ends has called the runtime as often as its line says.
LEMMA PromptEnds ==
    ASSUME run' = [NoRun EXCEPT !.line = run.line, !.stage = "done"],
           result'.command = "p" => executed' = IF Delegable THEN 1 ELSE 0
    PROVE  PromptInv'
<1>1. /\ run'.stage = "done" /\ run'.line = run.line
      /\ run'.prompts = <<>> /\ run'.options = <<>>
  BY DEF NoRun
<1>2. Delegable' = Delegable
  BY <1>1, SameLine
<1>3. PromptRunsOnce'
  BY <1>2 DEF PromptRunsOnce, Finished
<1> QED BY <1>1, <1>3 DEF PromptInv

\* A line of `-p' that has been dispatched is a sequence of readable arguments.
LEMMA LineDecoded ==
    ASSUME CommandsInv, run.stage # "idle", Command = "-p"
    PROVE  /\ UsageError = "none" => Decoded
           /\ UsageError # "none" => UsageError = "invalid_utf8" /\ ~Delegable
<1>1. run.line \in Seq(STRING)
  BY CommandsAssumption DEF CommandsInv, Dispatched
<1>2. Has(1) /\ run.line[1] = "-p" /\ run.line # <<>> /\ run.line[1] # Undecodable
  BY DEF Command, Has, Undecodable
<1>3. /\ Args \in Seq(STRING) /\ Len(Args) = Len(run.line) - 1
      /\ \A i \in 1 .. Len(Args) : Args[i] = run.line[i + 1]
  <2>1. ASSUME NEW line \in Seq(STRING), line # <<>>
        PROVE  /\ Tail(line) \in Seq(STRING) /\ Len(Tail(line)) = Len(line) - 1
               /\ \A i \in 1 .. Len(Tail(line)) : Tail(line)[i] = line[i + 1]
    BY <2>1
  <2> QED BY <1>1, <1>2, <2>1 DEF Args
<1>4. UsageError = IF \E i \in DOMAIN run.line : run.line[i] = Undecodable
                   THEN "invalid_utf8" ELSE "none"
  BY <1>2 DEF UsageError
<1>5. DOMAIN run.line = 1 .. Len(run.line) /\ DOMAIN Args = 1 .. Len(Args) /\ Len(run.line) \in Nat
  BY <1>1, <1>3
<1>6. CASE \E i \in DOMAIN run.line : run.line[i] = Undecodable
  <2>1. PICK i \in DOMAIN run.line : run.line[i] = Undecodable
    BY <1>6
  <2>2. i - 1 \in DOMAIN Args /\ Args[i - 1] = Undecodable
    <3>1. i # 1
      BY <1>2, <2>1
    <3>2. i - 1 \in 1 .. Len(Args)
      BY <1>3, <1>5, <3>1
    <3>3. Args[i - 1] = run.line[(i - 1) + 1]
      BY <1>3, <3>2
    <3> QED BY <1>5, <2>1, <3>2, <3>3
  <2>3. ~Delegable
    BY <2>2 DEF Delegable
  <2> QED BY <1>4, <1>6, <2>3
<1>7. CASE \A i \in DOMAIN run.line : run.line[i] # Undecodable
  <2>1. Decoded
    BY <1>3, <1>5, <1>7 DEF Decoded
  <2> QED BY <1>4, <1>7, <2>1
<1> QED BY <1>6, <1>7

LEMMA PromptDispatch == ASSUME CommandsInv, PromptInv, Dispatch PROVE PromptInv'
<1>0. /\ run.stage = "dispatch" /\ executed' = executed /\ executed = 0
      /\ DOMAIN run = RunFields /\ run.prompts = <<>> /\ run.options = <<>>
  BY DEF Dispatch, Reports, PromptInv, CommandsInv, Dispatched
<1>1. CASE UsageError # "none"
  <2>1. /\ run' = [NoRun EXCEPT !.line = run.line, !.stage = "done"]
        /\ result'.command = Named
    BY <1>1 DEF Dispatch, usage, Exit
  <2>2. Named = "p" => ~Delegable
    <3> SUFFICES ASSUME Named = "p" PROVE ~Delegable
      OBVIOUS
    <3>1. CASE Command = "-p"
      BY <1>0, <1>1, <3>1, LineDecoded
    <3>2. CASE Command # "-p"
      <4>1. UsageError \notin {"missing_command", "unknown_command"}
        BY DEF Named
      <4>2. Command = "p"
        BY <3>2, <4>1 DEF Named
      <4>3. UsageError \in {"missing_command", "unknown_command"}
        BY <4>2 DEF UsageError
      <4> QED BY <4>1, <4>3
    <3> QED BY <3>1, <3>2
  <2> QED BY <1>0, <2>1, <2>2, PromptEnds
<1>2. CASE UsageError = "none"
  <2>1. Command \in {"smoke", "tui", "query", "packet", "check", "maintain", "agents",
                     "doctor", "-p"}
    BY <1>2 DEF UsageError, Command
  <2>2. run' = [run EXCEPT !.stage = IF Command = "-p" THEN "flags" ELSE Command]
    BY <1>2 DEF Dispatch
  <2>3. /\ run'.line = run.line /\ run'.prompts = <<>> /\ run'.options = <<>>
        /\ run'.stage = IF Command = "-p" THEN "flags" ELSE Command
    BY <1>0, <2>2 DEF RunFields
  <2>4. run'.stage \notin {"done", "loop"} /\ (run'.stage = "flags" => Command = "-p")
    BY <2>1, <2>3
  <2>5. run'.stage = "flags" => Decoded'
    BY <1>0, <1>2, <2>3, <2>4, LineDecoded, SameLine
  <2> QED BY <1>0, <2>3, <2>4, <2>5 DEF PromptInv, PromptRunsOnce, Finished
<1> QED BY <1>1, <1>2

\* A credential flag is in no line of the grammar.
LEMMA PromptCredentials == ASSUME CommandsInv, PromptInv, CredentialFlags PROVE PromptInv'
<1>0. /\ run.stage = "flags" /\ executed' = executed /\ executed = 0 /\ Decoded
      /\ DOMAIN run = RunFields /\ run.prompts = <<>> /\ run.options = <<>>
  BY DEF CredentialFlags, Reports, PromptInv, CommandsInv, Dispatched
<1>1. CASE \E i \in DOMAIN Args : Args[i] \in Forbidden
  <2>1. PICK i \in DOMAIN Args : Args[i] \in Forbidden
    BY <1>1
  <2>2. ASSUME Delegable PROVE FALSE
    <3>1. Args # <<>> /\ Reads(OptionsUpTo(Len(Args) - 1))
      BY <1>0, <2>2, DelegableHere
    <3>2. IsOption(Args[i]) /\ Args[i] \notin Valued \cup Flags
      BY <2>1 DEF IsOption, Forbidden, Valued, Flags
    <3>3. /\ Len(Args) \in Nat /\ ~IsOption(Args[Len(Args)])
          /\ \A j \in 1 .. Len(Args) - 1 : IsOption(Args[j]) => Args[j] \in Valued \cup Flags
      BY <1>0, <3>1, Places
    <3>4. i \in 1 .. Len(Args) - 1
      <4>1. i \in 1 .. Len(Args)
        BY <1>0 DEF Decoded
      <4> QED BY <3>2, <3>3, <4>1
    <3> QED BY <3>2, <3>3, <3>4
  <2>3. /\ run' = [NoRun EXCEPT !.line = run.line, !.stage = "done"]
        /\ result'.command = "p"
    BY <1>1 DEF CredentialFlags, usage, Exit
  <2> QED BY <1>0, <2>2, <2>3, PromptEnds
<1>2. CASE ~\E i \in DOMAIN Args : Args[i] \in Forbidden
  <2>1. run' = [run EXCEPT !.stage = "loop", !.i = 1]
    BY <1>2 DEF CredentialFlags
  <2>2. /\ run'.stage = "loop" /\ run'.i = 1 /\ run'.line = run.line
        /\ run'.prompts = <<>> /\ run'.options = <<>>
    BY <1>0, <2>1 DEF RunFields
  <2>3. Args' = Args /\ Decoded'
    BY <1>0, <2>2, SameLine
  <2>4. OptionsUpTo(0) = {} /\ LineUpTo(0)
    BY DEF LineUpTo, OptionsUpTo, ValuesBehind
  <2>5. Holds(run'.options, OptionsUpTo(0))
    BY <2>2, <2>4 DEF Holds
  <2>6. run'.i = 0 + 1 /\ run'.i \in 1 .. Len(Args) + 1
    BY <1>0, <2>2 DEF Decoded
  <2>7. InLoop'
    BY <2>2, <2>3, <2>4, <2>5, <2>6, InLoopNext
  <2> QED BY <1>0, <2>2, <2>3, <2>7 DEF PromptInv, PromptRunsOnce, Finished
<1> QED BY <1>1, <1>2

LEMMA PromptOption == ASSUME CommandsInv, PromptInv, Option PROVE PromptInv'
<1>0. /\ run.stage = "loop" /\ executed' = executed /\ executed = 0 /\ Decoded /\ InLoop
      /\ DOMAIN run = RunFields /\ run.i <= Len(Args)
  BY DEF Option, Reports, PromptInv, CommandsInv, Dispatched
<1>1. CASE OptionError # "none"
  <2>1. /\ run' = [NoRun EXCEPT !.line = run.line, !.stage = "done"]
        /\ result'.command = "p"
    BY <1>1 DEF Option, usage, Exit
  <2> QED BY <1>0, <1>1, <2>1, LoopRefuses, PromptEnds
<1>2. CASE OptionError = "none"
  <2>1. run'.stage = "loop" /\ run'.line = run.line /\ InLoop'
    BY <1>0, <1>2, LoopGoesOn
  <2> QED BY <1>0, <2>1, SameLine DEF PromptInv, PromptRunsOnce, Finished
<1> QED BY <1>1, <1>2

LEMMA PromptExecute == ASSUME CommandsInv, PromptInv, Execute PROVE PromptInv'
<1>0. run.stage = "loop" /\ executed = 0 /\ Decoded /\ InLoop /\ run.i > Len(Args)
  BY DEF Execute, PromptInv
<1>1. RequestError = "none" <=> Delegable
  BY <1>0, RequestExact
<1>2. /\ run' = [NoRun EXCEPT !.line = run.line, !.stage = "done"]
      /\ executed' = IF RequestError = "none" THEN 1 ELSE 0
  BY <1>0 DEF Execute, usage, operation, Exit
<1> QED BY <1>1, <1>2, PromptEnds

\* The other commands never reach the runtime.
LEMMA OthersKeepPrompt ==
    ASSUME CommandsInv, PromptInv,
           \/ Smoke \/ AgentsList \/ Doctor
           \/ \E b \in BOOLEAN : Tui(b) \/ Retrieve(b) \/ do_check(b) \/ propose(b) \/ revalidate(b)
           \/ \E reaches, scans \in BOOLEAN : apply(reaches, scans)
    PROVE  PromptInv'
<1>1. CASE \E reaches, scans \in BOOLEAN : apply(reaches, scans)
  <2>1. run' = [NoRun EXCEPT !.line = run.line, !.stage = "done"]
    BY <1>1, ApplyPasses
  <2>2. result'.command = "maintain.apply"
    BY <1>1 DEF apply, Applied, Interrupted, success, usage, operation, Exit
  <2> QED BY <2>1, <2>2, PromptEnds
<1>2. CASE ~\E reaches, scans \in BOOLEAN : apply(reaches, scans)
  <2>1. run' = [NoRun EXCEPT !.line = run.line, !.stage = "done"]
    BY <1>2 DEF Smoke, AgentsList, Doctor, do_check, propose, revalidate, Tui, Retrieve,
       success, usage, operation, Exit
  <2>2. result'.command # "p"
    BY <1>2, OneStepNamed
  <2> QED BY <2>1, <2>2, PromptEnds
<1> QED BY <1>1, <1>2

LEMMA PromptInvInit == Init => PromptInv
  BY DEF Init, NoRun, PromptInv, PromptRunsOnce, Finished

LEMMA PromptInvNext == CommandsInv /\ PromptInv /\ [Next]_vars => PromptInv'
<1> SUFFICES ASSUME CommandsInv, PromptInv, [Next]_vars PROVE PromptInv'
  OBVIOUS
<1>1. CASE UNCHANGED <<run, executed, result>>
  <2>1. Decoded' = Decoded /\ Delegable' = Delegable /\ Args' = Args
    BY <1>1, SameLine
  <2>2. InLoop' = InLoop
    BY <1>1, <2>1 DEF InLoop, ParsedUpTo, LineUpTo, Holds, OptionsUpTo, ValuesBehind
  <2> QED BY <1>1, <2>1, <2>2 DEF PromptInv, PromptRunsOnce, Finished
<1>2. CASE Collect \/ \E line \in Lines : Begin(line)
  <2>1. /\ run'.stage \in {"idle", "dispatch"} /\ run'.prompts = <<>> /\ run'.options = <<>>
        /\ executed' = 0
    <3>1. CASE Collect
      BY <3>1 DEF Collect, NoRun
    <3>2. ASSUME NEW line \in Lines, Begin(line)
          PROVE  /\ run'.stage = "dispatch" /\ run'.prompts = <<>> /\ run'.options = <<>>
                 /\ executed' = 0
      BY <3>2 DEF Begin, NoRun, PromptInv
    <3> QED BY <1>2, <3>1, <3>2
  <2> QED BY <2>1 DEF PromptInv, PromptRunsOnce, Finished
<1>3. (\E e \in Edits : EditDoc(e.path, e.source)) \/ EditMarker => UNCHANGED <<run, executed, result>>
  BY DEF EditDoc, EditMarker
<1> QED BY <1>1, <1>2, <1>3, PromptDispatch, PromptCredentials, PromptOption, PromptExecute,
           OthersKeepPrompt
        DEF Next, Process, vars

\* `bran -p', for any command line, tool lists, documents and edits: the runtime is
\* called once for a line of the grammar and never for another one.
THEOREM PromptAlwaysRunsOnce == CommandsSpec => []PromptRunsOnce
<1>1. PromptInv => PromptRunsOnce
  BY DEF PromptInv
<1> QED BY <1>1, PromptInvInit, PromptInvNext, CommandsInvHolds, PTL DEF CommandsSpec
=============================================================================
