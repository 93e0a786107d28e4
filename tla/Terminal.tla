------------------------------ MODULE Terminal ------------------------------
(***************************************************************************)
(* One bran terminal session after another: run_tui (bran-cli main.rs),    *)
(* TuiApp (bran-tui domain.rs), the terminal guard (lib.rs) and the write  *)
(* of .bran/settings.conf (apply_settings_using), one file system call a   *)
(* step. A session handles one event at a time, and the action it leaves   *)
(* is taken before the next. A session can be killed and the machine can   *)
(* lose power between any two steps, and another process may replace the   *)
(* file. Every session has the same pid, as in a container: the leftover   *)
(* temporary files of a killed one are in the way of the next.             *)
(***************************************************************************)
EXTENDS Settings

CONSTANTS Lines,            \* what the user may type
          EditLines,        \* the feature lines: [some Lines -> Seq(token)]
          Probe, LockSqz,   \* CapabilityProbe and Policy, fixed in a session
          Suffixes,         \* names tried for the temporary file (64)
          MaxApplies, MaxFaults

ASSUME TerminalAssumption ==
    /\ Probe \in Probes /\ LockSqz \in BOOLEAN
    /\ DOMAIN EditLines \subseteq STRING
    /\ Suffixes \in Nat \ {0}
    /\ {MaxApplies, MaxFaults} \subseteq Nat

VARIABLES
    running,
    step, flow, draft,
    resolved,   \* <<>> or a sequence of one resolution
    offered, marked,                \* app.suggestions, app.selection + 1
    saving,     \* "idle", "mkdir", "open", "write", "sync", "rename", "unlink"
    suffix,
    temps,      \* temporary files by suffix: Absent, or what is in them
    synced,     \* the bytes of the temporary file in hand are on the disk
    file,       \* .bran/settings.conf, as readers see it
    older,      \* what a power loss may bring back
    acked,      \* <<>>, or the settings last reported as applied, if nothing
                \* but this program touched the file since
    applies, faults         \* bounds

appVars == <<step, flow, draft, resolved, offered, marked>>
savingVars == <<saving, suffix, temps, synced>>
diskVars == <<file, older, acked>>
boundVars == <<applies, faults>>
terminalVars == <<running, appVars, savingVars, diskVars, boundVars>>

-----------------------------------------------------------------------------
(* Sessions. *)

Fresh ==
    /\ step' = "ProjectCheck" /\ flow' = "Quick" /\ draft' = QuickSafe
    /\ resolved' = <<>> /\ offered' = <<>> /\ marked' = 1

TerminalInit ==
    /\ running = FALSE
    /\ step = "ProjectCheck" /\ flow = "Quick" /\ draft = QuickSafe
    /\ resolved = <<>> /\ offered = <<>> /\ marked = 1
    /\ saving = "idle" /\ suffix = 0 /\ synced = FALSE
    /\ \E left \in {Suffixes - 1, Suffixes} :     \* by killed sessions
        temps = [i \in 0 .. Suffixes - 1 |-> IF i < left THEN Torn ELSE Absent]
    /\ file = Absent /\ older = file /\ acked = <<>>
    /\ applies = 0 /\ faults = 0

\* A saved file resumes at Complete; none, or one decode refuses, or a read
\* error starts the onboarding.
Resume ==
    LET saved == Decode(file)
    IN  IF saved = NoSettings THEN Fresh
        ELSE /\ step' = "Complete" /\ draft' = saved
             /\ resolved' = <<Resolve(saved, Probe, LockSqz)>>
             /\ flow' = "Quick" /\ offered' = <<>> /\ marked' = 1

Start ==
    /\ ~running
    /\ running' = TRUE
    /\ Resume
    /\ UNCHANGED <<savingVars, diskVars, boundVars>>

Idle == running /\ saving = "idle"

\* Ctrl-C, or q on an empty line; a draw or a read that fails.
Quit ==
    /\ Idle
    /\ running' = FALSE
    /\ Fresh
    /\ UNCHANGED <<savingVars, diskVars, boundVars>>

-----------------------------------------------------------------------------
(* Events that leave the disk alone. *)

KeepDisk == UNCHANGED <<running, savingVars, diskVars, boundVars>>

Candidates ==
    CASE step = "FlowChoice" -> <<"quick", "advanced">>
      [] step = "OperatingProfile" -> <<"offline", "core-sqz", "connected">>
      [] step = "Guardrails" -> <<"next", "+sqz", "-sqz">>  \* the first three of ten
      [] step = "Diagnose" -> <<"next", "repair">>
      [] step = "Apply" -> <<"apply">>
      [] step = "Complete" -> <<"query", "packet", "check">>
      [] OTHER -> <<"back">>

\* Tab: at most three candidates the line, empty or typed out, is a prefix of.
Tab ==
    /\ Idle
    /\ \E typed \in Lines :
        offered' = SelectSeq(Candidates, LAMBDA c : typed \in {"", c})
    /\ marked' = IF offered' # <<>> /\ marked > Len(offered') THEN 1 ELSE marked
    /\ UNCHANGED <<step, flow, draft, resolved>>
    /\ KeepDisk

UpOrDown ==
    /\ Idle /\ offered # <<>>
    /\ marked' \in {IF marked = 1 THEN Len(offered) ELSE marked - 1, (marked % Len(offered)) + 1}
    /\ UNCHANGED <<step, flow, draft, resolved, offered>>
    /\ KeepDisk

Escape ==
    /\ Idle
    /\ Fresh
    /\ KeepDisk

-----------------------------------------------------------------------------
(* Enter submits the marked suggestion, whatever was typed since Tab, or the *)
(* line: what is typed is any of Lines, and typing has no step of its own.    *)
(* `back' goes one step back and leaves the draft and the resolution.         *)

Texts == IF offered = <<>> THEN Lines ELSE {offered[marked]}

Refreshed == <<Resolve(draft, Probe, LockSqz)>>

Back(text) ==
    /\ text = "back"
    /\ step' = PreviousStep(step)
    /\ UNCHANGED <<flow, draft, resolved>>

EnterFlow(text) ==
    /\ step = "FlowChoice" /\ text \in {"quick", "advanced"}
    /\ flow' = IF text = "quick" THEN "Quick" ELSE "Advanced"
    /\ draft' = QuickSafe
    /\ step' = NextStep(step)
    /\ UNCHANGED resolved

EnterProfile(text) ==
    /\ step = "OperatingProfile" /\ text \in {"offline", "core-sqz", "connected"}
    /\ draft' = [draft EXCEPT !.profile = CASE text = "offline" -> "OfflineCore"
                                            [] text = "core-sqz" -> "CoreSqz"
                                            [] text = "connected" -> "ConnectedAgent"]
    /\ step' = NextStep(step)
    /\ UNCHANGED <<flow, resolved>>

EnterPlainStale(text) ==
    /\ text # "back"
    /\ \/ step \in {"ProjectCheck", "CapabilityCheck", "ReadinessReview"}
       \/ step \in {"Guardrails", "Diagnose"} /\ text \in {"", "next"}
       \/ step = "Diagnose" /\ text = "repair"
       \/ step = "PracticeRun" /\ text # ""
    /\ step' = NextStep(step)
    /\ resolved' = IF step \in {"CapabilityCheck", "ReadinessReview"} /\ resolved = <<>>
                   THEN Refreshed ELSE resolved
    /\ UNCHANGED <<flow, draft>>

\* A feature line changes the draft and stays at the step.
EnterFeatures(text) ==
    /\ step = "Guardrails" /\ flow = "Advanced" /\ text \in DOMAIN EditLines
    /\ FeaturesAccepted(EditLines[text])
    /\ draft' = SetFeatures(draft, EditLines[text])
    /\ UNCHANGED <<step, flow, resolved>>

\* The steps that only look at the draft, or at nothing. Diagnose shows what
\* RepairProposal finds and goes on to Complete all the same.
EnterPlain(text) ==
    /\ text # "back"
    /\ \/ step \in {"ProjectCheck", "CapabilityCheck", "ReadinessReview"}
       \/ step \in {"Guardrails", "Diagnose"} /\ text \in {"", "next"}
       \/ step = "Diagnose" /\ text = "repair"
       \/ step = "PracticeRun" /\ text # ""
    /\ step' = NextStep(step)
    /\ resolved' = IF \/ step = "CapabilityCheck"
                      \/ step = "ReadinessReview" /\ resolved = <<>>
                   THEN Refreshed ELSE resolved
    /\ UNCHANGED <<flow, draft>>

\* At Complete a line is a query, which only reads; elsewhere a line the step
\* does not take is refused.
EnterNothing(text) ==
    /\ \/ step = "FlowChoice" /\ text \notin {"quick", "advanced"}
       \/ step = "OperatingProfile" /\ text \notin {"offline", "core-sqz", "connected"}
       \/ /\ step = "Guardrails" /\ text \notin {"", "next"}
          /\ \/ flow = "Quick" \/ text \notin DOMAIN EditLines
             \/ text \in DOMAIN EditLines /\ ~FeaturesAccepted(EditLines[text])
       \/ step = "PracticeRun" /\ text = ""
       \/ step = "Apply" /\ text # "apply"
       \/ step = "Diagnose" /\ text \notin {"", "next", "repair"}
       \/ step = "Complete"
    /\ text # "back"
    /\ UNCHANGED <<step, flow, draft, resolved>>

-----------------------------------------------------------------------------
(* Apply: create_dir_all, then a temporary file that no other has the name  *)
(* of, then rename.                                                         *)

EnterApply(text) ==
    /\ step = "Apply" /\ text = "apply" /\ applies < MaxApplies
    /\ resolved' = Refreshed
    /\ saving' = "mkdir" /\ suffix' = 0
    /\ applies' = applies + 1
    /\ UNCHANGED <<running, step, flow, draft, temps, synced, diskVars, faults>>

\* ApplyFinished counts only at Apply, where the session has stayed.
Finish(persisted) ==
    /\ saving' = "idle"
    /\ step' = IF step # "Apply" THEN step ELSE IF persisted THEN "Complete" ELSE "Diagnose"
    /\ UNCHANGED <<running, flow, draft, resolved, offered, marked, boundVars>>

Mkdir ==
    /\ running /\ saving = "mkdir"
    /\ \/ saving' = "open" /\ UNCHANGED <<running, appVars, boundVars>>
       \/ Finish(FALSE)
    /\ UNCHANGED <<suffix, temps, synced, diskVars>>

\* create_new: a name in use is passed over, and there are Suffixes of them.
OpenTemp ==
    /\ running /\ saving = "open"
    /\ \/ /\ suffix < Suffixes /\ temps[suffix] = Absent
          /\ temps' = [temps EXCEPT ![suffix] = Torn]
          /\ saving' = "write" /\ synced' = FALSE
          /\ UNCHANGED <<running, appVars, suffix, boundVars>>
       \/ /\ suffix < Suffixes /\ temps[suffix] # Absent
          /\ suffix' = suffix + 1
          /\ UNCHANGED <<running, appVars, saving, temps, synced, boundVars>>
       \/ /\ Finish(FALSE)
          /\ UNCHANGED <<suffix, temps, synced>>
    /\ UNCHANGED diskVars

WriteTemp ==
    /\ running /\ saving = "write"
    /\ \/ /\ temps' = [temps EXCEPT ![suffix] = Encode(draft)]
          /\ saving' = "sync"
       \/ saving' = "unlink" /\ UNCHANGED temps
    /\ UNCHANGED <<running, appVars, suffix, synced, diskVars, boundVars>>

SyncTemp ==
    /\ running /\ saving = "sync"
    /\ \/ saving' = "rename" /\ synced' = TRUE
       \/ saving' = "unlink" /\ UNCHANGED synced
    /\ UNCHANGED <<running, appVars, suffix, temps, diskVars, boundVars>>

Rename ==
    /\ running /\ saving = "rename"
    /\ \/ /\ file' = temps[suffix]
          /\ older' = IF synced THEN file ELSE Torn
          /\ acked' = <<draft>>
          /\ temps' = [temps EXCEPT ![suffix] = Absent]
          /\ Finish(TRUE)
       \/ /\ saving' = "unlink"
          /\ UNCHANGED <<running, appVars, temps, diskVars, boundVars>>
    /\ UNCHANGED <<suffix, synced>>

UnlinkRetries ==
    /\ running /\ saving = "unlink"
    /\ temps' = [temps EXCEPT ![suffix] = Absent]
    /\ saving' = "open"
    /\ UNCHANGED <<running, appVars, suffix, synced, diskVars, boundVars>>

\* remove_file, whose own failure is ignored.
Unlink ==
    /\ running /\ saving = "unlink"
    /\ temps' = [temps EXCEPT ![suffix] = Absent]
    /\ Finish(FALSE)
    /\ UNCHANGED <<suffix, synced, diskVars>>

-----------------------------------------------------------------------------
(* Faults. *)

Kill ==
    /\ running /\ faults < MaxFaults
    /\ faults' = faults + 1
    /\ running' = FALSE /\ saving' = "idle" /\ suffix' = 0
    /\ Fresh
    /\ UNCHANGED <<temps, synced, diskVars, applies>>

\* The directory is not synced: the file can be the one before the rename.
\* What was not synced can be torn.
PowerLoss ==
    /\ faults < MaxFaults
    /\ faults' = faults + 1
    /\ running' = FALSE /\ saving' = "idle" /\ suffix' = 0
    /\ file' \in {file, older} /\ older' = file'
    /\ acked' = IF file' = file THEN acked ELSE <<>>
    /\ IF file' = file THEN temps' = temps
       ELSE \E i \in DOMAIN temps : temps' = [temps EXCEPT ![i] = Torn]
    /\ Fresh
    /\ UNCHANGED <<synced, applies>>

\* Another session of the same program, or a person with an editor.
ForeignWrite ==
    /\ faults < MaxFaults
    /\ faults' = faults + 1
    /\ file' \in {Foreign, Unreadable, Encode([QuickSafe EXCEPT !.on = {"Diagnostics"}])}
    /\ older' = file' /\ acked' = <<>>
    /\ UNCHANGED <<running, appVars, savingVars, applies>>

-----------------------------------------------------------------------------

Enter ==
    /\ Idle
    /\ offered' = <<>> /\ marked' = 1
    /\ \E text \in Texts :
        \/ /\ \/ Back(text) \/ EnterFlow(text) \/ EnterProfile(text) \/ EnterFeatures(text)
              \/ EnterPlain(text) \/ EnterNothing(text)
           /\ KeepDisk
        \/ EnterApply(text)

Saving == Mkdir \/ OpenTemp \/ WriteTemp \/ SyncTemp \/ Rename \/ Unlink

TerminalNext ==
    \/ Start \/ Quit \/ Tab \/ UpOrDown \/ Escape \/ Enter \/ Saving
    \/ Kill \/ PowerLoss \/ ForeignWrite

\* The session runs its own calls to the end; nothing obliges the user.
TerminalSpec == TerminalInit /\ [][TerminalNext]_terminalVars /\ WF_terminalVars(Saving)

-----------------------------------------------------------------------------
(* Properties. *)

TerminalTypeOK ==
    /\ running \in BOOLEAN
    /\ \E i \in DOMAIN OnboardingSteps : OnboardingSteps[i] = step
    /\ flow \in {"Quick", "Advanced"}
    /\ draft.profile \in Profiles /\ draft.on \subseteq Features /\ draft.tokens \in Nat \ {0}
    /\ offered = <<>> \/ marked \in DOMAIN offered
    /\ suffix \in 0 .. Suffixes
    /\ DOMAIN temps = 0 .. Suffixes - 1

\* From the readiness review on, the resolution the screen shows as effective
\* is that of the draft in hand, whichever way the user came there: `back' and
\* an edit never leave the old one in place (domain.rs refreshes it in the
\* capability check, and only when it is missing in the review). What the
\* Repair step then says has failed, the review listed as unavailable.
ShownIsCurrent ==
    running /\ StepAt(step) >= StepAt("ReadinessReview") =>
        /\ resolved = Refreshed
        /\ RepairProposal(draft, Probe) \subseteq ReadinessReceipt(resolved[1]).unavailable

\* What a session reported as applied is what the next one resumes with, after
\* any kill, unless someone else wrote the file or the machine lost power; and
\* not even that leaves half a file under the name readers use.
AppliedSurvives == file # Torn /\ (acked # <<>> => Decode(file) = acked[1])

\* An apply comes to an end: the step moves on, or the session is gone.
ApplyEnds == saving # "idle" ~> saving = "idle"
=============================================================================
