------------------------------ MODULE Settings ------------------------------
(***************************************************************************)
(* Onboarding settings of bran-tui (settings.rs): what a user requests,    *)
(* what of it is effective on a machine, and what the settings file says.  *)
(* Settings are [profile, on, tokens]: on is the set of requested features *)
(* of the record's eight booleans; its guardrail enums have one value each *)
(* and are left out.                                                       *)
(***************************************************************************)
EXTENDS Naturals, Sequences

CONSTANT DefaultTokens      \* DEFAULT_CONNECTED_AGENT_TASK_TOKEN_CEILING

ASSUME DefaultTokensAssumption == DefaultTokens \in Nat \ {0}

OnboardingSteps == <<"ProjectCheck", "FlowChoice", "OperatingProfile", "Guardrails",
    "CapabilityCheck", "ReadinessReview", "PracticeRun", "Apply", "Diagnose", "Complete">>

Profiles == {"OfflineCore", "CoreSqz", "ConnectedAgent"}

Features == {"Sqz", "Diagnostics", "Voice", "StructuredHistory", "SavedChat",
             "Network", "Auth", "Mutation"}

StepAt(step) == CHOOSE i \in DOMAIN OnboardingSteps : OnboardingSteps[i] = step

NextStep(step) == IF step = "Complete" THEN step ELSE OnboardingSteps[StepAt(step) + 1]

PreviousStep(step) ==
    IF step = "ProjectCheck" THEN step ELSE OnboardingSteps[StepAt(step) - 1]

QuickSafe == [profile |-> "OfflineCore", on |-> {"Sqz", "Diagnostics"},
              tokens |-> DefaultTokens]

-----------------------------------------------------------------------------
(* Resolution. A probe is the set of capabilities found. *)

Probes == SUBSET {"Sqz", "Voice", "SavedChat", "ConnectedAgent"}

\* The ten facts of a resolution are about the features and two profiles.
Asked(s) == s.on \cup (IF s.profile = "CoreSqz" THEN {"Sqz", "CoreSqz"} ELSE {})
                 \cup (IF s.profile = "ConnectedAgent" THEN {"ConnectedAgent"} ELSE {})

\* resolve_requested grants what is asked for, resolve_capability what the
\* probe found; network, authentication and mutation are never granted.
Grantable(probe) ==
    {"Diagnostics", "StructuredHistory"} \cup (probe \cap {"Sqz", "Voice", "SavedChat"})
        \cup (IF "Sqz" \in probe THEN {"CoreSqz"} ELSE {})
        \cup (probe \cap {"ConnectedAgent"})

Resolve(s, probe, lockSqz) ==
    LET wanted  == Asked(s) \cup (IF lockSqz THEN {"Sqz"} ELSE {})
        granted == wanted \cap Grantable(probe)
        usable  == ~ \/ s.profile = "CoreSqz" /\ "Sqz" \notin probe
                     \/ s.profile = "ConnectedAgent" /\ "ConnectedAgent" \notin probe
    IN  [requested   |-> s,
         effective   |-> [profile |-> IF usable THEN s.profile ELSE "OfflineCore",
                          on |-> granted \cap Features, tokens |-> s.tokens],
         facts       |-> granted,
         locked      |-> IF lockSqz THEN {"Sqz"} ELSE {},
         unavailable |-> wanted \ Grantable(probe)]

\* The receipt of the readiness step: the facts of a resolution, sorted out.
ReadinessReceipt(r) == [locked |-> r.locked, unavailable |-> r.unavailable]

\* What the Repair step says has failed: it judges the draft, not the resolution.
RepairProposal(s, probe) ==
    (Asked(s) \cap {"Sqz", "Voice", "SavedChat", "ConnectedAgent"}) \ probe

-----------------------------------------------------------------------------
(* A line of the Guardrails step: tokens [op, feature, value] with op in    *)
(* +, -, tokens= and junk. One bad token, a zero ceiling or a second        *)
(* ceiling refuses the whole line.                                          *)

Token(s, t) ==
    CASE t.op = "+" ->
            [s EXCEPT !.on = @ \cup {t.feature},
                      !.profile = IF t.feature = "Sqz" /\ @ = "OfflineCore" THEN "CoreSqz" ELSE @]
      [] t.op = "-" ->
            [s EXCEPT !.on = @ \ {t.feature},
                      !.profile = IF t.feature = "Sqz" /\ @ = "CoreSqz" THEN "OfflineCore" ELSE @]
      [] OTHER -> s

Ceilings(line) == {i \in DOMAIN line : line[i].op = "tokens"}

FeaturesAcceptedZero(line) ==
    /\ \A i \in DOMAIN line : line[i].op \in {"+", "-", "tokens"}
    /\ \A i, j \in Ceilings(line) : i = j

FeaturesAccepted(line) ==
    /\ \A i \in DOMAIN line : line[i].op \in {"+", "-", "tokens"}
    /\ \A i, j \in Ceilings(line) : i = j
    /\ \A i \in Ceilings(line) : line[i].value > 0

\* The tokens are applied in their order, the ceiling after them.
SetFeatures(s, line) ==
    LET after[i \in 0 .. Len(line)] == IF i = 0 THEN s ELSE Token(after[i - 1], line[i])
        edited == after[Len(line)]
    IN  [profile |-> edited.profile, on |-> edited.on,
         tokens |-> IF Ceilings(line) = {} THEN s.tokens
                    ELSE line[CHOOSE i \in Ceilings(line) : TRUE].value]

-----------------------------------------------------------------------------
(* The settings file: its seventeen lines are one value, torn when only     *)
(* some of their bytes are there. decode takes a whole file with a positive *)
(* ceiling and the two fixed lines; anything else is no settings at all.    *)

Encode(s) == [kind |-> "settings", settings |-> s]
Other(kind) == [kind |-> kind, settings |-> QuickSafe]
Absent == Other("absent")
Torn == Other("torn")
Foreign == Other("foreign")             \* not written by this program
Unreadable == Other("unreadable")       \* fs::read fails

NoSettings == [profile |-> "OfflineCore", on |-> {}, tokens |-> 0]

Decode(file) ==
    IF file.kind = "settings" /\ file.settings.tokens > 0 THEN file.settings ELSE NoSettings
=============================================================================
