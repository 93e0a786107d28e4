--------------------------- MODULE TerminalProofs ---------------------------
(***************************************************************************)
(* ShownIsCurrent and AppliedSurvives for every probe, lock, set of lines, *)
(* number of temporary names and number of faults.                         *)
(*                                                                         *)
(* The first is inductive once it is known which steps change the draft:   *)
(* all of them lie before the capability check, which every way to the     *)
(* review passes.  The second rests on what a save has in hand: from the   *)
(* write on, the temporary file is the draft, which no event can change    *)
(* until the save is over, and it is renamed only when it is on the disk.  *)
(***************************************************************************)
EXTENDS Terminal, TLAPS

Early == {"ProjectCheck", "FlowChoice", "OperatingProfile", "Guardrails", "CapabilityCheck"}
Late == {"ReadinessReview", "PracticeRun", "Apply", "Diagnose", "Complete"}

\* The place of each step, and the steps beside it.
LEMMA StepNumbers ==
    /\ StepAt("ProjectCheck") = 1 /\ StepAt("FlowChoice") = 2
    /\ StepAt("OperatingProfile") = 3 /\ StepAt("Guardrails") = 4
    /\ StepAt("CapabilityCheck") = 5 /\ StepAt("ReadinessReview") = 6
    /\ StepAt("PracticeRun") = 7 /\ StepAt("Apply") = 8
    /\ StepAt("Diagnose") = 9 /\ StepAt("Complete") = 10
<1>1. DOMAIN OnboardingSteps = 1 .. 10
  BY DEF OnboardingSteps
<1>2. ASSUME NEW k \in 1 .. 10 PROVE StepAt(OnboardingSteps[k]) = k
  <2>1. \A i \in 1 .. 10 : OnboardingSteps[i] = OnboardingSteps[k] => i = k
    BY DEF OnboardingSteps
  <2> QED BY <1>1, <2>1 DEF StepAt
<1>3. /\ OnboardingSteps[1] = "ProjectCheck" /\ OnboardingSteps[2] = "FlowChoice"
      /\ OnboardingSteps[3] = "OperatingProfile" /\ OnboardingSteps[4] = "Guardrails"
      /\ OnboardingSteps[5] = "CapabilityCheck" /\ OnboardingSteps[6] = "ReadinessReview"
      /\ OnboardingSteps[7] = "PracticeRun" /\ OnboardingSteps[8] = "Apply"
      /\ OnboardingSteps[9] = "Diagnose" /\ OnboardingSteps[10] = "Complete"
  BY DEF OnboardingSteps
<1> QED BY <1>2, <1>3

LEMMA LateByNumber ==
    ASSUME NEW s \in Early \cup Late
    PROVE  StepAt(s) >= StepAt("ReadinessReview") <=> s \in Late
  BY StepNumbers DEF Early, Late

LEMMA Neighbours ==
    ASSUME NEW s \in Early \cup Late
    PROVE  /\ NextStep(s) \in Early \cup Late /\ PreviousStep(s) \in Early \cup Late
           /\ s \in Early \ {"CapabilityCheck"} => NextStep(s) \in Early
           /\ s \in Early => PreviousStep(s) \in Early
  BY StepNumbers DEF Early, Late, NextStep, PreviousStep, OnboardingSteps

\* An accepted line leaves a ceiling that decode takes.
LEMMA CeilingStaysPositive ==
    ASSUME NEW s, s.tokens > 0, NEW line, FeaturesAccepted(line)
    PROVE  SetFeatures(s, line).tokens > 0
<1>1. CASE Ceilings(line) = {}
  BY <1>1 DEF SetFeatures
<1>2. CASE Ceilings(line) # {}
  <2>1. (CHOOSE i \in Ceilings(line) : TRUE) \in Ceilings(line)
    BY <1>2
  <2> QED BY <1>2, <2>1 DEF SetFeatures, FeaturesAccepted
<1> QED BY <1>1, <1>2

LEMMA CodecExact ==
    /\ \A s : s.tokens > 0 => Decode(Encode(s)) = s
    /\ \A s : Encode(s) # Torn
    /\ \A f : Decode(f) # NoSettings => Decode(f).tokens > 0
    /\ Absent # Torn /\ Foreign # Torn /\ Unreadable # Torn
    /\ Decode(Absent) = NoSettings
  BY DEF Decode, Encode, Torn, Absent, Foreign, Unreadable, Other, NoSettings

\* What the Repair step finds missing is listed in the review.
LEMMA RepairIsListed ==
    ASSUME NEW s, NEW probe, NEW lock
    PROVE  RepairProposal(s, probe) \subseteq
               ReadinessReceipt(Resolve(s, probe, lock)).unavailable
<1>1. ReadinessReceipt(Resolve(s, probe, lock)).unavailable =
          (Asked(s) \cup (IF lock THEN {"Sqz"} ELSE {})) \ Grantable(probe)
  BY DEF ReadinessReceipt, Resolve
<1>2. ASSUME NEW x \in RepairProposal(s, probe)
      PROVE  x \in Asked(s) /\ x \notin Grantable(probe)
  BY <1>2 DEF RepairProposal, Grantable
<1> QED BY <1>1, <1>2

-----------------------------------------------------------------------------
(* The invariant. *)

Shapes ==
    /\ running \in BOOLEAN
    /\ step \in Early \cup Late
    /\ draft.tokens > 0
    /\ saving \in {"idle", "mkdir", "open", "write", "sync", "rename", "unlink"}
    /\ suffix \in 0 .. Suffixes
    /\ DOMAIN temps = 0 .. Suffixes - 1

\* The resolution is that of the draft at the later steps.
Current == running /\ step \in Late => resolved = Refreshed

\* What a save has in hand.
InHand ==
    /\ saving # "idle" => running
    /\ saving \in {"write", "sync", "rename", "unlink"} => suffix < Suffixes
    /\ saving \in {"sync", "rename"} => temps[suffix] = Encode(draft)
    /\ saving = "rename" => synced = TRUE

\* What readers find, now and after a power loss.
OnDisk ==
    /\ file # Torn /\ older # Torn
    /\ acked # <<>> => Decode(file) = acked[1]

TerminalInv == Shapes /\ Current /\ InHand /\ OnDisk

LEMMA TerminalInvInit == TerminalInit => TerminalInv
<1> SUFFICES ASSUME TerminalInit PROVE TerminalInv
  OBVIOUS
<1>1. Shapes
  <2>1. DOMAIN temps = 0 .. Suffixes - 1
    BY DEF TerminalInit
  <2>2. suffix \in 0 .. Suffixes /\ draft.tokens > 0
    BY TerminalAssumption, DefaultTokensAssumption DEF TerminalInit, QuickSafe
  <2> QED BY <2>1, <2>2 DEF TerminalInit, Shapes, Early
<1>2. Current /\ InHand /\ OnDisk
  BY CodecExact DEF TerminalInit, Current, InHand, OnDisk
<1> QED BY <1>1, <1>2 DEF TerminalInv

\* A step that leaves the disk alone and the session at an early step, or at a
\* late one with its resolution.
LEMMA AppStepKeeps ==
    ASSUME TerminalInv, saving = "idle", UNCHANGED <<savingVars, diskVars>>,
           running' \in BOOLEAN,
           step' \in Early \cup Late, draft'.tokens > 0,
           running' /\ step' \in Late => resolved' = Refreshed'
    PROVE  TerminalInv'
<1>1. Shapes'
  BY DEF TerminalInv, Shapes, savingVars
<1>2. Current'
  BY DEF Current
<1>3. InHand' /\ OnDisk'
  BY DEF TerminalInv, InHand, OnDisk, savingVars, diskVars
<1> QED BY <1>1, <1>2, <1>3 DEF TerminalInv

\* A session that starts afresh has resolved nothing and is at its first step.
LEMMA FreshIs ==
    ASSUME Fresh
    PROVE  step' \in Early /\ step' \notin Late /\ draft'.tokens > 0
  BY DefaultTokensAssumption DEF Fresh, QuickSafe, Early, Late

LEMMA StartKeeps == ASSUME TerminalInv, Start PROVE TerminalInv'
<1>1. saving = "idle" /\ running' \in BOOLEAN /\ UNCHANGED <<savingVars, diskVars>>
  BY DEF Start, TerminalInv, InHand
<1>2. CASE Decode(file) = NoSettings
  <2>1. Fresh
    BY <1>2 DEF Start, Resume
  <2> QED BY <1>1, <2>1, FreshIs, AppStepKeeps
<1>3. CASE Decode(file) # NoSettings
  <2>1. step' = "Complete" /\ draft' = Decode(file) /\ resolved' = Refreshed'
    BY <1>3 DEF Start, Resume, Refreshed
  <2>2. draft'.tokens > 0 /\ step' \in Early \cup Late
    BY <1>3, <2>1, CodecExact DEF Late
  <2> QED BY <1>1, <2>1, <2>2, AppStepKeeps
<1> QED BY <1>2, <1>3

\* An event of an idle session that is not submitted.
LEMMA EventKeeps ==
    ASSUME TerminalInv, Quit \/ Tab \/ UpOrDown \/ Escape
    PROVE  TerminalInv'
<1>1. saving = "idle" /\ running' \in BOOLEAN /\ UNCHANGED <<savingVars, diskVars>>
  BY DEF Quit, Tab, UpOrDown, Escape, Idle, KeepDisk, TerminalInv, Shapes
<1>2. CASE Quit \/ Escape
  BY <1>1, <1>2, FreshIs, AppStepKeeps DEF Quit, Escape
<1>3. CASE Tab \/ UpOrDown
  <2>1. UNCHANGED <<running, step, draft, resolved>>
    BY <1>3 DEF Tab, UpOrDown, KeepDisk
  <2>2. step' \in Early \cup Late /\ draft'.tokens > 0
    BY <2>1 DEF TerminalInv, Shapes
  <2>3. running' /\ step' \in Late => resolved' = Refreshed'
    BY <2>1 DEF TerminalInv, Current, Refreshed
  <2> QED BY <1>1, <2>2, <2>3, AppStepKeeps
<1> QED BY <1>2, <1>3

\* What is submitted changes the draft only before the capability check, and
\* the resolution is that of the draft when it leads to the review.
LEMMA SubmittedKeepsCurrent ==
    ASSUME TerminalInv, running, NEW text,
           \/ Back(text) \/ EnterFlow(text) \/ EnterProfile(text) \/ EnterFeatures(text)
           \/ EnterPlain(text) \/ EnterNothing(text)
    PROVE  /\ step' \in Early \cup Late /\ draft'.tokens > 0
           /\ step' \in Late => resolved' = Refreshed'
<1>0. /\ step \in Early \cup Late /\ draft.tokens > 0
      /\ step \in Late => resolved = Refreshed
  BY DEF TerminalInv, Shapes, Current
<1>1. CASE Back(text)
  <2>1. step' = PreviousStep(step) /\ UNCHANGED <<draft, resolved>>
    BY <1>1 DEF Back
  <2>2. step' \in Late => step \in Late
    BY <1>0, <2>1, Neighbours DEF Early, Late
  <2> QED BY <1>0, <2>1, <2>2, Neighbours DEF Refreshed
<1>2. CASE EnterFlow(text)
  <2>1. step = "FlowChoice" /\ step' = NextStep(step) /\ draft' = QuickSafe
    BY <1>2 DEF EnterFlow
  <2>2. step' \in Early
    BY <1>0, <2>1, Neighbours DEF Early
  <2> QED BY <2>1, <2>2, DefaultTokensAssumption DEF Early, Late, QuickSafe
<1>3. CASE EnterProfile(text)
  <2>1. /\ step = "OperatingProfile" /\ step' = NextStep(step)
        /\ \E p : draft' = [draft EXCEPT !.profile = p]
    BY <1>3 DEF EnterProfile
  <2>2. step' \in Early
    BY <1>0, <2>1, Neighbours DEF Early
  <2>3. draft'.tokens = draft.tokens
    BY <2>1
  <2> QED BY <1>0, <2>2, <2>3 DEF Early, Late
<1>4. CASE EnterFeatures(text)
  <2>1. /\ step' = step /\ step = "Guardrails"
        /\ FeaturesAccepted(EditLines[text]) /\ draft' = SetFeatures(draft, EditLines[text])
    BY <1>4 DEF EnterFeatures
  <2>2. draft'.tokens > 0
    BY <1>0, <2>1, CeilingStaysPositive
  <2> QED BY <2>1, <2>2 DEF Early, Late
<1>5. CASE EnterPlain(text)
  <2>1. /\ step' = NextStep(step) /\ draft' = draft
        /\ resolved' = IF \/ step = "CapabilityCheck"
                          \/ step = "ReadinessReview" /\ resolved = <<>>
                       THEN Refreshed ELSE resolved
    BY <1>5 DEF EnterPlain
  <2>2. step' \in Early \cup Late /\ (step' \in Late => step \in Late \/ step = "CapabilityCheck")
    BY <1>0, <2>1, Neighbours DEF Early, Late
  <2> QED BY <1>0, <2>1, <2>2 DEF Refreshed
<1>6. CASE EnterNothing(text)
  BY <1>0, <1>6 DEF EnterNothing, Refreshed
<1> QED BY <1>1, <1>2, <1>3, <1>4, <1>5, <1>6

LEMMA EnterKeeps == ASSUME TerminalInv, Enter PROVE TerminalInv'
<1>1. PICK text : \/ /\ \/ Back(text) \/ EnterFlow(text) \/ EnterProfile(text)
                        \/ EnterFeatures(text) \/ EnterPlain(text) \/ EnterNothing(text)
                     /\ KeepDisk
                  \/ EnterApply(text)
  BY DEF Enter
<1>2. running /\ saving = "idle"
  BY DEF Enter, Idle
<1>3. CASE EnterApply(text)
  <2>1. /\ saving' = "mkdir" /\ suffix' = 0 /\ resolved' = Refreshed
        /\ UNCHANGED <<running, step, draft, temps, synced, diskVars>>
    BY <1>3 DEF EnterApply
  <2> QED BY <1>2, <2>1, TerminalAssumption
          DEF TerminalInv, Shapes, Current, InHand, OnDisk, diskVars, Refreshed
<1>4. CASE ~EnterApply(text)
  <2>1. /\ step' \in Early \cup Late /\ draft'.tokens > 0
        /\ step' \in Late => resolved' = Refreshed'
    BY <1>1, <1>2, <1>4, SubmittedKeepsCurrent
  <2>2. running' \in BOOLEAN /\ UNCHANGED <<savingVars, diskVars>>
    BY <1>1, <1>2, <1>4 DEF KeepDisk
  <2> QED BY <1>2, <2>1, <2>2, AppStepKeeps
<1> QED BY <1>3, <1>4

-----------------------------------------------------------------------------
(* Saving: the draft and its resolution stay as they are. *)

LEMMA FinishKeepsCurrent ==
    ASSUME TerminalInv, running, NEW persisted \in BOOLEAN, Finish(persisted)
    PROVE  /\ saving' = "idle" /\ running' = running /\ step' \in Early \cup Late
           /\ draft' = draft /\ Current'
  BY DEF TerminalInv, Shapes, Current, Finish, Refreshed, Early, Late

LEMMA SavingKeeps == ASSUME TerminalInv, Saving PROVE TerminalInv'
<1> USE TerminalAssumption
<1>0. running = TRUE
  BY DEF Saving, Mkdir, OpenTemp, WriteTemp, SyncTemp, Rename, Unlink, TerminalInv, Shapes
\* A step that goes on, or gives up: the name readers use is not touched.
<1>1. ASSUME UNCHANGED diskVars, suffix' \in 0 .. Suffixes, DOMAIN temps' = DOMAIN temps,
             \/ \E persisted \in BOOLEAN : Finish(persisted)
             \/ /\ UNCHANGED <<running, appVars>>
                /\ saving' \in {"open", "write", "sync", "rename", "unlink"}
                /\ saving' # "open" => suffix' < Suffixes
                /\ saving' \in {"sync", "rename"} => temps'[suffix'] = Encode(draft')
                /\ saving' = "rename" => synced' = TRUE
      PROVE  TerminalInv'
  <2>1. CASE \E persisted \in BOOLEAN : Finish(persisted)
    BY <1>0, <1>1, <2>1, FinishKeepsCurrent
       DEF TerminalInv, Shapes, InHand, OnDisk, diskVars
  <2>2. CASE ~\E persisted \in BOOLEAN : Finish(persisted)
    BY <1>0, <1>1, <2>2
       DEF TerminalInv, Shapes, Current, InHand, OnDisk, diskVars, appVars, Refreshed
  <2> QED BY <2>1, <2>2
<1>2. CASE Mkdir
  BY <1>1, <1>2 DEF Mkdir, TerminalInv, Shapes
<1>3. CASE OpenTemp
  <2>0. UNCHANGED diskVars /\ suffix \in 0 .. Suffixes
    BY <1>3 DEF OpenTemp, TerminalInv, Shapes
  <2>1. CASE suffix < Suffixes /\ temps[suffix] = Absent /\ ~Finish(FALSE)
    <3>1. /\ DOMAIN temps' = DOMAIN temps /\ suffix' = suffix /\ saving' = "write"
          /\ UNCHANGED <<running, appVars>>
      BY <1>3, <2>1 DEF OpenTemp
    <3> QED BY <1>1, <2>0, <2>1, <3>1
  <2>2. CASE suffix < Suffixes /\ temps[suffix] # Absent /\ ~Finish(FALSE)
    <3>1. temps' = temps /\ suffix' = suffix + 1 /\ saving' = "open" /\ UNCHANGED <<running, appVars>>
      BY <1>3, <2>2 DEF OpenTemp
    <3>2. suffix' \in 0 .. Suffixes
      BY <2>0, <2>2, <3>1
    <3> QED BY <1>1, <2>0, <3>1, <3>2
  <2>3. CASE Finish(FALSE)
    <3>1. UNCHANGED <<suffix, temps>>
      BY <1>3, <2>3 DEF OpenTemp, Finish
    <3> QED BY <1>1, <2>0, <2>3, <3>1
  <2> QED BY <1>3, <2>1, <2>2, <2>3 DEF OpenTemp
<1>4. CASE WriteTemp
  <2>1. /\ suffix \in 0 .. Suffixes - 1 /\ DOMAIN temps = 0 .. Suffixes - 1
        /\ UNCHANGED <<suffix, diskVars, running, appVars>>
    BY <1>4 DEF WriteTemp, TerminalInv, Shapes, InHand
  <2>2. \/ temps' = [temps EXCEPT ![suffix] = Encode(draft)] /\ saving' = "sync"
        \/ temps' = temps /\ saving' = "unlink"
    BY <1>4 DEF WriteTemp
  <2>3. draft' = draft /\ suffix' = suffix
    BY <2>1 DEF appVars
  <2>4. saving' \in {"sync", "rename"} => temps'[suffix'] = Encode(draft')
    BY <2>1, <2>2, <2>3
  <2>5. suffix' \in 0 .. Suffixes /\ suffix' < Suffixes /\ DOMAIN temps' = DOMAIN temps
    BY <2>1, <2>2, <2>3
  <2> QED BY <1>1, <2>1, <2>2, <2>4, <2>5
<1>5. CASE SyncTemp
  BY <1>1, <1>5 DEF SyncTemp, TerminalInv, Shapes, InHand, appVars
<1>6. CASE Unlink
  BY <1>1, <1>6 DEF Unlink, TerminalInv, Shapes
<1>7. CASE Rename
  <2>1. CASE Finish(TRUE)
    <3>1. /\ file' = Encode(draft) /\ older' \in {file} /\ acked' = <<draft>>
          /\ DOMAIN temps' = DOMAIN temps /\ suffix' = suffix
      BY <1>7, <2>1 DEF Rename, TerminalInv, InHand, Finish
    <3>2. OnDisk'
      BY <3>1, CodecExact DEF TerminalInv, Shapes, OnDisk
    <3> QED BY <1>0, <2>1, <3>1, <3>2, FinishKeepsCurrent DEF TerminalInv, Shapes, InHand
  <2>2. CASE ~Finish(TRUE)
    BY <1>1, <1>7, <2>2 DEF Rename, TerminalInv, Shapes, InHand
  <2> QED BY <2>1, <2>2
<1> QED BY <1>2, <1>3, <1>4, <1>5, <1>6, <1>7 DEF Saving

-----------------------------------------------------------------------------
(* Faults. *)

LEMMA FaultKeeps ==
    ASSUME TerminalInv, Kill \/ PowerLoss \/ ForeignWrite
    PROVE  TerminalInv'
<1> USE TerminalAssumption
<1>1. ASSUME Fresh, running' = FALSE, saving' = "idle", suffix' = 0,
             DOMAIN temps' = DOMAIN temps, OnDisk'
      PROVE  TerminalInv'
  <2>0. step' \in Early /\ draft'.tokens > 0
    BY <1>1, FreshIs
  <2>1. running' \in BOOLEAN
    BY <1>1
  <2>2. suffix' \in 0 .. Suffixes /\ DOMAIN temps' = 0 .. Suffixes - 1
    BY <1>1 DEF TerminalInv, Shapes
  <2>3. Shapes'
    BY <1>1, <2>0, <2>1, <2>2 DEF Shapes
  <2>4. Current' /\ InHand'
    BY <1>1 DEF Current, InHand
  <2> QED BY <1>1, <2>3, <2>4 DEF TerminalInv
<1>2. CASE Kill
  <2>1. OnDisk'
    BY <1>2 DEF Kill, TerminalInv, OnDisk, diskVars
  <2> QED BY <1>1, <1>2, <2>1 DEF Kill
<1>3. CASE PowerLoss
  <2>1. OnDisk'
    BY <1>3 DEF PowerLoss, TerminalInv, OnDisk
  <2>2. DOMAIN temps' = DOMAIN temps
    BY <1>3 DEF PowerLoss
  <2> QED BY <1>1, <1>3, <2>1, <2>2 DEF PowerLoss
<1>4. CASE ForeignWrite
  <2>1. OnDisk'
    BY <1>4, CodecExact DEF ForeignWrite, OnDisk
  <2> QED BY <1>4, <2>1 DEF ForeignWrite, TerminalInv, Shapes, Current, InHand, appVars,
             savingVars, Refreshed
<1> QED BY <1>2, <1>3, <1>4

LEMMA TerminalInvNext == TerminalInv /\ [TerminalNext]_terminalVars => TerminalInv'
<1> SUFFICES ASSUME TerminalInv, [TerminalNext]_terminalVars PROVE TerminalInv'
  OBVIOUS
<1>1. CASE UNCHANGED terminalVars
  BY <1>1 DEF TerminalInv, Shapes, Current, InHand, OnDisk, terminalVars, appVars,
     savingVars, diskVars, Refreshed
<1> QED BY <1>1, StartKeeps, EventKeeps, EnterKeeps, SavingKeeps, FaultKeeps DEF TerminalNext

\* The invariant holds of every sequence of sessions (run_tui, TuiApp and
\* apply_settings_using).
THEOREM TerminalInvHolds == TerminalSpec => []TerminalInv
  BY TerminalInvInit, TerminalInvNext, PTL DEF TerminalSpec

\* Whatever the user enters and in whatever order, the resolution shown from the
\* readiness review on is that of the draft in hand, and what the Repair step
\* says has failed is in it.
THEOREM AlwaysShownIsCurrent == TerminalSpec => []ShownIsCurrent
<1>1. TerminalInv => ShownIsCurrent
  <2> SUFFICES ASSUME TerminalInv, running, StepAt(step) >= StepAt("ReadinessReview")
               PROVE  /\ resolved = Refreshed
                      /\ RepairProposal(draft, Probe) \subseteq
                             ReadinessReceipt(resolved[1]).unavailable
    BY DEF ShownIsCurrent
  <2>1. resolved = <<Resolve(draft, Probe, LockSqz)>>
    BY LateByNumber DEF TerminalInv, Shapes, Current, Refreshed
  <2>2. resolved[1] = Resolve(draft, Probe, LockSqz)
    BY <2>1
  <2> QED BY <2>1, <2>2, RepairIsListed DEF Refreshed
<1> QED BY <1>1, TerminalInvHolds, PTL

\* Whenever a session is killed or the machine loses power, no reader finds half
\* a settings file, and what was reported as applied is what is read, until
\* somebody else writes the file or a power loss undoes the rename.
THEOREM AppliedAlwaysSurvives == TerminalSpec => []AppliedSurvives
<1>1. TerminalInv => AppliedSurvives
  BY DEF TerminalInv, OnDisk, AppliedSurvives
<1> QED BY <1>1, TerminalInvHolds, PTL
=============================================================================
