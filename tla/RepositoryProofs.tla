-------------------------- MODULE RepositoryProofs --------------------------
(***************************************************************************)
(* Theorems about what works on a repository: Repair and Scan.             *)
(*                                                                         *)
(* Repair, for any number of attempts, contents, failed calls, process     *)
(* deaths and writes of others, at any time.  Secure is what an attempt    *)
(* can rely on whatever others do; Calm what it can while nobody writes    *)
(* the target behind its back; Whole what nobody loses while that is so of *)
(* all attempts.                                                           *)
(*                                                                         *)
(* Scan, for every tree, every set of rules, every configuration, every    *)
(* digest, any number of scans and any edit between any two of their       *)
(* steps.  A snapshot is Sound when its counters are those of what it      *)
(* observed and its entries follow from their sources and one of the       *)
(* configurations they were made under, and Made when all of these have    *)
(* the digests it keeps; the walk is Apart when it comes to no path twice; *)
(* and CurrentInv says which entries of a snapshot, also of one that is    *)
(* half built, are Settled: what a scan would find now.                    *)
(***************************************************************************)
EXTENDS Repair, ScanGraph, FiniteSetTheorems, SequenceTheorems, WellFoundedInduction, TLAPS

-----------------------------------------------------------------------------
(* Repair: where its files are.                                            *)

Early == {"new", "reading", "proposed", "rereading", "checking", "comparing", "stage"}

\* The files and the proposal of one attempt, whatever others write.
Secure(n) ==
    LET j == proposal[n]
    IN  /\ pc[n] \in Early \cup {"validate", "commit", "remove", "restore"} => staged[n] = Absent
        /\ pc[n] \in Early \cup {"probe", "displace"} => backup[n] = Absent
        /\ pc[n] \in {"probe", "displace", "install", "undo"} => staged[n] = j.content
        /\ pc[n] \in {"undo", "restore"} => backup[n] # Absent
        /\ backup[n] # Absent \/ pc[n] \in Replacing =>
               j.presented = digest(j.content, j.original)
        /\ pc[n] = "returned" /\ result[n] # "IoPartialWrite" =>
               staged[n] = Absent /\ backup[n] = Absent
        /\ pc[n] = "comparing" /\ target = Link => Link \in unseen[n]
        /\ pc[n] \in {"stage", "probe", "displace"} => target \in {j.original} \cup unseen[n]
        /\ backup[n] # Absent => backup[n] \in {j.original} \cup unseen[n]

\* Where the original and the replacement are while nobody disturbs the attempt.
Calm(n) ==
    LET j == proposal[n]
    IN  unseen[n] = {} =>
        /\ pc[n] = "displace" => target # Absent
        /\ pc[n] \in {"install", "undo", "restore"} => target = Absent
        /\ pc[n] \in {"install", "validate", "commit", "remove", "undo", "restore"} =>
               backup[n] = j.original
        /\ pc[n] \in {"validate", "commit", "remove"} => target = j.content

\* An attempt that has written the target and has not returned.
Written(n) ==
    \/ pc[n] \in {"validate", "commit", "remove", "restore", "undo"}
    \/ pc[n] = "install" /\ backup[n] # Absent

Exclusive == \A m, n \in Attempts : Written(m) /\ Written(n) => m = n

\* BaseRecoverable made inductive: an installed replacement that validation
\* has not accepted does not count.
Safe ==
    \/ base = Absent
    \/ \E n \in Attempts : backup[n] = base
    \/ base = target /\ \A n \in Attempts : pc[n] \notin {"validate", "remove"}

Accepted == \A n \in Attempts : pc[n] = "commit" => base = proposal[n].content

Whole == Quiet => Exclusive /\ Safe /\ Accepted

\* Nothing of the other attempts changes.
Alone(n) ==
    \A m \in Attempts \ {n} :
        /\ staged'[m] = staged[m] /\ backup'[m] = backup[m] /\ pc'[m] = pc[m]
        /\ proposal'[m] = proposal[m] /\ result'[m] = result[m]

\* The others are told of what the attempt writes.
Told(n) ==
    \/ target' = target /\ \A m \in Attempts \ {n} : unseen'[m] = unseen[m]
    \/ \E bytes : Writes({n}, bytes)

RepairInv == RepairTypeOK /\ (\A n \in Attempts : Secure(n) /\ Calm(n)) /\ Whole

-----------------------------------------------------------------------------
(* Repair: types. *)

LEMMA GotoTyped ==
    ASSUME RepairTypeOK, NEW n \in Attempts, NEW step \in Steps, Goto(n, step)
    PROVE  pc' \in [Attempts -> Steps] /\ result' \in [Attempts -> Results]
BY DEF RepairTypeOK, Goto

LEMMA ReturnsTyped ==
    ASSUME RepairTypeOK, NEW n \in Attempts, NEW terminal \in Results, Returns(n, terminal)
    PROVE  pc' \in [Attempts -> Steps] /\ result' \in [Attempts -> Results]
BY DEF RepairTypeOK, Returns, Steps

LEMMA FaultsTyped ==
    ASSUME RepairTypeOK, Succeeds \/ Fails
    PROVE  faults' \in 0 .. MaxFaults
BY RepairAssumption DEF RepairTypeOK, Succeeds, Fails

LEMMA SnapshotTyped ==
    ASSUME RepairTypeOK, NEW n \in Attempts, NEW content \in Replacements,
           NEW original \in Readings, NEW presented \in Nat \X Nat,
           Snapshot(n, content, original, presented)
    PROVE  proposal' \in [Attempts -> Proposals]
<1>1. original \in Bytes \cup {Absent} /\ content \in Bytes
  BY RepairAssumption DEF Readings, RepairTypeOK, Named
<1>2. QED
  BY <1>1 DEF RepairTypeOK, Snapshot, Proposals

LEMMA WritesTyped ==
    ASSUME RepairTypeOK, NEW writers, NEW bytes \in Named, Writes(writers, bytes)
    PROVE  target' \in Named /\ unseen' \in [Attempts -> SUBSET Named]
BY DEF RepairTypeOK, Writes

\* Every variable stays in its type; in particular no proposal ever carries
\* a symbolic link, whatever is put under the name between two calls.
THEOREM RepairTypeCorrect == RepairSpec => []RepairTypeOK
<1>1. RepairInit => RepairTypeOK
  BY RepairAssumption DEF RepairInit, RepairTypeOK, NoProposal, Results, Named, Steps, Proposals
<1>2. RepairTypeOK /\ [RepairNext]_repairVars => RepairTypeOK'
  <2> SUFFICES ASSUME RepairTypeOK, [RepairNext]_repairVars PROVE RepairTypeOK'
    OBVIOUS
  <2>0. CASE UNCHANGED repairVars
    BY <2>0 DEF repairVars, RepairTypeOK
  <2>1. ASSUME NEW n \in Attempts, BeginPropose(n) PROVE RepairTypeOK'
    BY <2>1, GotoTyped, ReturnsTyped, FaultsTyped DEF BeginPropose, ChecksLink, RepairTypeOK, Steps, Replacing, Results, Named
  <2>2. ASSUME NEW n \in Attempts, BeginRepropose(n) PROVE RepairTypeOK'
    BY <2>2, GotoTyped, ReturnsTyped, FaultsTyped DEF BeginRepropose, ChecksLink, RepairTypeOK, Steps, Replacing, Results, Named
  <2>3. ASSUME NEW n \in Attempts, NEW content \in Replacements, Propose(n, content) PROVE RepairTypeOK'
    <3>1. proposal' \in [Attempts -> Proposals]
      <4>1. CASE UNCHANGED proposal
        BY <4>1 DEF RepairTypeOK
      <4>2. CASE \E original \in Readings :
                    Snapshot(n, content, original, digest(content, original))
        <5>1. PICK original \in Readings :
                    Snapshot(n, content, original, digest(content, original))
          BY <4>2
        <5>2. original \in Bytes \cup {Absent} /\ content \in Bytes
          BY RepairAssumption DEF Readings, RepairTypeOK, Named
        <5>3. digest(content, original) \in Nat \X Nat
          BY <5>2, RepairAssumption DEF digest, RepairTypeOK, Proposals
        <5>4. QED
          BY <5>1, <5>3, SnapshotTyped
      <4>3. QED
        BY <2>3, <4>1, <4>2 DEF Propose
    <3>2. QED
      BY <2>3, <3>1, GotoTyped, ReturnsTyped, FaultsTyped DEF Propose, ReadFails, RepairTypeOK, Steps, Replacing, Results, Named
  <2>4. ASSUME NEW n \in Attempts, NEW content \in Replacements, Repropose(n, content) PROVE RepairTypeOK'
    <3>1. proposal' \in [Attempts -> Proposals]
      <4>1. CASE UNCHANGED proposal
        BY <4>1 DEF RepairTypeOK
      <4>2. CASE \E original \in Readings :
                    Snapshot(n, content, original, proposal[n].presented)
        <5>1. PICK original \in Readings :
                    Snapshot(n, content, original, proposal[n].presented)
          BY <4>2
        <5>2. original \in Bytes \cup {Absent} /\ content \in Bytes
          BY RepairAssumption DEF Readings, RepairTypeOK, Named
        <5>3. proposal[n].presented \in Nat \X Nat
          BY <5>2, RepairAssumption DEF digest, RepairTypeOK, Proposals
        <5>4. QED
          BY <5>1, <5>3, SnapshotTyped
      <4>3. QED
        BY <2>4, <4>1, <4>2 DEF Repropose
    <3>2. QED
      BY <2>4, <3>1, GotoTyped, ReturnsTyped, FaultsTyped DEF Repropose, ReadFails, RepairTypeOK, Steps, Replacing, Results, Named
  <2>5. ASSUME NEW n \in Attempts, ApplyHeld(n) PROVE RepairTypeOK'
    BY <2>5, GotoTyped, ReturnsTyped, FaultsTyped DEF ApplyHeld, RepairTypeOK, Steps, Replacing, Results, Named
  <2>6. ASSUME NEW n \in Attempts, NEW authorized \in BOOLEAN, Check(n, authorized) PROVE RepairTypeOK'
    <3>1. unseen' \in [Attempts -> SUBSET Named]
      BY <2>6 DEF Check, RepairTypeOK
    <3>2. QED
      BY <2>6, <3>1, GotoTyped, ReturnsTyped, FaultsTyped DEF Check, RepairTypeOK, Steps, Replacing, Results, Named
  <2>7. ASSUME NEW n \in Attempts, Compare(n) PROVE RepairTypeOK'
    BY <2>7, GotoTyped, ReturnsTyped, FaultsTyped DEF Compare, ReadFails, RepairTypeOK, Steps, Replacing, Results, Named
  <2>8. ASSUME NEW n \in Attempts, Stage(n) PROVE RepairTypeOK'
    <3>1. staged' \in [Attempts -> Bytes \cup {Absent}]
      BY <2>8 DEF Stage, Proposals, RepairTypeOK
    <3>2. pc' \in [Attempts -> Steps] /\ result' \in [Attempts -> Results]
      <4>1. "probe" \in Steps /\ "sweep" \in Steps
        BY DEF Steps, Replacing
      <4>2. PICK step \in Steps : Goto(n, step)
        BY <2>8, <4>1 DEF Stage
      <4>3. QED
        BY <4>2, GotoTyped
    <3>3. faults' \in 0 .. MaxFaults
      BY <2>8, FaultsTyped DEF Stage
    <3>4. QED
      BY <2>8, <3>1, <3>2, <3>3 DEF Stage, RepairTypeOK
  <2>9. ASSUME NEW n \in Attempts, Probe(n) PROVE RepairTypeOK'
    BY <2>9, GotoTyped, ReturnsTyped, FaultsTyped DEF Probe, RepairTypeOK, Steps, Replacing, Results, Named
  <2>10. ASSUME NEW n \in Attempts, Displace(n) PROVE RepairTypeOK'
    <3>1. target' \in Named /\ unseen' \in [Attempts -> SUBSET Named]
      <4>1. Absent \in Named
        BY DEF RepairTypeOK, Named
      <4>2. UNCHANGED <<target, unseen>> \/ Writes({n}, Absent)
        BY <2>10 DEF Displace
      <4>3. QED
        BY <4>1, <4>2, WritesTyped DEF RepairTypeOK
    <3>2. QED
      BY <2>10, <3>1, GotoTyped, ReturnsTyped, FaultsTyped DEF Displace, RepairTypeOK, Steps, Replacing, Results, Named
  <2>11. ASSUME NEW n \in Attempts, Install(n) PROVE RepairTypeOK'
    <3>1. target' \in Named /\ unseen' \in [Attempts -> SUBSET Named]
      <4>1. staged[n] \in Named
        BY DEF RepairTypeOK, Named
      <4>2. UNCHANGED <<target, unseen>> \/ Writes({n}, staged[n])
        BY <2>11 DEF Install
      <4>3. QED
        BY <4>1, <4>2, WritesTyped DEF RepairTypeOK
    <3>2. QED
      BY <2>11, <3>1, GotoTyped, ReturnsTyped, FaultsTyped DEF Install, RepairTypeOK, Steps, Replacing, Results, Named
  <2>12. ASSUME NEW n \in Attempts, Undo(n) PROVE RepairTypeOK'
    <3>1. target' \in Named /\ unseen' \in [Attempts -> SUBSET Named]
      <4>1. backup[n] \in Named
        BY DEF RepairTypeOK, Named
      <4>2. UNCHANGED <<target, unseen>> \/ Writes({n}, backup[n])
        BY <2>12 DEF Undo
      <4>3. QED
        BY <4>1, <4>2, WritesTyped DEF RepairTypeOK
    <3>2. QED
      BY <2>12, <3>1, GotoTyped, ReturnsTyped, FaultsTyped DEF Undo, RepairTypeOK, Steps, Replacing, Results, Named
  <2>13. ASSUME NEW n \in Attempts, Sweep(n) PROVE RepairTypeOK'
    BY <2>13, GotoTyped, ReturnsTyped, FaultsTyped DEF Sweep, RepairTypeOK, Steps, Replacing, Results, Named
  <2>14. ASSUME NEW n \in Attempts, Validate(n) PROVE RepairTypeOK'
    BY <2>14, GotoTyped, ReturnsTyped, FaultsTyped DEF Validate, Proposals, RepairTypeOK, Steps, Replacing, Results, Named
  <2>15. ASSUME NEW n \in Attempts, Commit(n) PROVE RepairTypeOK'
    BY <2>15, GotoTyped, ReturnsTyped, FaultsTyped DEF Commit, RepairTypeOK, Steps, Replacing, Results, Named
  <2>16. ASSUME NEW n \in Attempts, RemoveInstalled(n) PROVE RepairTypeOK'
    <3>1. target' \in Named /\ unseen' \in [Attempts -> SUBSET Named]
      <4>1. Absent \in Named
        BY DEF RepairTypeOK, Named
      <4>2. UNCHANGED <<target, unseen>> \/ Writes({n}, Absent)
        BY <2>16 DEF RemoveInstalled
      <4>3. QED
        BY <4>1, <4>2, WritesTyped DEF RepairTypeOK
    <3>2. QED
      BY <2>16, <3>1, GotoTyped, ReturnsTyped, FaultsTyped DEF RemoveInstalled, RepairTypeOK, Steps, Replacing, Results, Named
  <2>17. ASSUME NEW n \in Attempts, Restore(n) PROVE RepairTypeOK'
    <3>1. target' \in Named /\ unseen' \in [Attempts -> SUBSET Named]
      <4>1. backup[n] \in Named
        BY DEF RepairTypeOK, Named
      <4>2. UNCHANGED <<target, unseen>> \/ Writes({n}, backup[n])
        BY <2>17 DEF Restore
      <4>3. QED
        BY <4>1, <4>2, WritesTyped DEF RepairTypeOK
    <3>2. QED
      BY <2>17, <3>1, GotoTyped, ReturnsTyped, FaultsTyped DEF Restore, RepairTypeOK, Steps, Replacing, Results, Named
  <2>18. ASSUME NEW n \in Attempts, Crash(n) PROVE RepairTypeOK'
    BY <2>18, GotoTyped, ReturnsTyped, FaultsTyped DEF Crash, RepairTypeOK, Steps, Replacing, Results, Named
  <2>19. ASSUME NEW bytes \in Bytes \cup {Absent, Link}, Edit(bytes) PROVE RepairTypeOK'
    BY <2>19, WritesTyped, RepairAssumption DEF Edit, RepairTypeOK, Named
  <2>20. QED
    BY <2>0, <2>1, <2>2, <2>3, <2>4, <2>5, <2>6, <2>7, <2>8, <2>9, <2>10, <2>11, <2>12, <2>13, <2>14, <2>15, <2>16, <2>17, <2>18, <2>19 DEF RepairNext
<1>3. QED
  BY <1>1, <1>2, PTL DEF RepairSpec

-----------------------------------------------------------------------------
(* Repair: the inductive invariant. *)

\* What one attempt does leaves the others where they are.
LEMMA OthersKept ==
    ASSUME RepairTypeOK, NEW n \in Attempts, NEW m \in Attempts \ {n}, Secure(m), Calm(m),
           Alone(n), Told(n)
    PROVE  Secure(m)' /\ Calm(m)'
<1>1. /\ staged'[m] = staged[m] /\ backup'[m] = backup[m] /\ pc'[m] = pc[m]
      /\ proposal'[m] = proposal[m] /\ result'[m] = result[m]
  BY DEF Alone
<1>2. CASE target' = target /\ unseen'[m] = unseen[m]
  BY <1>1, <1>2 DEF Secure, Calm
<1>3. CASE \E bytes : Writes({n}, bytes)
  <2>1. PICK bytes : Writes({n}, bytes)
    BY <1>3
  <2>2. CASE pc[m] \in Replacing
    <3>1. target' = bytes /\ unseen'[m] = unseen[m] \cup {bytes}
      BY <2>1, <2>2 DEF Writes
    <3>2. QED
      BY <1>1, <3>1 DEF Secure, Calm
  <2>3. CASE pc[m] \notin Replacing
    <3>1. unseen'[m] = unseen[m]
      BY <2>1, <2>3 DEF Writes
    <3>2. QED
      BY <1>1, <2>3, <3>1 DEF Secure, Calm, Replacing
  <2>4. QED
    BY <2>2, <2>3
<1>4. QED
  BY <1>2, <1>3 DEF Told

\* While all is quiet, an attempt that writes is the only one at work.
LEMMA WriterAlone ==
    ASSUME NEW n \in Attempts, NEW bytes, Writes({n}, bytes), Quiet'
    PROVE  Quiet /\ \A m \in Attempts \ {n} : pc[m] \notin Replacing
BY DEF Writes, Quiet

\* An attempt that writes nothing is quiet before when it is quiet after.
LEMMA StaysQuiet ==
    ASSUME RepairTypeOK, NEW n \in Attempts, Told(n), unseen'[n] = {} => unseen[n] = {}, Quiet'
    PROVE  Quiet
BY WriterAlone DEF Told, Quiet

LEMMA RepairInvInductive ==
    ASSUME RepairInv, [RepairNext]_repairVars, RepairTypeOK'
    PROVE  RepairInv'
<1> USE RepairAssumption DEF RepairInv
<1>0. CASE UNCHANGED repairVars
  BY <1>0 DEF repairVars, Secure, Calm, Whole, Quiet, Exclusive, Written, Safe, Accepted
<1>1. ASSUME NEW n \in Attempts, BeginPropose(n) PROVE RepairInv'
  <2>1. Alone(n)
    BY <1>1 DEF BeginPropose, ChecksLink, LinkSeen, At, Goto, Returns, Alone, RepairTypeOK
  <2>2. Told(n)
    BY <1>1 DEF BeginPropose, ChecksLink, LinkSeen, Told, RepairTypeOK
  <2>3. Secure(n)'
    BY <1>1 DEF BeginPropose, ChecksLink, LinkSeen, At, Goto, Returns, Secure, Calm, Early, Replacing, RepairTypeOK, Proposals, Named
  <2>4. Calm(n)'
    BY <1>1 DEF BeginPropose, ChecksLink, LinkSeen, At, Goto, Returns, Secure, Calm, Early, Replacing, RepairTypeOK, Proposals, Named
  <2>5. ASSUME Quiet' PROVE Exclusive' /\ Safe' /\ Accepted'
    <3>1. Quiet
      BY <1>1, <2>2, <2>5, StaysQuiet DEF BeginPropose, ChecksLink, LinkSeen, Quiet, RepairTypeOK
    <3>2. Exclusive /\ Safe /\ Accepted /\ unseen[n] = {}
      BY <3>1 DEF Whole, Quiet
    <3>3. Exclusive'
      BY <1>1, <2>1, <2>5, <3>2, WriterAlone DEF BeginPropose, ChecksLink, LinkSeen, At, Goto, Returns, Exclusive, Written, Replacing, Alone, RepairTypeOK
    <3>4. Safe'
      BY <1>1, <2>1, <3>2 DEF BeginPropose, ChecksLink, LinkSeen, At, Goto, Returns, Exclusive, Written, Safe, Accepted, Secure, Calm, RepairTypeOK
    <3>5. Accepted'
      BY <1>1, <2>1, <3>2 DEF BeginPropose, ChecksLink, LinkSeen, At, Goto, Returns, Exclusive, Written, Accepted, Alone, RepairTypeOK
    <3>6. QED
      BY <3>3, <3>4, <3>5
  <2>6. QED
    BY <2>1, <2>2, <2>3, <2>4, <2>5, OthersKept DEF Whole
<1>2. ASSUME NEW n \in Attempts, BeginRepropose(n) PROVE RepairInv'
  <2>1. Alone(n)
    BY <1>2 DEF BeginRepropose, ChecksLink, LinkSeen, At, Goto, Returns, Alone, RepairTypeOK
  <2>2. Told(n)
    BY <1>2 DEF BeginRepropose, ChecksLink, LinkSeen, Told, RepairTypeOK
  <2>3. Secure(n)'
    BY <1>2 DEF BeginRepropose, ChecksLink, LinkSeen, At, Goto, Returns, Secure, Calm, Early, Replacing, RepairTypeOK, Proposals, Named
  <2>4. Calm(n)'
    BY <1>2 DEF BeginRepropose, ChecksLink, LinkSeen, At, Goto, Returns, Secure, Calm, Early, Replacing, RepairTypeOK, Proposals, Named
  <2>5. ASSUME Quiet' PROVE Exclusive' /\ Safe' /\ Accepted'
    <3>1. Quiet
      BY <1>2, <2>2, <2>5, StaysQuiet DEF BeginRepropose, ChecksLink, LinkSeen, Quiet, RepairTypeOK
    <3>2. Exclusive /\ Safe /\ Accepted /\ unseen[n] = {}
      BY <3>1 DEF Whole, Quiet
    <3>3. Exclusive'
      BY <1>2, <2>1, <2>5, <3>2, WriterAlone DEF BeginRepropose, ChecksLink, LinkSeen, At, Goto, Returns, Exclusive, Written, Replacing, Alone, RepairTypeOK
    <3>4. Safe'
      BY <1>2, <2>1, <3>2 DEF BeginRepropose, ChecksLink, LinkSeen, At, Goto, Returns, Exclusive, Written, Safe, Accepted, Secure, Calm, RepairTypeOK
    <3>5. Accepted'
      BY <1>2, <2>1, <3>2 DEF BeginRepropose, ChecksLink, LinkSeen, At, Goto, Returns, Exclusive, Written, Accepted, Alone, RepairTypeOK
    <3>6. QED
      BY <3>3, <3>4, <3>5
  <2>6. QED
    BY <2>1, <2>2, <2>3, <2>4, <2>5, OthersKept DEF Whole
<1>3. ASSUME NEW n \in Attempts, NEW content \in Replacements, Propose(n, content) PROVE RepairInv'
  <2>1. Alone(n)
    BY <1>3 DEF Propose, Snapshot, ReadFails, Readings, At, Goto, Returns, Alone, RepairTypeOK
  <2>2. Told(n)
    BY <1>3 DEF Propose, Snapshot, ReadFails, Readings, Told, RepairTypeOK
  <2>3. Secure(n)'
    BY <1>3 DEF Propose, Snapshot, ReadFails, Readings, At, Goto, Returns, Secure, Calm, Early, Replacing, RepairTypeOK, Proposals, Named
  <2>4. Calm(n)'
    BY <1>3 DEF Propose, Snapshot, ReadFails, Readings, At, Goto, Returns, Secure, Calm, Early, Replacing, RepairTypeOK, Proposals, Named
  <2>5. ASSUME Quiet' PROVE Exclusive' /\ Safe' /\ Accepted'
    <3>1. Quiet
      BY <1>3, <2>2, <2>5, StaysQuiet DEF Propose, Snapshot, ReadFails, Readings, Quiet, RepairTypeOK
    <3>2. Exclusive /\ Safe /\ Accepted /\ unseen[n] = {}
      BY <3>1 DEF Whole, Quiet
    <3>3. Exclusive'
      BY <1>3, <2>1, <2>5, <3>2, WriterAlone DEF Propose, Snapshot, ReadFails, Readings, At, Goto, Returns, Exclusive, Written, Replacing, Alone, RepairTypeOK
    <3>4. Safe'
      BY <1>3, <2>1, <3>2 DEF Propose, Snapshot, ReadFails, Readings, At, Goto, Returns, Exclusive, Written, Safe, Accepted, Secure, Calm, RepairTypeOK
    <3>5. Accepted'
      BY <1>3, <2>1, <3>2 DEF Propose, Snapshot, ReadFails, Readings, At, Goto, Returns, Exclusive, Written, Accepted, Alone, RepairTypeOK
    <3>6. QED
      BY <3>3, <3>4, <3>5
  <2>6. QED
    BY <2>1, <2>2, <2>3, <2>4, <2>5, OthersKept DEF Whole
<1>4. ASSUME NEW n \in Attempts, NEW content \in Replacements, Repropose(n, content) PROVE RepairInv'
  <2>1. Alone(n)
    BY <1>4 DEF Repropose, Snapshot, ReadFails, Readings, At, Goto, Returns, Alone, RepairTypeOK
  <2>2. Told(n)
    BY <1>4 DEF Repropose, Snapshot, ReadFails, Readings, Told, RepairTypeOK
  <2>3. Secure(n)'
    BY <1>4 DEF Repropose, Snapshot, ReadFails, Readings, At, Goto, Returns, Secure, Calm, Early, Replacing, RepairTypeOK, Proposals, Named
  <2>4. Calm(n)'
    BY <1>4 DEF Repropose, Snapshot, ReadFails, Readings, At, Goto, Returns, Secure, Calm, Early, Replacing, RepairTypeOK, Proposals, Named
  <2>5. ASSUME Quiet' PROVE Exclusive' /\ Safe' /\ Accepted'
    <3>1. Quiet
      BY <1>4, <2>2, <2>5, StaysQuiet DEF Repropose, Snapshot, ReadFails, Readings, Quiet, RepairTypeOK
    <3>2. Exclusive /\ Safe /\ Accepted /\ unseen[n] = {}
      BY <3>1 DEF Whole, Quiet
    <3>3. Exclusive'
      BY <1>4, <2>1, <2>5, <3>2, WriterAlone DEF Repropose, Snapshot, ReadFails, Readings, At, Goto, Returns, Exclusive, Written, Replacing, Alone, RepairTypeOK
    <3>4. Safe'
      BY <1>4, <2>1, <3>2 DEF Repropose, Snapshot, ReadFails, Readings, At, Goto, Returns, Exclusive, Written, Safe, Accepted, Secure, Calm, RepairTypeOK
    <3>5. Accepted'
      BY <1>4, <2>1, <3>2 DEF Repropose, Snapshot, ReadFails, Readings, At, Goto, Returns, Exclusive, Written, Accepted, Alone, RepairTypeOK
    <3>6. QED
      BY <3>3, <3>4, <3>5
  <2>6. QED
    BY <2>1, <2>2, <2>3, <2>4, <2>5, OthersKept DEF Whole
<1>5. ASSUME NEW n \in Attempts, ApplyHeld(n) PROVE RepairInv'
  <2>1. Alone(n)
    BY <1>5 DEF ApplyHeld, At, Goto, Returns, Alone, RepairTypeOK
  <2>2. Told(n)
    BY <1>5 DEF ApplyHeld, Told, RepairTypeOK
  <2>3. Secure(n)'
    BY <1>5 DEF ApplyHeld, At, Goto, Returns, Secure, Calm, Early, Replacing, RepairTypeOK, Proposals, Named
  <2>4. Calm(n)'
    BY <1>5 DEF ApplyHeld, At, Goto, Returns, Secure, Calm, Early, Replacing, RepairTypeOK, Proposals, Named
  <2>5. ASSUME Quiet' PROVE Exclusive' /\ Safe' /\ Accepted'
    <3>1. Quiet
      BY <1>5, <2>2, <2>5, StaysQuiet DEF ApplyHeld, Quiet, RepairTypeOK
    <3>2. Exclusive /\ Safe /\ Accepted /\ unseen[n] = {}
      BY <3>1 DEF Whole, Quiet
    <3>3. Exclusive'
      BY <1>5, <2>1, <2>5, <3>2, WriterAlone DEF ApplyHeld, At, Goto, Returns, Exclusive, Written, Replacing, Alone, RepairTypeOK
    <3>4. Safe'
      BY <1>5, <2>1, <3>2 DEF ApplyHeld, At, Goto, Returns, Exclusive, Written, Safe, Accepted, Secure, Calm, RepairTypeOK
    <3>5. Accepted'
      BY <1>5, <2>1, <3>2 DEF ApplyHeld, At, Goto, Returns, Exclusive, Written, Accepted, Alone, RepairTypeOK
    <3>6. QED
      BY <3>3, <3>4, <3>5
  <2>6. QED
    BY <2>1, <2>2, <2>3, <2>4, <2>5, OthersKept DEF Whole
<1>6. ASSUME NEW n \in Attempts, NEW authorized \in BOOLEAN, Check(n, authorized) PROVE RepairInv'
  <2>1. Alone(n)
    BY <1>6 DEF Check, Mismatch, LinkSeen, At, Goto, Returns, Alone, RepairTypeOK
  <2>2. Told(n)
    BY <1>6 DEF Check, Mismatch, LinkSeen, Told, RepairTypeOK
  <2>3. Secure(n)'
    BY <1>6 DEF Check, Mismatch, LinkSeen, At, Goto, Returns, Secure, Calm, Early, Replacing, RepairTypeOK, Proposals, Named
  <2>4. Calm(n)'
    BY <1>6 DEF Check, Mismatch, LinkSeen, At, Goto, Returns, Secure, Calm, Early, Replacing, RepairTypeOK, Proposals, Named
  <2>5. ASSUME Quiet' PROVE Exclusive' /\ Safe' /\ Accepted'
    <3>0. UNCHANGED unseen \/ unseen'[n] = {target}
      BY <1>6 DEF Check, RepairTypeOK
    <3>1. Quiet
      BY <2>2, <2>5, <3>0, StaysQuiet DEF Quiet
    <3>2. Exclusive /\ Safe /\ Accepted /\ unseen[n] = {}
      BY <3>1 DEF Whole, Quiet
    <3>3. Exclusive'
      BY <1>6, <2>1, <2>5, <3>2, WriterAlone DEF Check, Mismatch, LinkSeen, At, Goto, Returns, Exclusive, Written, Replacing, Alone, RepairTypeOK
    <3>4. Safe'
      BY <1>6, <2>1, <3>2 DEF Check, Mismatch, LinkSeen, At, Goto, Returns, Exclusive, Written, Safe, Accepted, Secure, Calm, RepairTypeOK
    <3>5. Accepted'
      BY <1>6, <2>1, <3>2 DEF Check, Mismatch, LinkSeen, At, Goto, Returns, Exclusive, Written, Accepted, Alone, RepairTypeOK
    <3>6. QED
      BY <3>3, <3>4, <3>5
  <2>6. QED
    BY <2>1, <2>2, <2>3, <2>4, <2>5, OthersKept DEF Whole
<1>7. ASSUME NEW n \in Attempts, Compare(n) PROVE RepairInv'
  <2>1. Alone(n)
    BY <1>7 DEF Compare, ReadFails, Readings, At, Goto, Returns, Alone, RepairTypeOK
  <2>2. Told(n)
    BY <1>7 DEF Compare, ReadFails, Readings, Told, RepairTypeOK
  <2>3. Secure(n)'
    BY <1>7 DEF Compare, ReadFails, Readings, At, Goto, Returns, Secure, Calm, Early, Replacing, RepairTypeOK, Proposals, Named
  <2>4. Calm(n)'
    BY <1>7 DEF Compare, ReadFails, Readings, At, Goto, Returns, Secure, Calm, Early, Replacing, RepairTypeOK, Proposals, Named
  <2>5. ASSUME Quiet' PROVE Exclusive' /\ Safe' /\ Accepted'
    <3>1. Quiet
      BY <1>7, <2>2, <2>5, StaysQuiet DEF Compare, ReadFails, Readings, Quiet, RepairTypeOK
    <3>2. Exclusive /\ Safe /\ Accepted /\ unseen[n] = {}
      BY <3>1 DEF Whole, Quiet
    <3>3. Exclusive'
      BY <1>7, <2>1, <2>5, <3>2, WriterAlone DEF Compare, ReadFails, Readings, At, Goto, Returns, Exclusive, Written, Replacing, Alone, RepairTypeOK
    <3>4. Safe'
      BY <1>7, <2>1, <3>2 DEF Compare, ReadFails, Readings, At, Goto, Returns, Exclusive, Written, Safe, Accepted, Secure, Calm, RepairTypeOK
    <3>5. Accepted'
      BY <1>7, <2>1, <3>2 DEF Compare, ReadFails, Readings, At, Goto, Returns, Exclusive, Written, Accepted, Alone, RepairTypeOK
    <3>6. QED
      BY <3>3, <3>4, <3>5
  <2>6. QED
    BY <2>1, <2>2, <2>3, <2>4, <2>5, OthersKept DEF Whole
<1>8. ASSUME NEW n \in Attempts, Stage(n) PROVE RepairInv'
  <2>1. Alone(n)
    BY <1>8 DEF Stage, At, Goto, Returns, Alone, RepairTypeOK
  <2>2. Told(n)
    BY <1>8 DEF Stage, Told, RepairTypeOK
  <2>3. Secure(n)'
    BY <1>8 DEF Stage, At, Goto, Returns, Secure, Calm, Early, Replacing, RepairTypeOK, Proposals, Named
  <2>4. Calm(n)'
    BY <1>8 DEF Stage, At, Goto, Returns, Secure, Calm, Early, Replacing, RepairTypeOK, Proposals, Named
  <2>5. ASSUME Quiet' PROVE Exclusive' /\ Safe' /\ Accepted'
    <3>1. Quiet
      BY <1>8, <2>2, <2>5, StaysQuiet DEF Stage, Quiet, RepairTypeOK
    <3>2. Exclusive /\ Safe /\ Accepted /\ unseen[n] = {}
      BY <3>1 DEF Whole, Quiet
    <3>3. Exclusive'
      BY <1>8, <2>1, <2>5, <3>2, WriterAlone DEF Stage, At, Goto, Returns, Exclusive, Written, Replacing, Alone, RepairTypeOK
    <3>4. Safe'
      BY <1>8, <2>1, <3>2 DEF Stage, At, Goto, Returns, Exclusive, Written, Safe, Accepted, Secure, Calm, RepairTypeOK
    <3>5. Accepted'
      BY <1>8, <2>1, <3>2 DEF Stage, At, Goto, Returns, Exclusive, Written, Accepted, Alone, RepairTypeOK
    <3>6. QED
      BY <3>3, <3>4, <3>5
  <2>6. QED
    BY <2>1, <2>2, <2>3, <2>4, <2>5, OthersKept DEF Whole
<1>9. ASSUME NEW n \in Attempts, Probe(n) PROVE RepairInv'
  <2>1. Alone(n)
    BY <1>9 DEF Probe, At, Goto, Returns, Alone, RepairTypeOK
  <2>2. Told(n)
    BY <1>9 DEF Probe, Told, RepairTypeOK
  <2>3. Secure(n)'
    BY <1>9 DEF Probe, At, Goto, Returns, Secure, Calm, Early, Replacing, RepairTypeOK, Proposals, Named
  <2>4. Calm(n)'
    BY <1>9 DEF Probe, At, Goto, Returns, Secure, Calm, Early, Replacing, RepairTypeOK, Proposals, Named
  <2>5. ASSUME Quiet' PROVE Exclusive' /\ Safe' /\ Accepted'
    <3>1. Quiet
      BY <1>9, <2>2, <2>5, StaysQuiet DEF Probe, Quiet, RepairTypeOK
    <3>2. Exclusive /\ Safe /\ Accepted /\ unseen[n] = {}
      BY <3>1 DEF Whole, Quiet
    <3>3. Exclusive'
      <4>1. ~Written(n)'
        BY <1>9 DEF Probe, At, Goto, Written, Secure, Early, RepairTypeOK
      <4>2. \A m \in Attempts \ {n} : Written(m)' <=> Written(m)
        BY <2>1 DEF Alone, Written
      <4>3. QED
        BY <3>2, <4>1, <4>2 DEF Exclusive
    <3>4. Safe'
      BY <1>9, <2>1, <3>2 DEF Probe, At, Goto, Returns, Exclusive, Written, Safe, Accepted, Secure, Calm, RepairTypeOK
    <3>5. Accepted'
      BY <1>9, <2>1, <3>2 DEF Probe, At, Goto, Returns, Exclusive, Written, Accepted, Alone, RepairTypeOK
    <3>6. QED
      BY <3>3, <3>4, <3>5
  <2>6. QED
    BY <2>1, <2>2, <2>3, <2>4, <2>5, OthersKept DEF Whole
<1>10. ASSUME NEW n \in Attempts, Displace(n) PROVE RepairInv'
  <2>1. Alone(n)
    BY <1>10 DEF Displace, Writes, At, Goto, Returns, Alone, RepairTypeOK
  <2>2. Told(n)
    BY <1>10 DEF Displace, Told, RepairTypeOK
  <2>3. Secure(n)'
    BY <1>10 DEF Displace, Writes, At, Goto, Returns, Secure, Calm, Early, Replacing, RepairTypeOK, Proposals, Named
  <2>4. Calm(n)'
    BY <1>10 DEF Displace, Writes, At, Goto, Returns, Secure, Calm, Early, Replacing, RepairTypeOK, Proposals, Named
  <2>5. ASSUME Quiet' PROVE Exclusive' /\ Safe' /\ Accepted'
    <3>1. Quiet
      BY <1>10, <2>2, <2>5, StaysQuiet DEF Displace, Writes, Quiet, RepairTypeOK
    <3>2. Exclusive /\ Safe /\ Accepted /\ unseen[n] = {}
      BY <3>1 DEF Whole, Quiet
    <3>3. Exclusive'
      BY <1>10, <2>1, <2>5, <3>2, WriterAlone DEF Displace, At, Goto, Returns, Exclusive, Written, Replacing, Alone, RepairTypeOK
    <3>4. Safe'
      BY <1>10, <2>1, <3>2 DEF Displace, Writes, At, Goto, Returns, Exclusive, Written, Safe, Accepted, Secure, Calm, RepairTypeOK
    <3>5. Accepted'
      BY <1>10, <2>1, <3>2 DEF Displace, Writes, At, Goto, Returns, Exclusive, Written, Accepted, Alone, RepairTypeOK
    <3>6. QED
      BY <3>3, <3>4, <3>5
  <2>6. QED
    BY <2>1, <2>2, <2>3, <2>4, <2>5, OthersKept DEF Whole
<1>11. ASSUME NEW n \in Attempts, Install(n) PROVE RepairInv'
  <2>1. Alone(n)
    BY <1>11 DEF Install, Writes, At, Goto, Returns, Alone, RepairTypeOK
  <2>2. Told(n)
    BY <1>11 DEF Install, Told, RepairTypeOK
  <2>3. Secure(n)'
    BY <1>11 DEF Install, Writes, At, Goto, Returns, Secure, Calm, Early, Replacing, RepairTypeOK, Proposals, Named
  <2>4. Calm(n)'
    BY <1>11 DEF Install, Writes, At, Goto, Returns, Secure, Calm, Early, Replacing, RepairTypeOK, Proposals, Named
  <2>5. ASSUME Quiet' PROVE Exclusive' /\ Safe' /\ Accepted'
    <3>1. Quiet
      BY <1>11, <2>2, <2>5, StaysQuiet DEF Install, Writes, Quiet, RepairTypeOK
    <3>2. Exclusive /\ Safe /\ Accepted /\ unseen[n] = {}
      BY <3>1 DEF Whole, Quiet
    <3>3. Exclusive'
      BY <1>11, <2>1, <2>5, <3>2, WriterAlone DEF Install, At, Goto, Returns, Exclusive, Written, Replacing, Alone, RepairTypeOK
    <3>4. Safe'
      BY <1>11, <2>1, <3>2 DEF Install, Writes, At, Goto, Returns, Exclusive, Written, Safe, Accepted, Secure, Calm, RepairTypeOK
    <3>5. Accepted'
      BY <1>11, <2>1, <3>2 DEF Install, Writes, At, Goto, Returns, Exclusive, Written, Accepted, Alone, RepairTypeOK
    <3>6. QED
      BY <3>3, <3>4, <3>5
  <2>6. QED
    BY <2>1, <2>2, <2>3, <2>4, <2>5, OthersKept DEF Whole
<1>12. ASSUME NEW n \in Attempts, Undo(n) PROVE RepairInv'
  <2>1. Alone(n)
    BY <1>12 DEF Undo, Writes, At, Goto, Returns, Alone, RepairTypeOK
  <2>2. Told(n)
    BY <1>12 DEF Undo, Told, RepairTypeOK
  <2>3. Secure(n)'
    BY <1>12 DEF Undo, Writes, At, Goto, Returns, Secure, Calm, Early, Replacing, RepairTypeOK, Proposals, Named
  <2>4. Calm(n)'
    BY <1>12 DEF Undo, Writes, At, Goto, Returns, Secure, Calm, Early, Replacing, RepairTypeOK, Proposals, Named
  <2>5. ASSUME Quiet' PROVE Exclusive' /\ Safe' /\ Accepted'
    <3>1. Quiet
      BY <1>12, <2>2, <2>5, StaysQuiet DEF Undo, Writes, Quiet, RepairTypeOK
    <3>2. Exclusive /\ Safe /\ Accepted /\ unseen[n] = {}
      BY <3>1 DEF Whole, Quiet
    <3>3. Exclusive'
      BY <1>12, <2>1, <2>5, <3>2, WriterAlone DEF Undo, At, Goto, Returns, Exclusive, Written, Replacing, Alone, RepairTypeOK
    <3>4. Safe'
      BY <1>12, <2>1, <3>2 DEF Undo, Writes, At, Goto, Returns, Exclusive, Written, Safe, Accepted, Secure, Calm, RepairTypeOK
    <3>5. Accepted'
      BY <1>12, <2>1, <3>2 DEF Undo, Writes, At, Goto, Returns, Exclusive, Written, Accepted, Alone, RepairTypeOK
    <3>6. QED
      BY <3>3, <3>4, <3>5
  <2>6. QED
    BY <2>1, <2>2, <2>3, <2>4, <2>5, OthersKept DEF Whole
<1>13. ASSUME NEW n \in Attempts, Sweep(n) PROVE RepairInv'
  <2>1. Alone(n)
    BY <1>13 DEF Sweep, At, Goto, Returns, Alone, RepairTypeOK
  <2>2. Told(n)
    BY <1>13 DEF Sweep, Told, RepairTypeOK
  <2>3. Secure(n)'
    BY <1>13 DEF Sweep, At, Goto, Returns, Secure, Calm, Early, Replacing, RepairTypeOK, Proposals, Named
  <2>4. Calm(n)'
    BY <1>13 DEF Sweep, At, Goto, Returns, Secure, Calm, Early, Replacing, RepairTypeOK, Proposals, Named
  <2>5. ASSUME Quiet' PROVE Exclusive' /\ Safe' /\ Accepted'
    <3>1. Quiet
      BY <1>13, <2>2, <2>5, StaysQuiet DEF Sweep, Quiet, RepairTypeOK
    <3>2. Exclusive /\ Safe /\ Accepted /\ unseen[n] = {}
      BY <3>1 DEF Whole, Quiet
    <3>3. Exclusive'
      BY <1>13, <2>1, <2>5, <3>2, WriterAlone DEF Sweep, At, Goto, Returns, Exclusive, Written, Replacing, Alone, RepairTypeOK
    <3>4. Safe'
      BY <1>13, <2>1, <3>2 DEF Sweep, At, Goto, Returns, Exclusive, Written, Safe, Accepted, Secure, Calm, RepairTypeOK
    <3>5. Accepted'
      BY <1>13, <2>1, <3>2 DEF Sweep, At, Goto, Returns, Exclusive, Written, Accepted, Alone, RepairTypeOK
    <3>6. QED
      BY <3>3, <3>4, <3>5
  <2>6. QED
    BY <2>1, <2>2, <2>3, <2>4, <2>5, OthersKept DEF Whole
<1>14. ASSUME NEW n \in Attempts, Validate(n) PROVE RepairInv'
  <2>1. Alone(n)
    BY <1>14 DEF Validate, At, Goto, Returns, Alone, RepairTypeOK
  <2>2. Told(n)
    BY <1>14 DEF Validate, Told, RepairTypeOK
  <2>3. Secure(n)'
    BY <1>14 DEF Validate, At, Goto, Returns, Secure, Calm, Early, Replacing, RepairTypeOK, Proposals, Named
  <2>4. Calm(n)'
    BY <1>14 DEF Validate, At, Goto, Returns, Secure, Calm, Early, Replacing, RepairTypeOK, Proposals, Named
  <2>5. ASSUME Quiet' PROVE Exclusive' /\ Safe' /\ Accepted'
    <3>1. Quiet
      BY <1>14, <2>2, <2>5, StaysQuiet DEF Validate, Quiet, RepairTypeOK
    <3>2. Exclusive /\ Safe /\ Accepted /\ unseen[n] = {}
      BY <3>1 DEF Whole, Quiet
    <3>3. Exclusive'
      BY <1>14, <2>1, <2>5, <3>2, WriterAlone DEF Validate, At, Goto, Returns, Exclusive, Written, Replacing, Alone, RepairTypeOK
    <3>4. Safe'
      BY <1>14, <2>1, <3>2 DEF Validate, At, Goto, Returns, Exclusive, Written, Safe, Accepted, Secure, Calm, RepairTypeOK
    <3>5. Accepted'
      BY <1>14, <2>1, <3>2 DEF Validate, At, Goto, Returns, Exclusive, Written, Accepted, Alone, RepairTypeOK
    <3>6. QED
      BY <3>3, <3>4, <3>5
  <2>6. QED
    BY <2>1, <2>2, <2>3, <2>4, <2>5, OthersKept DEF Whole
<1>15. ASSUME NEW n \in Attempts, Commit(n) PROVE RepairInv'
  <2>1. Alone(n)
    BY <1>15 DEF Commit, At, Goto, Returns, Alone, RepairTypeOK
  <2>2. Told(n)
    BY <1>15 DEF Commit, Told, RepairTypeOK
  <2>3. Secure(n)'
    BY <1>15 DEF Commit, At, Goto, Returns, Secure, Calm, Early, Replacing, RepairTypeOK, Proposals, Named
  <2>4. Calm(n)'
    BY <1>15 DEF Commit, At, Goto, Returns, Secure, Calm, Early, Replacing, RepairTypeOK, Proposals, Named
  <2>5. ASSUME Quiet' PROVE Exclusive' /\ Safe' /\ Accepted'
    <3>1. Quiet
      BY <1>15, <2>2, <2>5, StaysQuiet DEF Commit, Quiet, RepairTypeOK
    <3>2. Exclusive /\ Safe /\ Accepted /\ unseen[n] = {}
      BY <3>1 DEF Whole, Quiet
    <3>3. Exclusive'
      BY <1>15, <2>1, <2>5, <3>2, WriterAlone DEF Commit, At, Goto, Returns, Exclusive, Written, Replacing, Alone, RepairTypeOK
    <3>4. Safe'
      BY <1>15, <2>1, <3>2 DEF Commit, At, Goto, Returns, Exclusive, Written, Safe, Accepted, Secure, Calm, RepairTypeOK
    <3>5. Accepted'
      BY <1>15, <2>1, <3>2 DEF Commit, At, Goto, Returns, Exclusive, Written, Accepted, Alone, RepairTypeOK
    <3>6. QED
      BY <3>3, <3>4, <3>5
  <2>6. QED
    BY <2>1, <2>2, <2>3, <2>4, <2>5, OthersKept DEF Whole
<1>16. ASSUME NEW n \in Attempts, RemoveInstalled(n) PROVE RepairInv'
  <2>1. Alone(n)
    BY <1>16 DEF RemoveInstalled, Writes, At, Goto, Returns, Alone, RepairTypeOK
  <2>2. Told(n)
    BY <1>16 DEF RemoveInstalled, Told, RepairTypeOK
  <2>3. Secure(n)'
    BY <1>16 DEF RemoveInstalled, Writes, At, Goto, Returns, Secure, Calm, Early, Replacing, RepairTypeOK, Proposals, Named
  <2>4. Calm(n)'
    BY <1>16 DEF RemoveInstalled, Writes, At, Goto, Returns, Secure, Calm, Early, Replacing, RepairTypeOK, Proposals, Named
  <2>5. ASSUME Quiet' PROVE Exclusive' /\ Safe' /\ Accepted'
    <3>1. Quiet
      BY <1>16, <2>2, <2>5, StaysQuiet DEF RemoveInstalled, Writes, Quiet, RepairTypeOK
    <3>2. Exclusive /\ Safe /\ Accepted /\ unseen[n] = {}
      BY <3>1 DEF Whole, Quiet
    <3>3. Exclusive'
      BY <1>16, <2>1, <2>5, <3>2, WriterAlone DEF RemoveInstalled, At, Goto, Returns, Exclusive, Written, Replacing, Alone, RepairTypeOK
    <3>4. Safe'
      BY <1>16, <2>1, <3>2 DEF RemoveInstalled, Writes, At, Goto, Returns, Exclusive, Written, Safe, Accepted, Secure, Calm, RepairTypeOK
    <3>5. Accepted'
      BY <1>16, <2>1, <3>2 DEF RemoveInstalled, Writes, At, Goto, Returns, Exclusive, Written, Accepted, Alone, RepairTypeOK
    <3>6. QED
      BY <3>3, <3>4, <3>5
  <2>6. QED
    BY <2>1, <2>2, <2>3, <2>4, <2>5, OthersKept DEF Whole
<1>17. ASSUME NEW n \in Attempts, Restore(n) PROVE RepairInv'
  <2>1. Alone(n)
    BY <1>17 DEF Restore, Writes, At, Goto, Returns, Alone, RepairTypeOK
  <2>2. Told(n)
    BY <1>17 DEF Restore, Told, RepairTypeOK
  <2>3. Secure(n)'
    BY <1>17 DEF Restore, Writes, At, Goto, Returns, Secure, Calm, Early, Replacing, RepairTypeOK, Proposals, Named
  <2>4. Calm(n)'
    BY <1>17 DEF Restore, Writes, At, Goto, Returns, Secure, Calm, Early, Replacing, RepairTypeOK, Proposals, Named
  <2>5. ASSUME Quiet' PROVE Exclusive' /\ Safe' /\ Accepted'
    <3>1. Quiet
      BY <1>17, <2>2, <2>5, StaysQuiet DEF Restore, Writes, Quiet, RepairTypeOK
    <3>2. Exclusive /\ Safe /\ Accepted /\ unseen[n] = {}
      BY <3>1 DEF Whole, Quiet
    <3>3. Exclusive'
      BY <1>17, <2>1, <2>5, <3>2, WriterAlone DEF Restore, At, Goto, Returns, Exclusive, Written, Replacing, Alone, RepairTypeOK
    <3>4. Safe'
      BY <1>17, <2>1, <3>2 DEF Restore, Writes, At, Goto, Returns, Exclusive, Written, Safe, Accepted, Secure, Calm, RepairTypeOK
    <3>5. Accepted'
      BY <1>17, <2>1, <3>2 DEF Restore, Writes, At, Goto, Returns, Exclusive, Written, Accepted, Alone, RepairTypeOK
    <3>6. QED
      BY <3>3, <3>4, <3>5
  <2>6. QED
    BY <2>1, <2>2, <2>3, <2>4, <2>5, OthersKept DEF Whole
<1>18. ASSUME NEW n \in Attempts, Crash(n) PROVE RepairInv'
  <2>1. Alone(n)
    BY <1>18 DEF Crash, At, Goto, Returns, Alone, RepairTypeOK
  <2>2. Told(n)
    BY <1>18 DEF Crash, Told, RepairTypeOK
  <2>3. Secure(n)'
    BY <1>18 DEF Crash, At, Goto, Returns, Secure, Calm, Early, Replacing, RepairTypeOK, Proposals, Named
  <2>4. Calm(n)'
    BY <1>18 DEF Crash, At, Goto, Returns, Secure, Calm, Early, Replacing, RepairTypeOK, Proposals, Named
  <2>5. ASSUME Quiet' PROVE Exclusive' /\ Safe' /\ Accepted'
    <3>1. Quiet
      BY <1>18, <2>2, <2>5, StaysQuiet DEF Crash, Quiet, RepairTypeOK
    <3>2. Exclusive /\ Safe /\ Accepted /\ unseen[n] = {}
      BY <3>1 DEF Whole, Quiet
    <3>3. Exclusive'
      BY <1>18, <2>1, <2>5, <3>2, WriterAlone DEF Crash, At, Goto, Returns, Exclusive, Written, Replacing, Alone, RepairTypeOK
    <3>4. Safe'
      BY <1>18, <2>1, <3>2 DEF Crash, At, Goto, Returns, Exclusive, Written, Safe, Accepted, Secure, Calm, RepairTypeOK
    <3>5. Accepted'
      BY <1>18, <2>1, <3>2 DEF Crash, At, Goto, Returns, Exclusive, Written, Accepted, Alone, RepairTypeOK
    <3>6. QED
      BY <3>3, <3>4, <3>5
  <2>6. QED
    BY <2>1, <2>2, <2>3, <2>4, <2>5, OthersKept DEF Whole
<1>19. ASSUME NEW bytes \in Bytes \cup {Absent, Link}, Edit(bytes) PROVE RepairInv'
  <2>1. /\ target' = bytes /\ base' = bytes
        /\ UNCHANGED <<staged, backup, pc, proposal, result>>
    BY <1>19 DEF Edit, Writes
  <2>2. ASSUME NEW m \in Attempts PROVE Secure(m)' /\ Calm(m)'
    <3>1. CASE pc[m] \in Replacing
      <4>1. unseen'[m] = unseen[m] \cup {bytes}
        BY <1>19, <3>1 DEF Edit, Writes
      <4>2. QED
        BY <2>1, <4>1 DEF Secure, Calm
    <3>2. CASE pc[m] \notin Replacing
      <4>1. unseen'[m] = unseen[m]
        BY <1>19, <3>2 DEF Edit, Writes
      <4>2. QED
        BY <2>1, <3>2, <4>1 DEF Secure, Calm, Replacing
    <3>3. QED
      BY <3>1, <3>2
  <2>3. ASSUME Quiet' PROVE Exclusive' /\ Safe' /\ Accepted'
    <3>1. \A m \in Attempts : pc[m] \notin Replacing
      BY <1>19, <2>3 DEF Edit, Writes, Quiet
    <3>2. QED
      BY <2>1, <3>1 DEF Exclusive, Written, Safe, Accepted, Replacing
  <2>4. QED
    BY <2>2, <2>3 DEF Whole
<1>20. QED
  BY <1>0, <1>1, <1>2, <1>3, <1>4, <1>5, <1>6, <1>7, <1>8, <1>9, <1>10, <1>11, <1>12, <1>13, <1>14, <1>15, <1>16, <1>17, <1>18, <1>19 DEF RepairNext

-----------------------------------------------------------------------------
(* Repair: theorems. *)

LEMMA RepairAlways == RepairSpec => [](RepairInv /\ RepairTypeOK)
<1>1. RepairInit /\ RepairTypeOK => RepairInv
  BY DEF RepairInit, RepairInv, Secure, Calm, Early, Whole, Exclusive, Written, Safe, Accepted, Replacing
<1>2. RepairInv /\ RepairTypeOK' /\ [RepairNext]_repairVars => RepairInv'
  BY RepairInvInductive
<1>3. QED
  BY <1>1, <1>2, RepairTypeCorrect, PTL DEF RepairSpec

\* Whatever file-system calls fail and wherever processes die, the bytes last
\* edited or validated stay under the target name or in a backup, as long as
\* nobody has written the target while an apply was at work on it.
THEOREM BaseAlwaysRecoverable == RepairSpec => []BaseRecoverable
<1>1. RepairInv => BaseRecoverable
  BY DEF RepairInv, Whole, Safe, BaseRecoverable
<1>2. QED
  BY <1>1, RepairAlways, PTL

\* Whatever others write and whenever, an apply moves aside only the file the
\* maintainer reviewed or one that came under its name after the link check.
THEOREM OnlyReviewedDisplaced == RepairSpec => []DisplacesOnlyReviewed
<1>1. RepairInv => DisplacesOnlyReviewed
  BY DEF RepairInv, Secure, DisplacesOnlyReviewed
<1>2. QED
  BY <1>1, RepairAlways, PTL

\* Only IoPartialWrite and a death leave files beside the target.
THEOREM NothingLeftOver == RepairSpec => []NoLeftovers
<1>1. RepairInv => NoLeftovers
  BY DEF RepairInv, Secure, NoLeftovers
<1>2. QED
  BY <1>1, RepairAlways, PTL

\* ValidationPassed of an apply nobody disturbed leaves the replacement,
\* ValidationFailed the original.
THEOREM ResultsAlwaysExact == RepairSpec => ResultsExact
<1> DEFINE Exact(n) ==
        pc[n] # "returned" /\ pc'[n] = "returned" /\ unseen[n] = {} =>
            CASE result'[n] = "ValidationPassed" -> target' = proposal[n].content
              [] result'[n] = "ValidationFailed" -> target' = proposal[n].original
              [] OTHER -> TRUE
<1>1. ASSUME RepairInv, RepairTypeOK, [RepairNext]_repairVars, NEW n \in Attempts
      PROVE  Exact(n)
  <2> SUFFICES ASSUME pc[n] # "returned", pc'[n] = "returned", unseen[n] = {}
               PROVE  CASE result'[n] = "ValidationPassed" -> target' = proposal[n].content
                        [] result'[n] = "ValidationFailed" -> target' = proposal[n].original
                        [] OTHER -> TRUE
    OBVIOUS
  <2>1. Secure(n) /\ Calm(n)
    BY <1>1 DEF RepairInv
  <2>2. CASE Commit(n)
    BY <1>1, <2>1, <2>2 DEF Commit, At, Returns, Goto, Calm, RepairTypeOK
  <2>3. CASE RemoveInstalled(n) \/ Restore(n)
    BY <1>1, <2>1, <2>3 DEF RemoveInstalled, Restore, Writes, At, Returns, Goto, Calm, RepairTypeOK
  <2>4. CASE \/ \E content \in Replacements : Propose(n, content) \/ Repropose(n, content)
             \/ \E authorized \in BOOLEAN : Check(n, authorized)
             \/ Compare(n) \/ BeginPropose(n) \/ BeginRepropose(n)
             \/ Sweep(n)
    <3>1. result'[n] \in {"IoPartialWrite", "UnsafePath", "AuthorizationFailure",
                          "DigestMismatch", "StaleSource"}
      BY <1>1, <2>4 DEF Propose, Repropose, BeginPropose, BeginRepropose, ChecksLink, ReadFails, Check, Compare, Sweep, At, Returns, Goto, RepairTypeOK
    <3>2. QED
      BY <3>1
  <2>5. CASE \/ ApplyHeld(n) \/ Stage(n) \/ Probe(n) \/ Displace(n) \/ Install(n)
             \/ Undo(n) \/ Validate(n) \/ Crash(n)
    BY <1>1, <2>5 DEF ApplyHeld, Stage, Probe, Displace, Install, Undo, Validate, Crash,
                      Goto, RepairTypeOK
  <2>6. ASSUME NEW m \in Attempts \ {n},
               \/ \E content \in Replacements : Propose(m, content) \/ Repropose(m, content)
               \/ \E authorized \in BOOLEAN : Check(m, authorized)
               \/ Compare(m) \/ BeginPropose(m) \/ BeginRepropose(m)
               \/ ApplyHeld(m) \/ Stage(m) \/ Probe(m) \/ Displace(m) \/ Install(m)
               \/ Undo(m) \/ Sweep(m) \/ Validate(m) \/ Commit(m) \/ RemoveInstalled(m)
               \/ Restore(m) \/ Crash(m)
        PROVE  FALSE
    BY <1>1, <2>6 DEF ApplyHeld, Stage, Probe, Displace, Install, Undo, Sweep, Validate,
                      Commit, RemoveInstalled, Restore, Crash, Propose, Repropose, BeginPropose,
                      BeginRepropose, ChecksLink, ReadFails, Check, Compare,
                      Goto, Returns, RepairTypeOK
  <2>8. CASE UNCHANGED repairVars \/ \E bytes \in Bytes \cup {Absent, Link} : Edit(bytes)
    BY <2>8 DEF repairVars, Edit
  <2>7. QED
    BY <1>1, <2>2, <2>3, <2>4, <2>5, <2>6, <2>8 DEF RepairNext
<1>2. RepairInv /\ RepairTypeOK /\ [RepairNext]_repairVars => [\A n \in Attempts : Exact(n)]_repairVars
  BY <1>1
<1>3. RepairSpec => [][\A n \in Attempts : Exact(n)]_repairVars
  BY <1>2, RepairAlways, PTL DEF RepairSpec
<1>4. QED
  BY <1>3 DEF ResultsExact

-----------------------------------------------------------------------------
(* Paths. *)

LEMMA LeastElement ==
    ASSUME NEW S \in SUBSET Nat, S # {}
    PROVE  \E k \in S : \A l \in S : k <= l
<1>1. PICK n \in S : TRUE
  OBVIOUS
<1>. DEFINE A == 0 .. n
            Good == {0 .. k : k \in {k \in S : k <= n}}
<1>2. IsFiniteSet(A)
  BY FS_Interval
<1>3. IsWellFoundedOn(StrictSubsetOrdering(A), SUBSET A)
  BY <1>2, FS_StrictSubsetOrderingWellFounded, FS_FiniteSubsetsOfFinite
<1>4. Good \subseteq SUBSET A /\ Good # {}
  <2>1. n \in {m \in S : m <= n}
    OBVIOUS
  <2>3. 0 .. n \in Good
    BY <2>1, Zenon
  <2>2. \A k \in S : k <= n => 0 .. k \subseteq A
    BY <1>1
  <2>. QED
    BY <2>3, <2>2
<1>5. PICK K \in Good : \A L \in Good : <<L, K>> \notin StrictSubsetOrdering(A)
  <2>. HIDE DEF Good, A
  <2>. QED
    BY <1>3, <1>4, WFMin
<1>6. PICK k \in S : K = 0 .. k /\ k <= n
  OBVIOUS
<1>7. ASSUME NEW l \in S PROVE k <= l
  <2>. SUFFICES ASSUME l < k PROVE FALSE
    OBVIOUS
  <2>1. k \in Nat /\ l \in Nat /\ n \in Nat
    OBVIOUS
  <2>2. k <= n
    BY <1>6, Zenon
  <2>3. l <= n
    BY <2>1, <2>2
  <2>4. l \in {m \in S : m <= n}
    BY <2>3
  <2>5. 0 .. l \in Good
    BY <2>4
  <2>6. 0 .. l \subseteq 0 .. k /\ k \in 0 .. k /\ k \notin 0 .. l
    OBVIOUS
  <2>7. <<0 .. l, 0 .. k>> \notin StrictSubsetOrdering(A)
    BY <1>5, <1>6, <2>5
  <2>8. 0 .. l \subseteq A /\ 0 .. k \subseteq A
    BY <1>4, <1>5, <1>6, <2>5
  <2>. QED
    BY <2>6, <2>7, <2>8 DEF StrictSubsetOrdering
<1>. QED
  BY <1>7

Text == Seq(STRING)

LEMMA AboveShape ==
    ASSUME NEW p \in Text, NEW d \in Above(p)
    PROVE  \E i \in 1 .. Len(p) :
              /\ p[i] = "/" /\ d = SubSeq(p, 1, i - 1)
              /\ d \in Text /\ Len(d) = i - 1 /\ \A k \in 1 .. (i - 1) : d[k] = p[k]
<1>1. PICK i \in Slashes(p) : d = SubSeq(p, 1, i - 1)
  BY DEF Above
<1>2. i \in 1 .. Len(p) /\ p[i] = "/"
  BY DEF Slashes, Text
<1>3. SubSeq(p, 1, i - 1) \in Text /\ Len(SubSeq(p, 1, i - 1)) = i - 1
  BY <1>2 DEF Text
<1>4. \A k \in 1 .. (i - 1) : SubSeq(p, 1, i - 1)[k] = p[k]
  BY <1>2 DEF Text
<1>. QED
  BY <1>1, <1>2, <1>3, <1>4

\* Prefixes of one text up to a slash each are above one another.
LEMMA PrefixAbove ==
    ASSUME NEW p \in Text, NEW e \in Text,
           NEW i \in 1 .. Len(p), p[i] = "/", i <= Len(e),
           \A k \in 1 .. i : e[k] = p[k]
    PROVE  SubSeq(p, 1, i - 1) \in Above(e)
<1>1. i \in Slashes(e)
  BY DEF Slashes, Text
<1>2. SubSeq(p, 1, i - 1) = SubSeq(e, 1, i - 1)
  <2>1. SubSeq(p, 1, i - 1) = [k \in 1 .. (i - 1) |-> p[k]]
    BY DEF Text
  <2>2. SubSeq(e, 1, i - 1) = [k \in 1 .. (i - 1) |-> e[k]]
    BY DEF Text
  <2>. QED
    BY <2>1, <2>2
<1>. QED
  BY <1>1, <1>2 DEF Above

LEMMA AboveTransitive ==
    ASSUME NEW p \in Text, NEW d \in Above(p), NEW e \in Above(d)
    PROVE  e \in Above(p)
<1>1. PICK i \in 1 .. Len(p) : /\ p[i] = "/" /\ d \in Text /\ Len(d) = i - 1
                               /\ \A k \in 1 .. (i - 1) : d[k] = p[k]
  BY AboveShape
<1>2. PICK j \in 1 .. Len(d) : d[j] = "/" /\ e = SubSeq(d, 1, j - 1)
  BY <1>1, AboveShape
<1>3. j <= Len(p) /\ \A k \in 1 .. j : p[k] = d[k]
  BY <1>1, <1>2 DEF Text
<1>. QED
  BY <1>1, <1>2, <1>3, PrefixAbove

LEMMA AboveLinear ==
    ASSUME NEW p \in Text, NEW d \in Above(p), NEW e \in Above(p)
    PROVE  /\ Len(d) \in Nat /\ Len(d) < Len(p)
           /\ Len(d) < Len(e) => d \in Above(e)
           /\ Len(d) = Len(e) => d = e
<1>1. PICK i \in 1 .. Len(p) : /\ p[i] = "/" /\ d = SubSeq(p, 1, i - 1)
                               /\ d \in Text /\ Len(d) = i - 1
  BY AboveShape
<1>2. PICK j \in 1 .. Len(p) : /\ e = SubSeq(p, 1, j - 1) /\ e \in Text /\ Len(e) = j - 1
                               /\ \A k \in 1 .. (j - 1) : e[k] = p[k]
  BY AboveShape
<1>0. Len(p) \in Nat
  BY DEF Text
<1>3. Len(d) < Len(e) => d \in Above(e)
  <2>. SUFFICES ASSUME i - 1 < j - 1 PROVE d \in Above(e)
    BY <1>1, <1>2
  <2>1. i <= Len(e) /\ \A k \in 1 .. i : e[k] = p[k]
    BY <1>0, <1>1, <1>2
  <2>. QED
    BY <1>1, <1>2, <2>1, PrefixAbove
<1>4. Len(d) = Len(e) => d = e
  BY <1>1, <1>2
<1>. QED
  BY <1>0, <1>1, <1>3, <1>4

LEMMA PathText ==
    ASSUME NEW p \in Paths
    PROVE  p \in Text /\ Above(p) \subseteq Paths /\ Len(p) \in Nat /\ Len(p) > 0
<1>1. p \in Seq(STRING) /\ p # <<>> /\ Above(p) \subseteq Paths
  BY ScanAssumption
<1>. QED
  BY <1>1 DEF Text

LEMMA ParentLast ==
    ASSUME NEW p \in Paths, Above(p) # {}
    PROVE  Parent(p) \in Above(p) /\ \A e \in Above(p) : Len(e) <= Len(Parent(p))
<1>. DEFINE Rest == {Len(p) - Len(e) : e \in Above(p)}
<1>1. p \in Text /\ Len(p) \in Nat
  BY PathText
<1>2. \A e \in Above(p) : Len(e) \in Nat /\ Len(e) < Len(p)
  BY <1>1, AboveLinear
<1>3. Rest \in SUBSET Nat /\ Rest # {}
  BY <1>1, <1>2
<1>4. PICK k \in Rest : \A l \in Rest : k <= l
  <2>. HIDE DEF Rest
  <2>. QED
    BY <1>3, LeastElement
<1>5. PICK d \in Above(p) : k = Len(p) - Len(d)
  OBVIOUS
<1>6. \A e \in Above(p) : Len(e) <= Len(d)
  <2>. TAKE e \in Above(p)
  <2>1. Len(p) - Len(e) \in Rest
    OBVIOUS
  <2>2. k <= Len(p) - Len(e)
    BY <1>4, <2>1
  <2>. QED
    BY <1>1, <1>2, <1>5, <2>2
<1>. QED
  BY <1>5, <1>6 DEF Parent

\* What is above a path is its parent and what is above that.
LEMMA AboveParent ==
    ASSUME NEW p \in Paths
    PROVE  /\ Parent(p) # p
           /\ Parent(p) # <<>> => Parent(p) \in Above(p) /\ Parent(p) \in Paths
           /\ Parent(p) = <<>> => Above(p) = {}
           /\ \A a \in Above(p) : a = Parent(p) \/ a \in Above(Parent(p))
<1>1. p \in Text /\ Above(p) \subseteq Paths /\ Len(p) \in Nat /\ Len(p) > 0
  BY PathText
<1>2. \A e \in Above(p) : Len(e) \in Nat /\ Len(e) < Len(p) /\ Len(e) > 0
  BY <1>1, AboveLinear, PathText
<1>3. CASE Above(p) = {}
  <2>1. Parent(p) = <<>>
    BY <1>3 DEF Parent
  <2>. QED
    BY <1>1, <1>3, <2>1
<1>4. CASE Above(p) # {}
  <2>1. Parent(p) \in Above(p) /\ \A e \in Above(p) : Len(e) <= Len(Parent(p))
    BY <1>4, ParentLast
  <2>2. \A a \in Above(p) : a = Parent(p) \/ a \in Above(Parent(p))
    <3>. TAKE a \in Above(p)
    <3>1. Len(a) <= Len(Parent(p)) /\ Len(a) \in Nat /\ Len(Parent(p)) \in Nat
      BY <1>2, <2>1
    <3>2. Len(a) = Len(Parent(p)) \/ Len(a) < Len(Parent(p))
      BY <3>1
    <3>. QED
      BY <1>1, <2>1, <3>2, AboveLinear
  <2>. QED
    BY <1>1, <1>2, <2>1, <2>2
<1>. QED
  BY <1>3, <1>4

\* From any directory above a path, or the root, the way leads through one entry.
LEMMA NextBelow ==
    ASSUME NEW p \in Paths, NEW d \in Above(p) \cup {<<>>}
    PROVE  \E c \in {p} \cup Above(p) : Parent(c) = d
<1>. DEFINE C == {c \in {p} \cup Above(p) : Len(c) > Len(d)}
            L == {Len(c) : c \in C}
<1>1. p \in Text /\ Above(p) \subseteq Paths /\ Len(p) \in Nat /\ Len(p) > 0
  BY PathText
<1>2. \A c \in {p} \cup Above(p) : c \in Paths /\ c \in Text /\ Len(c) \in Nat /\ Len(c) > 0
  BY <1>1, PathText
<1>3. Len(d) \in Nat /\ p \in C
  BY <1>1, <1>2, AboveLinear
<1>4. L \in SUBSET Nat /\ L # {}
  BY <1>2, <1>3
<1>5. PICK k \in L : \A l \in L : k <= l
  <2>. HIDE DEF L
  <2>. QED
    BY <1>4, LeastElement
<1>6. PICK c \in C : \A b \in C : Len(c) <= Len(b)
  BY <1>5
<1>7. \A e \in Above(c) : e \in Above(p)
  BY <1>1, AboveTransitive
<1>8. c \in Paths /\ Len(c) \in Nat /\ Len(c) > Len(d)
  BY <1>2
<1>9. \A e \in Above(c) : Len(e) \in Nat /\ Len(e) < Len(c) /\ Len(e) <= Len(d)
  <2>. TAKE e \in Above(c)
  <2>1. Len(e) \in Nat /\ Len(e) < Len(c)
    BY <1>8, PathText, AboveLinear
  <2>2. e \notin C
    BY <1>6, <1>8, <2>1
  <2>. QED
    BY <1>3, <1>7, <2>1, <2>2
<1>10. CASE d = <<>>
  <2>1. Above(c) = {}
    <3>. SUFFICES ASSUME NEW e \in Above(c) PROVE FALSE
      OBVIOUS
    <3>1. Len(e) > 0
      BY <1>2, <1>7
    <3>. QED
      BY <1>9, <1>10, <3>1
  <2>. QED
    BY <1>10, <2>1 DEF Parent
<1>11. CASE d # <<>>
  <2>1. d \in Above(p)
    BY <1>11
  <2>2. d \in Above(c)
    BY <1>1, <1>8, <2>1, AboveLinear
  <2>3. Parent(c) \in Above(c) /\ \A e \in Above(c) : Len(e) <= Len(Parent(c))
    BY <1>8, <2>2, ParentLast
  <2>4. Len(Parent(c)) = Len(d)
    BY <1>3, <1>9, <2>2, <2>3
  <2>5. Parent(c) = d
    BY <1>8, <2>2, <2>3, <2>4, AboveLinear, PathText
  <2>. QED
    BY <2>5
<1>. QED
  BY <1>10, <1>11

-----------------------------------------------------------------------------
(* Sums of sizes. *)

Sized(f) == IsFiniteSet(DOMAIN f) /\ \A p \in DOMAIN f : f[p] \in Nat
Positions(f) == UNION {{p} \X (1 .. f[p]) : p \in DOMAIN f}

LEMMA TotalFinite ==
    ASSUME NEW f, Sized(f)
    PROVE  IsFiniteSet(Positions(f)) /\ Total(f) = Cardinality(Positions(f)) /\ Total(f) \in Nat
<1>. DEFINE Row(p) == {p} \X (1 .. f[p])
            rows == [p \in DOMAIN f |-> Row(p)]
<1>1. IsFiniteSet({Row(p) : p \in DOMAIN f})
  <2>. HIDE DEF Row
  <2>1. rows \in Surjection(DOMAIN f, {Row(p) : p \in DOMAIN f})
    BY DEF Surjection
  <2>. HIDE DEF rows
  <2>. QED
    BY <2>1, FS_Surjection DEF Sized
<1>2. \A p \in DOMAIN f : IsFiniteSet(Row(p))
  <2>. TAKE p \in DOMAIN f
  <2>1. IsFiniteSet({p})
    BY FS_Singleton
  <2>2. IsFiniteSet(1 .. f[p])
    BY FS_Interval DEF Sized
  <2>. QED
    BY <2>1, <2>2, FS_Product
<1>3. IsFiniteSet(UNION {Row(p) : p \in DOMAIN f})
  <2>. HIDE DEF Row
  <2>. QED
    BY <1>1, <1>2, FS_UNION
<1>4. IsFiniteSet(Positions(f))
  BY <1>3 DEF Positions
<1>. QED
  BY <1>4, FS_CardinalityType DEF Total, Positions

\* The sum grows by what one more path adds.
LEMMA TotalSplit ==
    ASSUME NEW f, NEW g, NEW p, Sized(f), p \notin DOMAIN f, g[p] \in Nat,
           DOMAIN g = DOMAIN f \cup {p}, \A q \in DOMAIN f : g[q] = f[q]
    PROVE  Sized(g) /\ Total(g) = Total(f) + g[p]
<1>. DEFINE Row == {p} \X (1 .. g[p])
<1>1. Sized(g)
  BY FS_AddElement DEF Sized
<1>2. Positions(g) = Positions(f) \cup Row
  BY DEF Positions
<1>3. Positions(f) \cap Row = {}
  BY DEF Positions
<1>4. IsFiniteSet(Row) /\ Cardinality(Row) = g[p]
  <2>1. IsFiniteSet({p}) /\ Cardinality({p}) = 1
    BY FS_Singleton
  <2>2. IsFiniteSet(1 .. g[p]) /\ Cardinality(1 .. g[p]) = g[p]
    BY FS_Interval
  <2>3. IsFiniteSet(Row) /\ Cardinality(Row) = Cardinality({p}) * Cardinality(1 .. g[p])
    BY <2>1, <2>2, FS_Product, Zenon
  <2>. QED
    BY <2>1, <2>2, <2>3
<1>5. Cardinality(Positions(g)) = Cardinality(Positions(f)) + Cardinality(Row)
  <2>. HIDE DEF Row
  <2>1. IsFiniteSet(Positions(f)) /\ Cardinality(Positions(f)) \in Nat
    BY TotalFinite
  <2>2. Cardinality(Positions(f) \cap Row) = 0
    BY <1>3, FS_EmptySet
  <2>3. Cardinality(Positions(f) \cup Row)
          = Cardinality(Positions(f)) + Cardinality(Row) - Cardinality(Positions(f) \cap Row)
    BY <1>4, <2>1, FS_Union
  <2>. QED
    BY <1>2, <1>4, <2>1, <2>2, <2>3
<1>. QED
  BY <1>1, <1>4, <1>5, TotalFinite

\* What some of the paths add up to is no more than what all do.
LEMMA TotalMonotone ==
    ASSUME NEW f, NEW g, Sized(g), DOMAIN f \subseteq DOMAIN g,
           \A q \in DOMAIN f : f[q] = g[q]
    PROVE  Sized(f) /\ Total(f) <= Total(g)
<1>1. Sized(f)
  BY FS_Subset DEF Sized
<1>2. Positions(f) \subseteq Positions(g)
  BY DEF Positions
<1>. QED
  BY <1>1, <1>2, TotalFinite, FS_Subset

LEMMA TotalEmpty == Sized(Empty) /\ Total(Empty) = 0 /\ DOMAIN Empty = {}
<1>1. DOMAIN Empty = {}
  BY DEF Empty
<1>2. Sized(Empty) /\ Positions(Empty) = {}
  BY <1>1, FS_EmptySet DEF Sized, Positions
<1>. QED
  BY <1>1, <1>2, TotalFinite, FS_EmptySet

(* Snapshots. *)

Shape(s) ==
    s = [entries |-> s.entries, observed_bytes |-> s.observed_bytes,
         diagnostics |-> s.diagnostics, inputs |-> s.inputs,
         file_count |-> s.file_count, total_bytes |-> s.total_bytes,
         exact |-> s.exact, made |-> s.made]

Counted(s) ==
    /\ Sized(s.observed_bytes)
    /\ s.file_count = Cardinality(DOMAIN s.observed_bytes)
    /\ s.total_bytes = Total(s.observed_bytes)

\* An entry follows from its source and from the inputs of one of the scans.
Faithful(s) ==
    \A p \in DOMAIN s.entries :
        /\ p \in DOMAIN s.observed_bytes
        /\ s.observed_bytes[p] = s.entries[p].source.size
        /\ \E m \in s.made : s.entries[p] = Entry(m.config, p, s.entries[p].source)

Sound(s) == Shape(s) /\ Counted(s) /\ Faithful(s)

\* All of these inputs have the digests that the snapshot keeps.
Made(s) == s.exact \in s.made /\ \A m \in s.made : Digests(m) = s.inputs

Alike(r, s) == r.inputs = s.inputs /\ r.exact = s.exact /\ r.made = s.made

Sizes(s) == [p \in DOMAIN s.entries |-> s.entries[p].source.size]

LEMMA SizesWithin ==
    ASSUME NEW s, Sound(s)
    PROVE  Sized(Sizes(s)) /\ Total(Sizes(s)) <= s.total_bytes
BY TotalMonotone DEF Sound, Counted, Faithful, Sizes

LEMMA DiagnosedSound ==
    ASSUME NEW s, NEW kind, NEW p, Sound(s)
    PROVE  /\ Sound(Diagnosed(s, kind, p)) /\ Alike(Diagnosed(s, kind, p), s)
           /\ Diagnosed(s, kind, p).entries = s.entries
           /\ Diagnosed(s, kind, p).observed_bytes = s.observed_bytes
<1>. DEFINE d == Diagnosed(s, kind, p)
<1>1. /\ Shape(d) /\ d.entries = s.entries /\ d.observed_bytes = s.observed_bytes
      /\ Alike(d, s) /\ d.file_count = s.file_count /\ d.total_bytes = s.total_bytes
  BY DEF Diagnosed, Sound, Shape, Alike
<1>2. Counted(d)
  BY <1>1 DEF Sound, Counted
<1>3. Faithful(d)
  BY <1>1 DEF Sound, Faithful, Alike
<1>. HIDE DEF d
<1>. QED
  BY <1>1, <1>2, <1>3 DEF Sound, d

LEMMA Removed ==
    ASSUME NEW s, NEW p, Shape(s), Counted(s)
    PROVE  LET r == remove_observed(s, p)
           IN /\ Shape(r) /\ Counted(r)
              /\ r.entries = s.entries /\ Alike(r, s)
              /\ DOMAIN r.observed_bytes = DOMAIN s.observed_bytes \ {p}
              /\ \A q \in DOMAIN r.observed_bytes : r.observed_bytes[q] = s.observed_bytes[q]
<1>. DEFINE r == remove_observed(s, p)
            f == s.observed_bytes
<1>1. CASE p \notin DOMAIN f
  BY <1>1 DEF remove_observed, Alike
<1>2. CASE p \in DOMAIN f
  <2>1. /\ Shape(r) /\ r.entries = s.entries /\ Alike(r, s)
        /\ r.observed_bytes = Without(f, p)
        /\ r.file_count = s.file_count - 1 /\ r.total_bytes = s.total_bytes - f[p]
    BY <1>2 DEF remove_observed, Shape, Alike
  <2>2. DOMAIN Without(f, p) = DOMAIN f \ {p} /\ \A q \in DOMAIN Without(f, p) : Without(f, p)[q] = f[q]
    BY DEF Without
  <2>3. Sized(Without(f, p))
    BY <2>2, FS_RemoveElement DEF Counted, Sized
  <2>4. Total(f) = Total(Without(f, p)) + f[p] /\ Total(Without(f, p)) \in Nat /\ f[p] \in Nat
    BY <1>2, <2>2, <2>3, TotalSplit, TotalFinite DEF Counted, Sized
  <2>5. Cardinality(DOMAIN Without(f, p)) = Cardinality(DOMAIN f) - 1
    BY <1>2, <2>2, FS_RemoveElement DEF Counted, Sized
  <2>6. Counted(r)
    BY <2>1, <2>3, <2>4, <2>5 DEF Counted
  <2>. QED
    BY <2>1, <2>2, <2>6
<1>. QED
  BY <1>1, <1>2

LEMMA Replaces ==
    ASSUME NEW s, NEW p, NEW bytes \in Nat, Shape(s), Counted(s)
    PROVE  LET r == replace_observed(s, p, bytes)
           IN /\ Shape(r) /\ Counted(r)
              /\ r.entries = s.entries /\ Alike(r, s)
              /\ DOMAIN r.observed_bytes = DOMAIN s.observed_bytes \cup {p}
              /\ r.observed_bytes[p] = bytes
              /\ \A q \in DOMAIN s.observed_bytes \ {p} : r.observed_bytes[q] = s.observed_bytes[q]
<1>. DEFINE r == replace_observed(s, p, bytes)
            o == remove_observed(s, p)
            f == o.observed_bytes
<1>1. /\ Shape(o) /\ Counted(o) /\ o.entries = s.entries /\ Alike(o, s)
      /\ DOMAIN f = DOMAIN s.observed_bytes \ {p}
      /\ \A q \in DOMAIN f : f[q] = s.observed_bytes[q]
  BY Removed
<1>2. r = [o EXCEPT !.observed_bytes = With(@, p, bytes), !.file_count = @ + 1,
                    !.total_bytes = @ + bytes]
  BY DEF replace_observed
<1>. HIDE DEF o, r
<1>3. /\ Shape(r) /\ r.entries = s.entries /\ Alike(r, s)
      /\ r.observed_bytes = With(f, p, bytes)
      /\ r.file_count = o.file_count + 1 /\ r.total_bytes = o.total_bytes + bytes
  BY <1>1, <1>2 DEF Shape, Alike
<1>4. /\ DOMAIN With(f, p, bytes) = DOMAIN f \cup {p}
      /\ With(f, p, bytes)[p] = bytes
      /\ \A q \in DOMAIN f : With(f, p, bytes)[q] = f[q]
  BY <1>1 DEF With
<1>5. Sized(With(f, p, bytes)) /\ Total(With(f, p, bytes)) = Total(f) + bytes
  BY <1>1, <1>4, TotalSplit DEF Counted
<1>6. Cardinality(DOMAIN f \cup {p}) = Cardinality(DOMAIN f) + 1
  BY <1>1, FS_AddElement DEF Counted, Sized
<1>7. Counted(r)
  BY <1>1, <1>3, <1>4, <1>5, <1>6 DEF Counted
<1>8. DOMAIN r.observed_bytes = DOMAIN s.observed_bytes \cup {p}
  BY <1>1, <1>3, <1>4
<1>. QED
  BY <1>1, <1>3, <1>4, <1>7, <1>8 DEF r

\* A path that is no entry is measured: the snapshot stays sound.
LEMMA MeasureSound ==
    ASSUME NEW s, NEW p, NEW bytes \in Nat, Sound(s), p \notin DOMAIN s.entries
    PROVE  LET r == replace_observed(s, p, bytes)
           IN /\ Sound(r) /\ r.entries = s.entries /\ Alike(r, s)
              /\ DOMAIN r.observed_bytes = DOMAIN s.observed_bytes \cup {p}
              /\ r.observed_bytes[p] = bytes
<1>. DEFINE r == replace_observed(s, p, bytes)
<1>1. /\ Shape(r) /\ Counted(r) /\ r.entries = s.entries /\ Alike(r, s)
      /\ DOMAIN r.observed_bytes = DOMAIN s.observed_bytes \cup {p}
      /\ r.observed_bytes[p] = bytes
      /\ \A q \in DOMAIN s.observed_bytes \ {p} : r.observed_bytes[q] = s.observed_bytes[q]
  BY Replaces DEF Sound
<1>. HIDE DEF r
<1>2. Faithful(r)
  BY <1>1 DEF Sound, Faithful, Alike
<1>. QED
  BY <1>1, <1>2 DEF Sound, r

LEMMA InsertSound ==
    ASSUME NEW s, NEW p, NEW source, Sound(s), NEW m \in s.made, m.config = config,
           p \notin DOMAIN s.entries, p \in DOMAIN s.observed_bytes,
           s.observed_bytes[p] = source.size
    PROVE  LET r == Insert(s, p, source)
           IN /\ Sound(r) /\ Alike(r, s) /\ r.observed_bytes = s.observed_bytes
              /\ r.entries = IF source.utf8 THEN With(s.entries, p, Entry(config, p, source))
                             ELSE s.entries
<1>. DEFINE r == Insert(s, p, source)
<1>1. CASE ~source.utf8
  BY <1>1, DiagnosedSound DEF Insert
<1>2. CASE source.utf8
  <2>1. /\ Shape(r) /\ Alike(r, s) /\ r.observed_bytes = s.observed_bytes
        /\ r.entries = With(s.entries, p, Entry(config, p, source))
        /\ r.file_count = s.file_count /\ r.total_bytes = s.total_bytes
    BY <1>2 DEF Insert, Sound, Shape, Alike
  <2>. HIDE DEF r
  <2>2. Counted(r)
    BY <2>1 DEF Sound, Counted
  <2>3. DOMAIN r.entries = DOMAIN s.entries \cup {p} /\ r.made = s.made
    BY <2>1 DEF With, Alike
  <2>4. r.entries[p] = Entry(m.config, p, source) /\ r.entries[p].source = source
    BY <2>1 DEF With, Entry
  <2>5. \A q \in DOMAIN s.entries : r.entries[q] = s.entries[q]
    BY <2>1 DEF With
  <2>6. Faithful(r)
    <3>. SUFFICES ASSUME NEW q \in DOMAIN r.entries
         PROVE  /\ q \in DOMAIN r.observed_bytes
                /\ r.observed_bytes[q] = r.entries[q].source.size
                /\ \E n \in r.made : r.entries[q] = Entry(n.config, q, r.entries[q].source)
      BY DEF Faithful
    <3>1. CASE q = p
      BY <2>1, <2>3, <2>4, <3>1
    <3>2. CASE q \in DOMAIN s.entries
      BY <2>1, <2>3, <2>5, <3>2 DEF Sound, Faithful
    <3>. QED
      BY <2>3, <3>1, <3>2
  <2>. QED
    BY <1>2, <2>1, <2>2, <2>6 DEF Sound, r
<1>. QED
  BY <1>1, <1>2

LEMMA DroppedSound ==
    ASSUME NEW p, Sound(job.part)
    PROVE  /\ Sound(Dropped(p)) /\ Alike(Dropped(p), job.part)
           /\ Dropped(p).entries = Without(job.part.entries, p)
           /\ DOMAIN Dropped(p).entries = DOMAIN job.part.entries \ {p}
           /\ \A q \in DOMAIN Dropped(p).entries : Dropped(p).entries[q] = job.part.entries[q]
<1>. DEFINE s == [job.part EXCEPT !.entries = Without(@, p)]
            r == remove_observed(s, p)
<1>1. /\ Shape(s) /\ Alike(s, job.part) /\ s.observed_bytes = job.part.observed_bytes
      /\ s.entries = Without(job.part.entries, p)
      /\ s.file_count = job.part.file_count /\ s.total_bytes = job.part.total_bytes
  BY DEF Sound, Shape, Alike
<1>. HIDE DEF s
<1>2. Counted(s)
  BY <1>1 DEF Sound, Counted
<1>3. /\ Shape(r) /\ Counted(r) /\ r.entries = s.entries /\ Alike(r, s)
      /\ DOMAIN r.observed_bytes = DOMAIN s.observed_bytes \ {p}
      /\ \A q \in DOMAIN r.observed_bytes : r.observed_bytes[q] = s.observed_bytes[q]
  BY <1>1, <1>2, Removed
<1>. HIDE DEF r
<1>4. /\ DOMAIN r.entries = DOMAIN job.part.entries \ {p}
      /\ \A q \in DOMAIN r.entries : r.entries[q] = job.part.entries[q]
  BY <1>1, <1>3 DEF Without
<1>5. Faithful(r)
  BY <1>1, <1>3, <1>4 DEF Sound, Faithful, Alike
<1>6. r = Dropped(p)
  BY DEF Dropped, r, s
<1>. QED
  BY <1>1, <1>3, <1>4, <1>5, <1>6 DEF Sound, Alike

-----------------------------------------------------------------------------
(* What holds of a scan under way.                                         *)

JobShape ==
    job = [op |-> job.op, stage |-> job.stage, evidence |-> job.evidence,
           touched |-> job.touched, rules |-> job.rules, part |-> job.part,
           todo |-> job.todo, left |-> job.left, file |-> job.file,
           files |-> job.files, bytes |-> job.bytes, paths |-> job.paths]

\* Nothing is walked twice: what is still to come was not read, and nothing below it
\* was read or is to come by another way.
Apart(item, todo, observed) ==
    /\ item.path \in Paths \cup {<<>>} /\ item.path \notin observed
    /\ item.path = <<>> => item.kind = "dir" /\ todo = {item} /\ observed = {}
    /\ \A q \in observed : item.path \notin Above(q)
    /\ \A other \in todo :
          /\ item.path \notin Above(other.path)
          /\ other.path = item.path => other = item

Walking ==
    LET observed == DOMAIN job.part.observed_bytes
    IN observed \subseteq Paths /\ \A item \in job.todo : Apart(item, job.todo, observed)

\* The limits on what is read and kept are checked as a walk comes to it.
Metered ==
    /\ job.bytes \in Nat /\ job.bytes <= config.max_total_bytes
    /\ Total(Sizes(job.part)) <= job.bytes
    /\ job.files \in Nat /\ job.files <= config.max_files
    /\ Cardinality(DOMAIN job.part.observed_bytes) <= job.files

\* The file that is being read was measured and is not yet an entry.
Filed ==
    job.file # NoFile =>
        /\ job.file = [step |-> job.file.step, path |-> job.file.path,
                       to |-> job.file.to, source |-> job.file.source]
        /\ job.file.step \in {"read", "keep"}
        /\ job.file.path \in DOMAIN job.part.observed_bytes \ DOMAIN job.part.entries
        /\ job.file.step = "keep" =>
              /\ job.file.source.size \in Nat
              /\ job.part.observed_bytes[job.file.path] = job.file.source.size
              /\ job.stage = "walk" => job.file.source.size + job.bytes <= config.max_total_bytes

Within(s) ==
    /\ Total(Sizes(s)) <= s.exact.config.max_total_bytes
    /\ s.file_count <= s.exact.config.max_files

Surroundings ==
    /\ \A p \in Paths : tree[p].source.size \in Nat
    /\ config.max_total_bytes \in Nat /\ config.max_files \in Nat
    /\ Sound(known)
    /\ known # NoSnapshot => Made(known) /\ Within(known)

Working ==
    /\ JobShape
    /\ job.stage \notin {"walk", "apply"} => job.bytes = 0 /\ job.files = 0 /\ job.file = NoFile
    /\ job.stage \in {"walk", "apply"} =>
          Sound(job.part) /\ Made(job.part) /\ job.part.exact.config = config /\ Filed
    /\ job.stage = "walk" => Walking /\ Metered

ScanInv == Surroundings /\ Working

LEMMA SizeFound ==
    ASSUME Surroundings, NEW p, NEW final
    PROVE  NodeAt(tree, p, final).source.size \in Nat
<1>1. Elsewhere.size \in Nat
  BY ScanAssumption
<1>. DEFINE q == Leads(tree, p, final)
<1>2. \/ NodeAt(tree, p, final) = Node("outside", Elsewhere)
      \/ NodeAt(tree, p, final) = Node("error", NoSource)
      \/ NodeAt(tree, p, final) = None
      \/ q \in Paths /\ NodeAt(tree, p, final) = tree[q]
  BY DEF NodeAt
<1>. HIDE DEF q
<1>. QED
  BY <1>1, <1>2 DEF Surroundings, None, Node, NoSource

LEMMA IdleWorks ==
    JobShape /\ job.stage \notin {"walk", "apply"} /\ job.bytes = 0 /\ job.files = 0 /\ job.file = NoFile
      => Working
BY DEF Working

LEMMA EmptySound ==
    ASSUME NEW file
    PROVE  /\ Sound(NoSnapshot) /\ Sound(Begun(file)) /\ Made(Begun(file))
           /\ Begun(file).exact = ExactInputs(file) /\ Begun(file).inputs = inputs(file)
           /\ Begun(file).made = {ExactInputs(file)}
           /\ Begun(file).entries = Empty /\ Begun(file).observed_bytes = Empty
<1>. DEFINE s == Begun(file)
<1>0. s = [entries |-> Empty, observed_bytes |-> Empty, diagnostics |-> {},
           inputs |-> inputs(file), file_count |-> 0, total_bytes |-> 0,
           exact |-> ExactInputs(file), made |-> {ExactInputs(file)}]
  <2>. HIDE DEF s
  <2>1. s = [NoSnapshot EXCEPT !.inputs = inputs(file), !.exact = ExactInputs(file),
                               !.made = {ExactInputs(file)}]
    BY DEF s, Begun
  <2>. QED
    BY <2>1, Zenon DEF NoSnapshot
<1>. HIDE DEF s
<1>1. /\ Shape(s) /\ s.entries = Empty /\ s.observed_bytes = Empty /\ s.inputs = inputs(file)
      /\ s.exact = ExactInputs(file) /\ s.made = {ExactInputs(file)}
      /\ s.file_count = 0 /\ s.total_bytes = 0
  BY <1>0 DEF Shape
<1>2. /\ Shape(NoSnapshot) /\ NoSnapshot.entries = Empty /\ NoSnapshot.observed_bytes = Empty
      /\ NoSnapshot.file_count = 0 /\ NoSnapshot.total_bytes = 0
  BY DEF Shape, NoSnapshot
<1>3. Cardinality(DOMAIN Empty) = 0 /\ Sized(Empty) /\ Total(Empty) = 0 /\ DOMAIN Empty = {}
  BY TotalEmpty, FS_EmptySet
<1>4. Sound(s)
  BY <1>1, <1>3 DEF Sound, Counted, Faithful
<1>5. Sound(NoSnapshot)
  BY <1>2, <1>3 DEF Sound, Counted, Faithful
<1>6. Made(s)
  BY <1>1 DEF Made, inputs
<1>. QED
  BY <1>1, <1>4, <1>5, <1>6 DEF s

LEMMA InitInv == Init => ScanInv
<1>. SUFFICES ASSUME Init PROVE ScanInv
  OBVIOUS
<1>1. \A p \in Paths : tree[p].source.size \in Nat
  BY ScanAssumption DEF Init
<1>2. config.max_total_bytes \in Nat /\ config.max_files \in Nat
  BY ScanAssumption DEF Init
<1>3. Sound(known) /\ known = NoSnapshot
  BY EmptySound DEF Init
<1>4. JobShape /\ job.stage = "idle" /\ job.bytes = 0 /\ job.files = 0 /\ job.file = NoFile
  BY DEF Init, Idle, JobShape
<1>. QED
  BY <1>1, <1>2, <1>3, <1>4, IdleWorks DEF ScanInv, Surroundings

LEMMA SurroundingsStay ==
    ASSUME ScanInv, UNCHANGED <<tree, config, known>>
    PROVE  Surroundings'
BY DEF ScanInv, Surroundings

LEMMA FailInv ==
    ASSUME ScanInv, NEW failure, Fail(failure)
    PROVE  ScanInv'
<1>1. (JobShape /\ job.stage = "idle" /\ job.bytes = 0 /\ job.files = 0 /\ job.file = NoFile)'
  BY DEF Fail, Idle, JobShape
<1>2. Working'
  BY <1>1 DEF Working
<1>3. UNCHANGED <<tree, config, known>>
  BY DEF Fail, repository
<1>. QED
  BY <1>2, <1>3, SurroundingsStay DEF ScanInv

\* The digests of no scan.
LEMMA NoDigests == ASSUME NEW file, inputs(file) = known.inputs PROVE known # NoSnapshot
<1>1. "parser" \in DOMAIN inputs(file)
  BY DEF inputs, Digests, Digested
<1>2. "parser" \notin DOMAIN NoSnapshot.inputs
  BY DEF NoSnapshot, NoInputs
<1>. QED
  BY <1>1, <1>2

\* The snapshot that an incremental scan starts from.
Resumed ==
    [known EXCEPT !.diagnostics = {d \in @ : d.path \notin job.evidence},
                  !.exact = ExactInputs(ignoreFile),
                  !.made = @ \cup {ExactInputs(ignoreFile)}]

LEMMA ResumedSound ==
    ASSUME ScanInv, inputs(ignoreFile) = known.inputs
    PROVE  /\ Sound(Resumed) /\ Made(Resumed)
           /\ Resumed.entries = known.entries /\ Resumed.inputs = known.inputs
           /\ Resumed.exact = ExactInputs(ignoreFile)
           /\ Resumed.made = known.made \cup {ExactInputs(ignoreFile)}
<1>. DEFINE others == {d \in known.diagnostics : d.path \notin job.evidence}
            part == [known EXCEPT !.diagnostics = others, !.exact = ExactInputs(ignoreFile),
                                  !.made = @ \cup {ExactInputs(ignoreFile)}]
<1>1. Shape(known) /\ Counted(known) /\ Faithful(known) /\ Made(known)
  BY NoDigests DEF ScanInv, Surroundings, Sound
<1>2. /\ Shape(part) /\ part.entries = known.entries
      /\ part.observed_bytes = known.observed_bytes /\ part.inputs = known.inputs
      /\ part.file_count = known.file_count /\ part.total_bytes = known.total_bytes
      /\ part.exact = ExactInputs(ignoreFile)
      /\ part.made = known.made \cup {ExactInputs(ignoreFile)}
  <2>. HIDE DEF others
  <2>. DEFINE here == ExactInputs(ignoreFile)
              makers == known.made \cup {here}
  <2>1. part = [known EXCEPT !.diagnostics = others, !.exact = here, !.made = makers]
    OBVIOUS
  <2>. HIDE DEF here, makers, part
  <2>2. /\ Shape(part) /\ part.entries = known.entries
        /\ part.observed_bytes = known.observed_bytes /\ part.inputs = known.inputs
        /\ part.file_count = known.file_count /\ part.total_bytes = known.total_bytes
        /\ part.exact = here /\ part.made = makers
    BY <1>1, <2>1 DEF Shape
  <2>. QED
    BY <2>2 DEF here, makers
<1>3. part = Resumed
  BY DEF Resumed
<1>. HIDE DEF part
<1>4. Counted(part)
  BY <1>1, <1>2 DEF Counted
<1>5. Faithful(part)
  BY <1>1, <1>2 DEF Faithful
<1>6. Made(part)
  BY <1>1, <1>2 DEF Made, inputs
<1>. QED
  BY <1>2, <1>3, <1>4, <1>5, <1>6 DEF Sound

\* The steps that begin a scan, and those that read the inputs.
LEMMA BeginInv ==
    ASSUME ScanInv, BeginScan \/ (\E extra \in Extra : BeginChanged(extra)) \/ Collect
    PROVE  ScanInv'
<1>1. UNCHANGED <<tree, config, known>>
  BY DEF BeginScan, BeginChanged, Collect, repository
<1>2. Surroundings'
  BY <1>1, SurroundingsStay
<1>3. ASSUME BeginScan PROVE Working'
  BY <1>3 DEF BeginScan, Idle, Working, JobShape
<1>4. ASSUME NEW extra \in Extra, BeginChanged(extra) PROVE Working'
  BY <1>4 DEF BeginChanged, Idle, Working, JobShape
<1>6. ASSUME Collect PROVE Working'
  <2>. DEFINE part == Begun(ignoreFile)
              root == [path |-> <<>>, kind |-> "dir"]
  <2>0. job.stage = "collect" /\ JobShape /\ job.bytes = 0 /\ job.files = 0 /\ job.file = NoFile
    BY <1>6 DEF Collect, ScanInv, Working
  <2>1. /\ JobShape' /\ job'.stage = "walk" /\ job'.part = part /\ job'.todo = {root}
        /\ job'.bytes = 0 /\ job'.files = 0 /\ job'.file = NoFile
    BY <1>6, <2>0 DEF Collect, JobShape
  <2>9. ExactInputs(ignoreFile).config = config
    BY DEF ExactInputs
  <2>2. /\ Sound(part) /\ Made(part) /\ part.exact.config = config
        /\ part.entries = Empty /\ part.observed_bytes = Empty
    BY <2>9, EmptySound
  <2>. HIDE DEF part
  <2>3. Above(<<>>) = {}
    BY DEF Above, Slashes
  <2>4. Walking'
    BY <2>1, <2>2, <2>3, TotalEmpty DEF Walking, Apart
  <2>6. Total(Sizes(part)) = 0
    <3>1. Sized(Sizes(part)) /\ Total(Sizes(part)) <= Total(Empty)
      BY <2>2, TotalEmpty, TotalMonotone DEF Sizes
    <3>. QED
      BY <3>1, TotalEmpty, TotalFinite
  <2>7. Cardinality(DOMAIN part.observed_bytes) = 0
    BY <2>2, TotalEmpty, FS_EmptySet
  <2>8. Metered'
    BY <1>1, <2>1, <2>6, <2>7 DEF Metered, ScanInv, Surroundings
  <2>. QED
    BY <1>1, <2>1, <2>2, <2>4, <2>8 DEF Working, Filed
<1>. QED
  BY <1>2, <1>3, <1>4, <1>6 DEF ScanInv

LEMMA CompareInv ==
    ASSUME ScanInv, CompareInputs
    PROVE  ScanInv'
<1>1. UNCHANGED <<tree, config, known>> /\ job.stage = "inputs"
  BY DEF CompareInputs, repository
<1>2. Surroundings'
  BY <1>1, SurroundingsStay
<1>3. JobShape /\ job.bytes = 0 /\ job.files = 0 /\ job.file = NoFile
  BY <1>1 DEF ScanInv, Working
<1>4. CASE inputs(ignoreFile) # known.inputs
  <2>1. job' = [job EXCEPT !.stage = "collect"]
    BY <1>4 DEF CompareInputs
  <2>. QED
    BY <1>2, <1>3, <2>1 DEF Working, JobShape, ScanInv
<1>5. CASE inputs(ignoreFile) = known.inputs
  <2>1. job' = [job EXCEPT !.stage = "apply", !.rules = from_okfignore(ignoreFile),
                           !.left = job.evidence, !.part = Resumed]
    BY <1>5 DEF CompareInputs, Resumed
  <2>2. /\ JobShape' /\ job'.stage = "apply" /\ job'.part = Resumed
        /\ job'.file = NoFile
    BY <1>3, <2>1 DEF JobShape
  <2>3. Sound(Resumed) /\ Made(Resumed) /\ Resumed.exact.config = config
    BY <1>5, ResumedSound DEF ExactInputs
  <2>4. Working'
    BY <1>1, <2>2, <2>3 DEF Working, Filed
  <2>. QED
    BY <1>2, <2>4 DEF ScanInv
<1>. QED
  BY <1>4, <1>5

LEMMA WalkDirectoryInv ==
    ASSUME ScanInv, NEW item \in job.todo, WalkDirectory(item)
    PROVE  ScanInv'
<1>. DEFINE d == item.path
            now == IF d = <<>> THEN "dir" ELSE Lstat(d).kind
            fresh == IF now = "dir" THEN Kept(d) ELSE {}
            observed == DOMAIN job.part.observed_bytes
<1>0. CASE \E failure : Fail(failure)
  BY <1>0, FailInv
<1>. SUFFICES ASSUME ~ \E failure : Fail(failure) PROVE ScanInv'
  BY <1>0
<1>1. /\ UNCHANGED <<tree, config, known>>
      /\ job' = [job EXCEPT
            !.paths = IF d = <<>> THEN 0 ELSE @ + 1,
            !.todo = (@ \ {item}) \cup fresh,
            !.part = CASE now = "dir" -> @
                       [] now = "link" -> Diagnosed(@, "Symlink", d)
                       [] OTHER -> Diagnosed(@, "Unreadable", d)]
  BY DEF WalkDirectory, repository
<1>2. /\ job.stage = "walk" /\ Sound(job.part) /\ Made(job.part) /\ job.part.exact.config = config
      /\ Walking /\ Metered /\ JobShape /\ job.file = NoFile
  BY DEF WalkDirectory, ScanInv, Working
<1>3. /\ JobShape' /\ job'.stage = "walk" /\ job'.bytes = job.bytes /\ job'.files = job.files
      /\ job'.file = NoFile
      /\ job'.todo = (job.todo \ {item}) \cup fresh
      /\ job'.part \in {job.part, Diagnosed(job.part, "Symlink", d), Diagnosed(job.part, "Unreadable", d)}
  <2>. HIDE DEF fresh, now
  <2>. QED
    BY <1>1, <1>2 DEF JobShape
<1>4. /\ Sound(job'.part) /\ Alike(job'.part, job.part)
      /\ job'.part.entries = job.part.entries
      /\ job'.part.observed_bytes = job.part.observed_bytes
  BY <1>2, <1>3, DiagnosedSound DEF Alike
<1>5. \A c \in fresh : c.path \in Paths /\ Parent(c.path) = d
  BY DEF Kept, Listing
<1>6. \A c, b \in fresh : c.path = b.path => c = b
  BY DEF Kept, Listing
<1>. HIDE DEF fresh, now
<1>7. observed \subseteq Paths /\ \A o \in job.todo : o.path \in Paths \cup {<<>>}
  BY <1>2 DEF Walking, Apart
<1>8. ASSUME NEW c \in fresh
      PROVE  /\ c.path \in Paths /\ c.path # <<>> /\ c.path \notin observed
             /\ \A q \in observed : c.path \notin Above(q)
             /\ \A b \in fresh : c.path \notin Above(b.path)
             /\ \A o \in job.todo \ {item} : /\ o.path # c.path
                                           /\ c.path \notin Above(o.path)
                                           /\ o.path \notin Above(c.path)
  <2>1. c.path \in Paths /\ c.path # <<>> /\ Parent(c.path) = d /\ c.path \in Text
    BY <1>5, PathText
  <2>2. /\ d # c.path
        /\ d # <<>> => d \in Above(c.path)
        /\ d = <<>> => Above(c.path) = {}
        /\ \A a \in Above(c.path) : a = d \/ a \in Above(d)
    BY <2>1, AboveParent
  <2>3. c.path \notin Above(d)
    <3>. SUFFICES ASSUME c.path \in Above(d) PROVE FALSE
      OBVIOUS
    <3>1. d # <<>>
      BY DEF Above, Slashes
    <3>2. d \in Above(c.path)
      BY <2>2, <3>1
    <3>3. c.path \in Above(c.path)
      BY <2>1, <3>2, AboveTransitive
    <3>. QED
      BY <2>1, <3>3, AboveLinear
  <2>4. \A b \in fresh : c.path \notin Above(b.path)
    <3>. TAKE b \in fresh
    <3>1. b.path \in Paths /\ Parent(b.path) = d
      BY <1>5
    <3>2. \A a \in Above(b.path) : a = d \/ a \in Above(d)
      BY <3>1, AboveParent
    <3>. QED
      BY <2>2, <2>3, <3>2
  <2>5. CASE d = <<>>
    <3>1. job.todo = {item} /\ observed = {}
      BY <1>2, <2>5 DEF Walking, Apart
    <3>. QED
      BY <2>1, <2>4, <3>1
  <2>6. CASE d # <<>>
    <3>1. d \in Above(c.path)
      BY <2>2, <2>6
    <3>2. \A q \in observed : d \notin Above(q)
      BY <1>2 DEF Walking, Apart
    <3>3. \A o \in job.todo : d \notin Above(o.path) /\ (o.path = d => o = item)
      BY <1>2 DEF Walking, Apart
    <3>4. \A o \in job.todo : o.path \notin Above(d)
      BY <1>2 DEF Walking, Apart
    <3>5. \A q \in observed : c.path # q /\ c.path \notin Above(q)
      <4>. TAKE q \in observed
      <4>1. q \in Text
        BY <1>7, PathText
      <4>. QED
        BY <3>1, <3>2, <4>1, AboveTransitive
    <3>6. \A o \in job.todo \ {item} : o.path # c.path /\ c.path \notin Above(o.path)
      <4>. TAKE o \in job.todo \ {item}
      <4>1. o.path \in Text
        <5>1. <<>> \in Text
          BY DEF Text
        <5>2. o.path \in Paths \cup {<<>>}
          BY <1>7
        <5>. QED
          BY <5>1, <5>2, PathText
      <4>. QED
        BY <3>1, <3>3, <4>1, AboveTransitive
    <3>7. \A o \in job.todo \ {item} : o.path \notin Above(c.path)
      BY <2>2, <3>3, <3>4
    <3>. QED
      BY <2>1, <2>4, <3>5, <3>6, <3>7
  <2>. QED
    BY <2>5, <2>6
<1>9. Walking'
  <2>0. DOMAIN job'.part.observed_bytes = observed
    BY <1>4
  <2>. SUFFICES ASSUME NEW o \in job'.todo PROVE Apart(o, job'.todo, observed)
    BY <1>7, <2>0 DEF Walking
  <2>1. CASE o \in fresh
    <3>1. \A other \in job'.todo : other \in fresh \/ other \in job.todo \ {item}
      BY <1>3
    <3>. QED
      BY <1>6, <1>8, <2>1, <3>1 DEF Apart
  <2>2. CASE o \in job.todo \ {item}
    <3>1. o.path # <<>> /\ o.path \in Paths
      BY <1>2, <2>2 DEF Walking, Apart
    <3>2. /\ o.path \notin observed /\ \A q \in observed : o.path \notin Above(q)
          /\ \A other \in job.todo : /\ o.path \notin Above(other.path)
                                     /\ other.path = o.path => other = o
      BY <1>2, <2>2 DEF Walking, Apart
    <3>. QED
      BY <1>3, <1>8, <2>2, <3>1, <3>2 DEF Apart
  <2>. QED
    BY <1>3, <2>1, <2>2
<1>10. Metered'
  BY <1>1, <1>2, <1>3, <1>4 DEF Metered, Sizes
<1>11. Made(job'.part) /\ job'.part.exact.config = config
  BY <1>2, <1>4 DEF Made, Alike
<1>12. Working'
  BY <1>1, <1>2, <1>3, <1>4, <1>9, <1>10, <1>11 DEF Working, Filed
<1>13. Surroundings'
  BY <1>1, SurroundingsStay
<1>. QED
  BY <1>12, <1>13 DEF ScanInv

\* What the steps of one scan leave alone.
Continues ==
    /\ JobShape' /\ job'.op = job.op /\ job'.stage = job.stage /\ job'.evidence = job.evidence
    /\ job'.touched = job.touched /\ job'.rules = job.rules
    /\ UNCHANGED <<tree, ignoreFile, config, known, touched>>

\* An entry that is not a directory leaves the walk; a file is opened and measured, unless
\* it became a link or went.
LEMMA WalkEntryEffect ==
    ASSUME ScanInv, NEW item \in job.todo, WalkEntry(item), ~ \E failure : Fail(failure)
    PROVE  LET p == item.path
               opens == IsFile(item) /\ Lstat(p).kind \in {"file", "locked", "dir", "other"}
           IN /\ Continues /\ job.stage = "walk" /\ job.file = NoFile
              /\ item.kind # "dir" /\ p \in Paths
              /\ p \notin DOMAIN job.part.observed_bytes /\ p \notin DOMAIN job.part.entries
              /\ job'.todo = job.todo \ {item} /\ job'.left = job.left /\ job'.bytes = job.bytes
              /\ job'.files = (IF IsFile(item) THEN job.files + 1 ELSE job.files)
              /\ IsFile(item) => job.files + 1 <= config.max_files /\ Lstat(p).kind # "outside"
              /\ Sound(job'.part) /\ Alike(job'.part, job.part)
              /\ job'.part.entries = job.part.entries
              /\ opens => /\ job'.file = Opened(p)
                          /\ DOMAIN job'.part.observed_bytes = DOMAIN job.part.observed_bytes \cup {p}
              /\ ~opens => /\ job'.file = NoFile
                           /\ job'.part.observed_bytes = job.part.observed_bytes
<1>. DEFINE p == item.path
            now == Lstat(p)
            file == IsFile(item)
            opens == file /\ now.kind \in {"file", "locked", "dir", "other"}
            counted == [job EXCEPT !.todo = @ \ {item}, !.paths = @ + 1,
                                   !.files = IF file THEN @ + 1 ELSE @]
            kind == IF item.kind = "link" \/ (file /\ now.kind = "link") THEN "Symlink"
                    ELSE IF file THEN "Unreadable" ELSE "UnsupportedInput"
            read == replace_observed(job.part, p, now.source.size)
<1>1. /\ UNCHANGED <<tree, ignoreFile, config, known, touched>>
      /\ job.stage = "walk" /\ job.file = NoFile /\ item.kind # "dir"
      /\ file => ~(job.files + 1 > config.max_files) /\ now.kind # "outside"
      /\ job' = IF opens THEN [counted EXCEPT !.part = read, !.file = Opened(p)]
                ELSE [counted EXCEPT !.part = Diagnosed(@, kind, p)]
  BY DEF WalkEntry, repository
<1>2. JobShape /\ Sound(job.part) /\ Walking /\ Metered
  BY <1>1 DEF ScanInv, Working
<1>3. p \in Paths /\ p \notin DOMAIN job.part.observed_bytes
  BY <1>1, <1>2 DEF Walking, Apart
<1>4. p \notin DOMAIN job.part.entries
  BY <1>2, <1>3 DEF Sound, Faithful
<1>5. now.source.size \in Nat
  BY SizeFound DEF ScanInv, Lstat
<1>6. /\ Sound(read) /\ read.entries = job.part.entries /\ Alike(read, job.part)
      /\ DOMAIN read.observed_bytes = DOMAIN job.part.observed_bytes \cup {p}
  BY <1>2, <1>4, <1>5, MeasureSound
<1>7. /\ Sound(Diagnosed(job.part, kind, p)) /\ Alike(Diagnosed(job.part, kind, p), job.part)
      /\ Diagnosed(job.part, kind, p).entries = job.part.entries
      /\ Diagnosed(job.part, kind, p).observed_bytes = job.part.observed_bytes
  BY <1>2, DiagnosedSound
<1>8. job.files + 1 <= config.max_files \/ ~file
  BY <1>1, <1>2 DEF Metered, ScanInv, Surroundings
<1>9. job' = [job EXCEPT !.part = IF opens THEN read ELSE Diagnosed(job.part, kind, p),
                         !.file = IF opens THEN Opened(p) ELSE NoFile,
                         !.todo = @ \ {item}, !.paths = @ + 1,
                         !.files = IF file THEN @ + 1 ELSE @]
  <2>. HIDE DEF read, now, kind
  <2>1. CASE opens
    BY <1>1, <1>2, <2>1 DEF JobShape
  <2>2. CASE ~opens
    BY <1>1, <1>2, <2>2 DEF JobShape
  <2>. QED
    BY <2>1, <2>2
<1>10. /\ JobShape' /\ job'.op = job.op /\ job'.stage = job.stage /\ job'.evidence = job.evidence
       /\ job'.touched = job.touched /\ job'.rules = job.rules
       /\ job'.todo = job.todo \ {item} /\ job'.left = job.left /\ job'.bytes = job.bytes
       /\ job'.files = (IF file THEN job.files + 1 ELSE job.files)
       /\ job'.part = (IF opens THEN read ELSE Diagnosed(job.part, kind, p))
       /\ job'.file = (IF opens THEN Opened(p) ELSE NoFile)
  <2>. HIDE DEF read, now, kind, opens
  <2>. QED
    BY <1>2, <1>9 DEF JobShape
<1>. HIDE DEF read, kind
<1>. QED
  BY <1>1, <1>3, <1>4, <1>6, <1>7, <1>8, <1>10 DEF Continues

LEMMA WalkEntryInv ==
    ASSUME ScanInv, NEW item \in job.todo, WalkEntry(item)
    PROVE  ScanInv'
<1>. DEFINE p == item.path
            opens == IsFile(item) /\ Lstat(p).kind \in {"file", "locked", "dir", "other"}
<1>0. CASE \E failure : Fail(failure)
  BY <1>0, FailInv
<1>. SUFFICES ASSUME ~ \E failure : Fail(failure) PROVE ScanInv'
  BY <1>0
<1>1. /\ Continues /\ job.stage = "walk" /\ job.file = NoFile
      /\ item.kind # "dir" /\ p \in Paths
      /\ p \notin DOMAIN job.part.observed_bytes /\ p \notin DOMAIN job.part.entries
      /\ job'.todo = job.todo \ {item} /\ job'.bytes = job.bytes
      /\ job'.files = (IF IsFile(item) THEN job.files + 1 ELSE job.files)
      /\ IsFile(item) => job.files + 1 <= config.max_files
      /\ Sound(job'.part) /\ Alike(job'.part, job.part)
      /\ job'.part.entries = job.part.entries
      /\ opens => /\ job'.file = Opened(p)
                  /\ DOMAIN job'.part.observed_bytes = DOMAIN job.part.observed_bytes \cup {p}
      /\ ~opens => /\ job'.file = NoFile
                   /\ job'.part.observed_bytes = job.part.observed_bytes
  BY WalkEntryEffect
<1>2. Walking /\ Metered /\ Made(job.part) /\ job.part.exact.config = config
  BY <1>1 DEF ScanInv, Working
<1>3. Made(job'.part) /\ job'.part.exact.config = config
  BY <1>2, <1>1 DEF Made, Alike
<1>4. config' = config /\ job'.stage = "walk" /\ JobShape'
  BY <1>1 DEF Continues
<1>5. DOMAIN job'.part.observed_bytes \subseteq DOMAIN job.part.observed_bytes \cup {p}
  BY <1>1
<1>6. Walking'
  <2>1. \A other \in job.todo \ {item} : other.path # p /\ p \notin Above(other.path)
                                         /\ other.path \notin Above(p)
    BY <1>2 DEF Walking, Apart
  <2>2. \A other \in job.todo \ {item} : other.path # <<>>
    BY <1>2 DEF Walking, Apart
  <2>. QED
    BY <1>1, <1>2, <1>5, <2>1, <2>2 DEF Walking, Apart
<1>7. Metered'
  <2>1. /\ job.bytes \in Nat /\ job.bytes <= config.max_total_bytes
        /\ Total(Sizes(job.part)) <= job.bytes
        /\ job.files \in Nat /\ job.files <= config.max_files
        /\ Cardinality(DOMAIN job.part.observed_bytes) <= job.files
    BY <1>2 DEF Metered
  <2>2. Sizes(job'.part) = Sizes(job.part)
    BY <1>1 DEF Sizes
  <2>3. job'.files \in Nat /\ job'.files <= config.max_files
    BY <1>1, <2>1
  <2>4. IsFiniteSet(DOMAIN job.part.observed_bytes)
    BY <1>1 DEF ScanInv, Working, Sound, Counted, Sized
  <2>5. Cardinality(DOMAIN job'.part.observed_bytes) <= job'.files
    <3>1. CASE opens
      <4>0. /\ DOMAIN job'.part.observed_bytes = DOMAIN job.part.observed_bytes \cup {p}
            /\ p \notin DOMAIN job.part.observed_bytes
        BY <1>1, <3>1
      <4>. HIDE DEF p
      <4>1. Cardinality(DOMAIN job'.part.observed_bytes) = Cardinality(DOMAIN job.part.observed_bytes) + 1
        BY <2>4, <4>0, FS_AddElement
      <4>. QED
        BY <1>1, <2>1, <2>4, <3>1, <4>1, FS_CardinalityType
    <3>2. CASE ~opens
      BY <1>1, <2>1, <2>4, <3>2, FS_CardinalityType
    <3>. QED
      BY <3>1, <3>2
  <2>. QED
    BY <1>1, <1>4, <2>1, <2>2, <2>3, <2>5 DEF Metered
<1>8. Filed'
  <2>1. CASE opens
    BY <1>1, <2>1 DEF Filed, Opened
  <2>2. CASE ~opens
    BY <1>1, <2>2 DEF Filed
  <2>. QED
    BY <2>1, <2>2
<1>9. Working'
  BY <1>1, <1>3, <1>4, <1>6, <1>7, <1>8 DEF Working
<1>10. Surroundings'
  BY <1>1, SurroundingsStay DEF Continues
<1>. QED
  BY <1>9, <1>10 DEF ScanInv

\* The bytes that are read take the place of what was measured; the file is no entry yet.
LEMMA ReadFileEffect ==
    ASSUME ScanInv, ReadFile, ~ \E failure : Fail(failure)
    PROVE  LET now == Stat(job.file.to)
           IN /\ Continues /\ job.stage \in {"walk", "apply"}
              /\ job.file # NoFile /\ job.file.step = "read"
              /\ job'.todo = job.todo /\ job'.left = job.left /\ job'.bytes = job.bytes
              /\ job'.files = job.files
              /\ Sound(job'.part) /\ Alike(job'.part, job.part)
              /\ job'.part.entries = job.part.entries
              /\ DOMAIN job'.part.observed_bytes = DOMAIN job.part.observed_bytes
              /\ now.kind \notin {"file", "outside"} => job'.file = NoFile
              /\ now.kind \in {"file", "outside"} =>
                    /\ job'.file = [job.file EXCEPT !.step = "keep", !.source = now.source]
                    /\ now.source.size \in Nat
                    /\ job'.part.observed_bytes[job.file.path] = now.source.size
                    /\ job.stage = "walk" => now.source.size + job.bytes <= config.max_total_bytes
<1>. DEFINE p == job.file.path
            now == Stat(job.file.to)
            read == replace_observed(job.part, p, now.source.size)
            keep == [job.file EXCEPT !.step = "keep", !.source = now.source]
<1>0. job.file # NoFile
  BY DEF ReadFile, NoFile
<1>1. /\ JobShape /\ job.stage \in {"walk", "apply"} /\ Sound(job.part) /\ Filed
  BY <1>0 DEF ScanInv, Working
<1>2. p \in DOMAIN job.part.observed_bytes /\ p \notin DOMAIN job.part.entries
  BY <1>0, <1>1 DEF Filed
<1>3. now.source.size \in Nat
  BY SizeFound DEF ScanInv, Stat
<1>4. /\ Sound(read) /\ read.entries = job.part.entries /\ Alike(read, job.part)
      /\ DOMAIN read.observed_bytes = DOMAIN job.part.observed_bytes
      /\ read.observed_bytes[p] = now.source.size
  <2>1. DOMAIN read.observed_bytes = DOMAIN job.part.observed_bytes \cup {p}
    BY <1>1, <1>2, <1>3, MeasureSound
  <2>2. /\ Sound(read) /\ read.entries = job.part.entries /\ Alike(read, job.part)
        /\ read.observed_bytes[p] = now.source.size
    BY <1>1, <1>2, <1>3, MeasureSound
  <2>. HIDE DEF read, p
  <2>. QED
    BY <1>2, <2>1, <2>2
<1>5. job.file.step = "read"
  BY DEF ReadFile
<1>6. CASE now.kind \notin {"file", "outside"}
  <2>. DEFINE part == Diagnosed(job.part, "Unreadable", p)
  <2>1. /\ job' = [job EXCEPT !.part = part, !.file = NoFile]
        /\ UNCHANGED <<tree, ignoreFile, config, known, touched>>
    BY <1>6 DEF ReadFile, repository
  <2>2. /\ Sound(part) /\ Alike(part, job.part) /\ part.entries = job.part.entries
        /\ part.observed_bytes = job.part.observed_bytes
    BY <1>1, DiagnosedSound
  <2>. HIDE DEF part
  <2>3. /\ Continues /\ job'.todo = job.todo /\ job'.left = job.left /\ job'.bytes = job.bytes
        /\ job'.files = job.files /\ job'.part = part /\ job'.file = NoFile
    BY <1>1, <2>1 DEF JobShape, Continues
  <2>. QED
    BY <1>0, <1>1, <1>5, <1>6, <2>2, <2>3
<1>7. CASE now.kind \in {"file", "outside"}
  <2>1. /\ job' = [job EXCEPT !.part = read, !.file = keep]
        /\ UNCHANGED <<tree, ignoreFile, config, known, touched>>
        /\ job.stage = "walk" => now.source.size + job.bytes <= config.max_total_bytes
    BY <1>7 DEF ReadFile, repository, check_bytes
  <2>. HIDE DEF read, keep
  <2>2. /\ Continues /\ job'.todo = job.todo /\ job'.left = job.left /\ job'.bytes = job.bytes
        /\ job'.files = job.files /\ job'.part = read /\ job'.file = keep
    BY <1>1, <2>1 DEF JobShape, Continues
  <2>. QED
    BY <1>0, <1>1, <1>3, <1>4, <1>5, <1>7, <2>1, <2>2 DEF keep
<1>. QED
  BY <1>6, <1>7

\* A walk whose meters stand, and that observed nothing new.
LEMMA WalkStands ==
    ASSUME ScanInv, Continues, job'.todo \subseteq job.todo, job'.files = job.files,
           DOMAIN job'.part.observed_bytes = DOMAIN job.part.observed_bytes,
           job.stage = "walk",
           job'.bytes \in Nat, job'.bytes <= config.max_total_bytes,
           Total(Sizes(job'.part)) <= job'.bytes
    PROVE  Walking' /\ Metered'
<1>1. Walking /\ Metered
  BY DEF ScanInv, Working
<1>2. config' = config
  BY DEF Continues
<1>3. Metered'
  BY <1>1, <1>2 DEF Metered
<1>4. Walking'
  BY <1>1 DEF Walking, Apart
<1>. QED
  BY <1>3, <1>4

\* What remains to be shown of a step of a scan.
LEMMA StepWorks ==
    ASSUME ScanInv, Continues, job.stage \in {"walk", "apply"},
           Sound(job'.part), Alike(job'.part, job.part), Filed',
           job.stage = "walk" => Walking' /\ Metered'
    PROVE  ScanInv'
<1>1. Made(job.part) /\ job.part.exact.config = config
  BY DEF ScanInv, Working
<1>2. Made(job'.part) /\ job'.part.exact.config = config
  BY <1>1 DEF Made, Alike
<1>3. Working'
  BY <1>2 DEF Working, Continues
<1>4. Surroundings'
  BY SurroundingsStay DEF Continues
<1>. QED
  BY <1>3, <1>4 DEF ScanInv

LEMMA ReadFileInv ==
    ASSUME ScanInv, ReadFile
    PROVE  ScanInv'
<1>. DEFINE now == Stat(job.file.to)
            p == job.file.path
<1>0. CASE \E failure : Fail(failure)
  BY <1>0, FailInv
<1>. SUFFICES ASSUME ~ \E failure : Fail(failure) PROVE ScanInv'
  BY <1>0
<1>1. /\ Continues /\ job.stage \in {"walk", "apply"} /\ job.file # NoFile
      /\ job'.todo = job.todo /\ job'.bytes = job.bytes /\ job'.files = job.files
      /\ Sound(job'.part) /\ Alike(job'.part, job.part)
      /\ job'.part.entries = job.part.entries
      /\ DOMAIN job'.part.observed_bytes = DOMAIN job.part.observed_bytes
      /\ now.kind \notin {"file", "outside"} => job'.file = NoFile
      /\ now.kind \in {"file", "outside"} =>
            /\ job'.file = [job.file EXCEPT !.step = "keep", !.source = now.source]
            /\ now.source.size \in Nat
            /\ job'.part.observed_bytes[p] = now.source.size
            /\ job.stage = "walk" => now.source.size + job.bytes <= config.max_total_bytes
  BY ReadFileEffect
<1>2. Filed
  BY <1>1 DEF ScanInv, Working
<1>3. Filed'
  <2>1. CASE now.kind \notin {"file", "outside"}
    BY <1>1, <2>1 DEF Filed
  <2>2. CASE now.kind \in {"file", "outside"}
    <3>1. /\ job.file = [step |-> job.file.step, path |-> p, to |-> job.file.to, source |-> job.file.source]
          /\ p \in DOMAIN job.part.observed_bytes \ DOMAIN job.part.entries
      BY <1>1, <1>2 DEF Filed
    <3>2. job'.file = [step |-> "keep", path |-> p, to |-> job.file.to, source |-> now.source]
      <4>. DEFINE source == now.source
      <4>1. job'.file = [job.file EXCEPT !.step = "keep", !.source = source]
        BY <1>1, <2>2
      <4>. HIDE DEF source
      <4>2. job'.file = [step |-> "keep", path |-> p, to |-> job.file.to, source |-> source]
        BY <3>1, <4>1
      <4>. QED
        BY <4>2 DEF source
    <3>3. config' = config /\ job'.stage = job.stage
      BY <1>1 DEF Continues
    <3>. QED
      BY <1>1, <2>2, <3>1, <3>2, <3>3 DEF Filed
  <2>. QED
    BY <2>1, <2>2
<1>4. ASSUME job.stage = "walk" PROVE Walking' /\ Metered'
  <2>1. /\ job.bytes \in Nat /\ job.bytes <= config.max_total_bytes
        /\ Total(Sizes(job.part)) <= job.bytes
    BY <1>4 DEF ScanInv, Working, Metered
  <2>2. Sizes(job'.part) = Sizes(job.part)
    BY <1>1 DEF Sizes
  <2>. QED
    BY <1>1, <1>4, <2>1, <2>2, WalkStands
<1>. QED
  BY <1>1, <1>3, <1>4, StepWorks

\* A file that was read becomes an entry, unless its path is a link by now or its bytes
\* are no text.
LEMMA KeepFileEffect ==
    ASSUME ScanInv, KeepFile
    PROVE  LET p == job.file.path
               source == job.file.source
           IN /\ Continues /\ job.stage \in {"walk", "apply"}
              /\ job.file # NoFile /\ job.file.step = "keep" /\ job'.file = NoFile
              /\ job'.todo = job.todo /\ job'.left = job.left /\ job'.files = job.files
              /\ source.size \in Nat /\ p \notin DOMAIN job.part.entries
              /\ Sound(job'.part) /\ Alike(job'.part, job.part)
              /\ job'.part.observed_bytes = job.part.observed_bytes
              /\ job'.part.entries = IF Lstat(p).kind = "link" \/ ~source.utf8 THEN job.part.entries
                                     ELSE With(job.part.entries, p, Entry(config, p, source))
              /\ job.stage = "walk" =>
                    /\ job'.bytes \in Nat /\ job'.bytes <= config.max_total_bytes
                    /\ Total(Sizes(job'.part)) <= job'.bytes
<1>. DEFINE p == job.file.path
            source == job.file.source
            kept == Insert(job.part, p, source)
            linked == Diagnosed(job.part, "Symlink", p)
<1>0. job.file # NoFile /\ job.file.step = "keep"
  BY DEF KeepFile, NoFile
<1>1. /\ JobShape /\ job.stage \in {"walk", "apply"} /\ Sound(job.part) /\ Filed
      /\ Made(job.part) /\ job.part.exact.config = config
      /\ job.stage = "walk" => Metered
  BY <1>0 DEF ScanInv, Working
<1>2. /\ p \in DOMAIN job.part.observed_bytes /\ p \notin DOMAIN job.part.entries
      /\ source.size \in Nat /\ job.part.observed_bytes[p] = source.size
      /\ job.stage = "walk" => source.size + job.bytes <= config.max_total_bytes
  BY <1>0, <1>1 DEF Filed
<1>3. config.max_total_bytes \in Nat
  BY DEF ScanInv, Surroundings
<1>4. UNCHANGED <<tree, ignoreFile, config, known, touched>>
  BY DEF KeepFile, repository
<1>5. CASE Lstat(p).kind = "link"
  <2>1. job' = [job EXCEPT !.part = linked, !.file = NoFile]
    BY <1>5 DEF KeepFile
  <2>2. /\ Sound(linked) /\ Alike(linked, job.part) /\ linked.entries = job.part.entries
        /\ linked.observed_bytes = job.part.observed_bytes
    BY <1>1, DiagnosedSound
  <2>. HIDE DEF linked
  <2>3. /\ Continues /\ job'.todo = job.todo /\ job'.left = job.left /\ job'.bytes = job.bytes
        /\ job'.files = job.files /\ job'.part = linked /\ job'.file = NoFile
    BY <1>1, <1>4, <2>1 DEF JobShape, Continues
  <2>4. Sizes(job'.part) = Sizes(job.part)
    BY <2>2, <2>3 DEF Sizes
  <2>. QED
    BY <1>0, <1>1, <1>2, <1>5, <2>2, <2>3, <2>4 DEF Metered
<1>6. CASE Lstat(p).kind # "link"
  <2>1. job' = [job EXCEPT !.part = kept, !.file = NoFile,
                           !.bytes = IF job.stage = "walk" THEN @ + source.size ELSE @]
    BY <1>6 DEF KeepFile
  <2>2. /\ Sound(kept) /\ Alike(kept, job.part) /\ kept.observed_bytes = job.part.observed_bytes
        /\ kept.entries = IF source.utf8 THEN With(job.part.entries, p, Entry(config, p, source))
                          ELSE job.part.entries
    <3>1. job.part.exact \in job.part.made
      BY <1>1 DEF Made
    <3>. QED
      BY <1>1, <1>2, <3>1, InsertSound
  <2>. HIDE DEF kept, source
  <2>3. /\ Continues /\ job'.todo = job.todo /\ job'.left = job.left
        /\ job'.bytes = (IF job.stage = "walk" THEN job.bytes + source.size ELSE job.bytes)
        /\ job'.files = job.files /\ job'.part = kept /\ job'.file = NoFile
    BY <1>1, <1>4, <2>1 DEF JobShape, Continues
  <2>4. ASSUME job.stage = "walk" PROVE Total(Sizes(kept)) <= job.bytes + source.size
    <3>0. job.bytes \in Nat /\ Total(Sizes(job.part)) <= job.bytes
      BY <1>1, <2>4 DEF Metered
    <3>1. Sized(Sizes(job.part)) /\ Total(Sizes(job.part)) \in Nat
      BY <1>1, SizesWithin, TotalFinite
    <3>2. CASE ~source.utf8
      <4>1. Sizes(kept) = Sizes(job.part)
        BY <2>2, <3>2 DEF Sizes
      <4>. QED
        BY <1>2, <3>0, <3>1, <4>1
    <3>3. CASE source.utf8
      <4>1. kept.entries = With(job.part.entries, p, Entry(config, p, source))
        BY <2>2, <3>3
      <4>2. Entry(config, p, source).source = source
        BY DEF Entry
      <4>3. /\ DOMAIN Sizes(kept) = DOMAIN Sizes(job.part) \cup {p}
            /\ Sizes(kept)[p] = source.size
            /\ p \notin DOMAIN Sizes(job.part)
            /\ \A q \in DOMAIN Sizes(job.part) : Sizes(kept)[q] = Sizes(job.part)[q]
        BY <1>2, <4>1, <4>2 DEF Sizes, With
      <4>4. Total(Sizes(kept)) = Total(Sizes(job.part)) + source.size
        BY <1>2, <3>1, <4>3, TotalSplit
      <4>. QED
        BY <1>2, <3>0, <3>1, <4>4
    <3>. QED
      BY <3>2, <3>3
  <2>5. ASSUME job.stage = "walk"
        PROVE  /\ job'.bytes \in Nat /\ job'.bytes <= config.max_total_bytes
               /\ Total(Sizes(job'.part)) <= job'.bytes
    BY <1>1, <1>2, <1>3, <2>3, <2>4, <2>5 DEF Metered
  <2>6. kept.entries = IF Lstat(p).kind = "link" \/ ~source.utf8 THEN job.part.entries
                       ELSE With(job.part.entries, p, Entry(config, p, source))
    BY <1>6, <2>2
  <2>. QED
    BY <1>0, <1>1, <1>2, <2>2, <2>3, <2>5, <2>6 DEF source
<1>. QED
  BY <1>5, <1>6

LEMMA KeepFileInv ==
    ASSUME ScanInv, KeepFile
    PROVE  ScanInv'
<1>1. /\ Continues /\ job.stage \in {"walk", "apply"} /\ job'.file = NoFile
      /\ job'.todo = job.todo /\ job'.files = job.files
      /\ Sound(job'.part) /\ Alike(job'.part, job.part)
      /\ job'.part.observed_bytes = job.part.observed_bytes
      /\ job.stage = "walk" =>
            /\ job'.bytes \in Nat /\ job'.bytes <= config.max_total_bytes
            /\ Total(Sizes(job'.part)) <= job'.bytes
  BY KeepFileEffect
<1>2. Filed'
  BY <1>1 DEF Filed
<1>3. ASSUME job.stage = "walk" PROVE Walking' /\ Metered'
  BY <1>1, <1>3, WalkStands
<1>. QED
  BY <1>1, <1>2, <1>3, StepWorks

\* A changed path drops its entry; a file that it leads to is opened and measured.
LEMMA ApplyPathEffect ==
    ASSUME ScanInv, NEW p \in job.left, ApplyPath(p), ~ \E failure : Fail(failure)
    PROVE  LET now == Lstat(p)
               ignored == p = <<".okfignore">> \/ is_ignored_relative(job.rules, p)
           IN /\ Continues /\ job.stage = "apply" /\ job.file = NoFile
              /\ job'.left = job.left \ {p} /\ job'.todo = job.todo
              /\ job'.bytes = job.bytes /\ job'.files = job.files
              /\ Sound(job'.part) /\ Alike(job'.part, job.part)
              /\ job'.part.entries = Without(job.part.entries, p)
              /\ ~ignored => now.kind \notin {"dir", "outside"}
              /\ ignored \/ ~IsFile(now) => job'.file = NoFile
              /\ ~ignored /\ IsFile(now) => /\ job'.file = Opened(p)
                                            /\ p \in DOMAIN job'.part.observed_bytes
<1>. DEFINE now == Lstat(p)
            ignored == p = <<".okfignore">> \/ is_ignored_relative(job.rules, p)
            d == Dropped(p)
            read == replace_observed(d, p, now.source.size)
            gone == NoFileAt(p, now.kind)
            opens == ~ignored /\ IsFile(now)
<1>1. /\ UNCHANGED <<tree, ignoreFile, config, known, touched>>
      /\ job.stage = "apply" /\ job.file = NoFile
      /\ ~ignored => now.kind \notin {"dir", "outside"}
      /\ ignored => job' = [job EXCEPT !.left = @ \ {p}, !.part = d]
      /\ ~ignored /\ ~IsFile(now) => job' = [job EXCEPT !.left = @ \ {p}, !.part = gone]
      /\ opens => job' = [job EXCEPT !.left = @ \ {p}, !.file = Opened(p), !.part = read]
  BY DEF ApplyPath, repository
<1>2. JobShape /\ Sound(job.part)
  BY <1>1 DEF ScanInv, Working
<1>3. /\ Sound(d) /\ Alike(d, job.part) /\ d.entries = Without(job.part.entries, p)
      /\ p \notin DOMAIN d.entries
  BY <1>2, DroppedSound
<1>4. now.source.size \in Nat
  BY SizeFound DEF ScanInv, Lstat
<1>. HIDE DEF d, now
<1>5. /\ Sound(read) /\ Alike(read, job.part) /\ read.entries = Without(job.part.entries, p)
      /\ p \in DOMAIN read.observed_bytes
  BY <1>3, <1>4, MeasureSound DEF Alike
<1>6. Sound(gone) /\ Alike(gone, job.part) /\ gone.entries = Without(job.part.entries, p)
  <2>1. gone \in {d, Diagnosed(d, "Unreadable", p), Diagnosed(d, "Symlink", p),
                  Diagnosed(d, "UnsupportedInput", p)}
    BY DEF NoFileAt, d
  <2>2. ASSUME NEW kind
        PROVE  /\ Sound(Diagnosed(d, kind, p)) /\ Alike(Diagnosed(d, kind, p), job.part)
               /\ Diagnosed(d, kind, p).entries = Without(job.part.entries, p)
    BY <1>3, DiagnosedSound DEF Alike
  <2>. QED
    BY <1>3, <2>1, <2>2
<1>. HIDE DEF read, gone, ignored
<1>7. /\ Continues /\ job'.left = job.left \ {p} /\ job'.todo = job.todo
      /\ job'.bytes = job.bytes /\ job'.files = job.files
      /\ ignored => job'.part = d /\ job'.file = NoFile
      /\ ~ignored /\ ~IsFile(now) => job'.part = gone /\ job'.file = NoFile
      /\ opens => job'.part = read /\ job'.file = Opened(p)
  <2>1. CASE ignored
    BY <1>1, <1>2, <2>1 DEF JobShape, Continues
  <2>2. CASE ~ignored /\ ~IsFile(now)
    BY <1>1, <1>2, <2>2 DEF JobShape, Continues
  <2>3. CASE opens
    BY <1>1, <1>2, <2>3 DEF JobShape, Continues
  <2>. QED
    BY <2>1, <2>2, <2>3
<1>8. Sound(job'.part) /\ Alike(job'.part, job.part) /\ job'.part.entries = Without(job.part.entries, p)
  BY <1>3, <1>5, <1>6, <1>7
<1>9. opens => job'.file = Opened(p) /\ p \in DOMAIN job'.part.observed_bytes
  BY <1>5, <1>7
<1>. QED
  BY <1>1, <1>7, <1>8, <1>9 DEF now, ignored

LEMMA ApplyPathInv ==
    ASSUME ScanInv, NEW p \in job.left, ApplyPath(p)
    PROVE  ScanInv'
<1>0. CASE \E failure : Fail(failure)
  BY <1>0, FailInv
<1>. SUFFICES ASSUME ~ \E failure : Fail(failure) PROVE ScanInv'
  BY <1>0
<1>. DEFINE opens == ~(p = <<".okfignore">> \/ is_ignored_relative(job.rules, p)) /\ IsFile(Lstat(p))
<1>1. /\ Continues /\ job.stage = "apply" /\ job.file = NoFile
      /\ Sound(job'.part) /\ Alike(job'.part, job.part)
      /\ job'.part.entries = Without(job.part.entries, p)
      /\ ~opens => job'.file = NoFile
      /\ opens => job'.file = Opened(p) /\ p \in DOMAIN job'.part.observed_bytes
  BY ApplyPathEffect
<1>. HIDE DEF opens
<1>2. Filed'
  <2>1. CASE ~opens
    BY <1>1, <2>1 DEF Filed
  <2>2. CASE opens
    BY <1>1, <2>2 DEF Filed, Opened, Without
  <2>. QED
    BY <2>1, <2>2
<1>. QED
  BY <1>1, <1>2, StepWorks

\* A snapshot that is returned was counted, whichever way it was built.
LEMMA FinishEffect ==
    ASSUME ScanInv, Finish
    PROVE  /\ UNCHANGED <<tree, ignoreFile, config>> /\ touched' = job.touched
           /\ job.stage \in {"walk", "apply"} /\ job.todo = {} /\ job.left = {} /\ job.file = NoFile
           /\ job' = Idle
           /\ Sound(known') /\ Made(known') /\ Within(known')
           /\ known'.entries = job.part.entries /\ Alike(known', job.part)
           /\ job.op # "scan" =>
                report' = [op |-> "changed", failure |-> "none",
                           reused |-> reused(known, job.part, job.evidence),
                           affected |-> Affected(known, job.part, job.evidence)]
<1>. DEFINE part == job.part
            counted == IF job.stage = "apply" THEN part
                       ELSE [part EXCEPT !.file_count = Cardinality(DOMAIN part.observed_bytes),
                                         !.total_bytes = Total(part.observed_bytes)]
<1>1. /\ UNCHANGED <<tree, ignoreFile, config>> /\ touched' = job.touched
      /\ job.stage \in {"walk", "apply"} /\ job.todo = {} /\ job.left = {} /\ job.file = NoFile
      /\ job' = Idle
      /\ job.stage = "apply" => /\ part.total_bytes <= config.max_total_bytes
                                /\ part.file_count <= config.max_files
      /\ job.op = "scan" => known' = counted
      /\ job.op # "scan" =>
            /\ known' = [counted EXCEPT !.diagnostics = @ \cup WeakMismatch(known, counted)]
            /\ report' = [op |-> "changed", failure |-> "none",
                          reused |-> reused(known, counted, job.evidence),
                          affected |-> Affected(known, counted, job.evidence)]
  BY DEF Finish, repository
<1>2. Sound(part) /\ Made(part) /\ part.exact.config = config
  BY <1>1 DEF ScanInv, Working
<1>3. counted = part
  BY <1>2 DEF Sound, Shape, Counted
<1>. HIDE DEF counted
<1>4. /\ Sound(known') /\ known'.entries = part.entries /\ Alike(known', part)
      /\ known'.file_count = part.file_count
  <2>1. CASE job.op = "scan"
    BY <1>1, <1>2, <1>3, <2>1 DEF Alike
  <2>2. CASE job.op # "scan"
    <3>. DEFINE more == part.diagnostics \cup WeakMismatch(known, part)
    <3>1. known' = [part EXCEPT !.diagnostics = more]
      BY <1>1, <1>3, <2>2
    <3>. HIDE DEF more
    <3>2. /\ Shape(known') /\ known'.entries = part.entries /\ Alike(known', part)
          /\ known'.observed_bytes = part.observed_bytes
          /\ known'.file_count = part.file_count /\ known'.total_bytes = part.total_bytes
      BY <1>2, <3>1 DEF Sound, Shape, Alike
    <3>3. Counted(known') /\ Faithful(known')
      BY <1>2, <3>2 DEF Sound, Counted, Faithful, Alike
    <3>. QED
      BY <3>2, <3>3 DEF Sound
  <2>. QED
    BY <2>1, <2>2
<1>5. Sizes(known') = Sizes(part)
  BY <1>4 DEF Sizes
<1>6. Total(Sizes(part)) <= config.max_total_bytes /\ part.file_count <= config.max_files
  <2>1. Total(Sizes(part)) \in Nat /\ Total(Sizes(part)) <= part.total_bytes
    BY <1>2, SizesWithin, TotalFinite
  <2>2. part.total_bytes \in Nat /\ part.file_count = Cardinality(DOMAIN part.observed_bytes)
    BY <1>2, TotalFinite DEF Sound, Counted
  <2>3. CASE job.stage = "apply"
    BY <1>1, <2>1, <2>2, <2>3 DEF ScanInv, Surroundings
  <2>4. CASE job.stage = "walk"
    <3>1. /\ job.bytes \in Nat /\ job.bytes <= config.max_total_bytes
          /\ Total(Sizes(part)) <= job.bytes
          /\ job.files \in Nat /\ job.files <= config.max_files
          /\ Cardinality(DOMAIN part.observed_bytes) <= job.files
      BY <2>4 DEF ScanInv, Working, Metered
    <3>2. Cardinality(DOMAIN part.observed_bytes) \in Nat
      BY <1>2, FS_CardinalityType DEF Sound, Counted, Sized
    <3>3. config.max_total_bytes \in Nat /\ config.max_files \in Nat
      BY DEF ScanInv, Surroundings
    <3>. QED
      BY <2>1, <2>2, <3>1, <3>2, <3>3
  <2>. QED
    BY <1>1, <2>3, <2>4
<1>7. Within(known') /\ Made(known')
  BY <1>2, <1>4, <1>5, <1>6 DEF Within, Made, Alike
<1>. QED
  BY <1>1, <1>3, <1>4, <1>7

\* What others do meanwhile.
LEMMA MeanwhileInv ==
    ASSUME ScanInv,
           \/ \E e \in Edits : EditTree(e.path, e.node)
           \/ \E file \in IgnoreFiles : EditIgnore(file)
           \/ \E c \in Configs : Configure(c)
    PROVE  ScanInv'
<1>1. ASSUME NEW e \in Edits, EditTree(e.path, e.node) PROVE ScanInv'
  <2>. DEFINE seen == Seen(e.path, e.node)
  <2>1. /\ UNCHANGED <<config, known>> /\ tree' = Replaced(e.path, e.node)
        /\ job' = IF job = Idle THEN Idle ELSE [job EXCEPT !.touched = @ \cup seen]
    BY <1>1 DEF EditTree
  <2>. HIDE DEF seen
  <2>2. \A q \in Paths : tree'[q].source.size \in Nat
    <3>1. None.source.size \in Nat /\ e.node.source.size \in Nat
      BY ScanAssumption DEF None, Node, NoSource
    <3>. QED
      BY <2>1, <3>1 DEF Replaced, ScanInv, Surroundings
  <2>3. Surroundings'
    BY <2>1, <2>2 DEF ScanInv, Surroundings
  <2>4. /\ JobShape' /\ job'.stage = job.stage /\ job'.part = job.part /\ job'.todo = job.todo
        /\ job'.file = job.file /\ job'.files = job.files /\ job'.bytes = job.bytes
    <3>1. JobShape
      BY DEF ScanInv, Working
    <3>. QED
      BY <2>1, <3>1 DEF JobShape
  <2>5. Working'
    BY <2>1, <2>4 DEF ScanInv, Working, Walking, Metered, Filed
  <2>. QED
    BY <2>3, <2>5 DEF ScanInv
<1>2. ASSUME NEW file \in IgnoreFiles, EditIgnore(file) PROVE ScanInv'
  <2>1. UNCHANGED <<tree, config, known, job>>
    BY <1>2 DEF EditIgnore
  <2>. QED
    BY <2>1 DEF ScanInv, Surroundings, Working, JobShape, Walking, Metered, Filed
<1>3. ASSUME NEW c \in Configs, Configure(c) PROVE ScanInv'
  <2>1. UNCHANGED <<tree, known, job>> /\ config' = c /\ job = Idle
    BY <1>3 DEF Configure
  <2>2. Surroundings'
    BY <2>1, ScanAssumption DEF ScanInv, Surroundings
  <2>3. Working'
    BY <2>1 DEF ScanInv, Working, JobShape, Idle
  <2>. QED
    BY <2>2, <2>3 DEF ScanInv
<1>. QED
  BY <1>1, <1>2, <1>3

LEMMA ScanStep ==
    ASSUME ScanInv, [Next]_vars
    PROVE  ScanInv'
<1>1. ASSUME InvalidEvidence \/ BadIgnore \/ SnapshotTooLarge PROVE ScanInv'
  <2>1. \E failure : Fail(failure)
    BY <1>1 DEF InvalidEvidence, BadIgnore, SnapshotTooLarge
  <2>. QED
    BY <2>1, FailInv
<1>2. ASSUME Finish PROVE ScanInv'
  <2>1. /\ UNCHANGED <<tree, config>> /\ job' = Idle
        /\ Sound(known') /\ Made(known') /\ Within(known')
    BY <1>2, FinishEffect
  <2>2. Surroundings'
    BY <2>1 DEF ScanInv, Surroundings
  <2>3. (JobShape /\ job.stage = "idle" /\ job.bytes = 0 /\ job.files = 0 /\ job.file = NoFile)'
    BY <2>1 DEF Idle, JobShape
  <2>4. Working'
    BY <2>3 DEF Working
  <2>. QED
    BY <2>2, <2>4 DEF ScanInv
<1>3. ASSUME UNCHANGED vars PROVE ScanInv'
  BY <1>3 DEF vars, ScanInv, Surroundings, Working, JobShape, Walking, Metered, Filed
<1>4. ASSUME NEW item \in job.todo, WalkDirectory(item) \/ WalkEntry(item) PROVE ScanInv'
  BY <1>4, WalkDirectoryInv, WalkEntryInv
<1>5. ASSUME NEW p \in job.left, ApplyPath(p) PROVE ScanInv'
  BY <1>5, ApplyPathInv
<1>6. ASSUME BeginScan \/ (\E extra \in Extra : BeginChanged(extra)) \/ CompareInputs \/ Collect
      PROVE  ScanInv'
  BY <1>6, BeginInv, CompareInv
<1>7. ASSUME \/ \E e \in Edits : EditTree(e.path, e.node)
             \/ \E file \in IgnoreFiles : EditIgnore(file)
             \/ \E c \in Configs : Configure(c)
      PROVE  ScanInv'
  BY <1>7, MeanwhileInv
<1>8. ASSUME ReadFile \/ KeepFile PROVE ScanInv'
  BY <1>8, ReadFileInv, KeepFileInv
<1>9. ASSUME Scanner PROVE ScanInv'
  BY <1>1, <1>2, <1>4, <1>5, <1>6, <1>8, <1>9 DEF Scanner
<1>. QED
  BY <1>3, <1>6, <1>7, <1>9 DEF Next

LEMMA ScanAlways == ScanSpec => []ScanInv
<1>1. ScanInv /\ [Next]_vars => ScanInv'
  BY ScanStep
<1>. QED
  BY InitInv, <1>1, PTL DEF ScanSpec

\* The counters a snapshot carries from scan to scan are those of the files it observed,
\* its entries are among them, and the number of the files it observed and the bytes of
\* its entries are within the limits of the configuration it was made under: for every
\* tree, every interleaving of edits and scans, and whatever a file turns into between its
\* listing and its reading (replace_observed, remove_observed, check_bytes).
THEOREM CountsAlwaysExact == ScanSpec => []CountsExact
<1>1. ScanInv => CountsExact
  BY DEF ScanInv, Surroundings, Sound, Counted, Faithful, Within, Sizes, CountsExact
<1>. QED
  BY ScanAlways, <1>1, PTL

\* Inputs without a collision that have the same digests make the same entries.
LEMMA SameDigestsSameEntry ==
    ASSUME NEW exact, ~Collision(exact), NEW m \in exact, NEW n \in exact, Digests(m) = Digests(n),
           NEW p, NEW source
    PROVE  Entry(m.config, p, source) = Entry(n.config, p, source) /\ m.ignore = n.ignore
<1>1. DOMAIN Digested(m) = {"ignore", "parser", "profile", "package_defaults", "config"}
  BY DEF Digested
<1>2. \A f \in DOMAIN Digested(m) : Digest(f, Digested(m)[f]) = Digest(f, Digested(n)[f])
  <2>1. DOMAIN Digests(m) = DOMAIN Digested(m) /\ DOMAIN Digests(n) = DOMAIN Digested(n)
    BY DEF Digests
  <2>2. ASSUME NEW f \in DOMAIN Digested(m)
        PROVE  Digest(f, Digested(m)[f]) = Digest(f, Digested(n)[f])
    <3>1. Digests(m)[f] = Digest(f, Digested(m)[f])
      BY DEF Digests
    <3>2. Digests(n)[f] = Digest(f, Digested(n)[f])
      BY <2>1 DEF Digests
    <3>. QED
      BY <3>1, <3>2
  <2>. QED
    BY <2>2
<1>3. \A f \in DOMAIN Digested(m) : Digested(m)[f] = Digested(n)[f]
  BY <1>2 DEF Collision
<1>4. /\ Digested(m)["ignore"] = m.ignore /\ Digested(n)["ignore"] = n.ignore
      /\ Digested(m)["parser"] = m.config.max_file_bytes /\ Digested(n)["parser"] = n.config.max_file_bytes
      /\ Digested(m)["package_defaults"] = m.config.package_defaults
      /\ Digested(n)["package_defaults"] = n.config.package_defaults
  BY DEF Digested
<1>5. /\ m.ignore = n.ignore /\ m.config.max_file_bytes = n.config.max_file_bytes
      /\ m.config.package_defaults = n.config.package_defaults
  BY <1>1, <1>3, <1>4
<1>. QED
  BY <1>5 DEF Entry

LEMMA FinishReports ==
    ASSUME ScanInv, Finish, job.op = "changed",
           NEW p \in DOMAIN known.entries \cup DOMAIN known'.entries
    PROVE  IF p \in report'.reused
           THEN /\ known'.entries[p].source = known.entries[p].source
                /\ Collision(known.made \cup known'.made) \/ known'.entries[p] = known.entries[p]
           ELSE AffectedNode(known, known', p) \in report'.affected
<1>. DEFINE part == job.part
<1>1. /\ known'.entries = part.entries /\ known'.inputs = part.inputs
      /\ Sound(known') /\ Sound(known) /\ Made(known')
      /\ report'.reused = reused(known, part, job.evidence)
      /\ report'.affected = Affected(known, part, job.evidence)
  BY FinishEffect DEF ScanInv, Surroundings, Alike
<1>2. AffectedNode(known, known', p) = AffectedNode(known, part, p)
  BY <1>1 DEF AffectedNode, IdentityOf
<1>3. CASE p \in reused(known, part, job.evidence)
  <2>1. /\ p \in DOMAIN known.entries /\ p \in DOMAIN known'.entries /\ known.inputs = known'.inputs
        /\ known.entries[p].source = known'.entries[p].source
    BY <1>1, <1>3 DEF reused
  <2>2. PICK m \in known.made : known.entries[p] = Entry(m.config, p, known.entries[p].source)
    BY <1>1, <2>1 DEF Sound, Faithful
  <2>3. PICK n \in known'.made : known'.entries[p] = Entry(n.config, p, known'.entries[p].source)
    BY <1>1, <2>1 DEF Sound, Faithful
  <2>4. known # NoSnapshot
    <3>1. known = NoSnapshot => DOMAIN known.entries = {}
      BY TotalEmpty DEF NoSnapshot
    <3>. QED
      BY <2>1, <3>1
  <2>5. Digests(m) = Digests(n)
    BY <1>1, <2>1, <2>4 DEF ScanInv, Surroundings, Made
  <2>6. ASSUME ~Collision(known.made \cup known'.made) PROVE known'.entries[p] = known.entries[p]
    <3>1. Entry(m.config, p, known.entries[p].source) = Entry(n.config, p, known.entries[p].source)
      BY <2>5, <2>6, SameDigestsSameEntry
    <3>. QED
      BY <2>1, <2>2, <2>3, <3>1
  <2>. QED
    BY <1>1, <1>3, <2>1, <2>6
<1>4. CASE p \notin reused(known, part, job.evidence)
  <2>1. AffectedNode(known, part, p) \in Affected(known, part, job.evidence)
    BY <1>1, <1>4 DEF Affected
  <2>. QED
    BY <1>1, <1>2, <1>4, <2>1
<1>. QED
  BY <1>3, <1>4

\* Every path of the old or the new snapshot is reported reused, and then has the source
\* it had, and the same entry unless two of the inputs share a digest, or affected, with
\* its old and its new identity (scan_changed).  What makes it so is that an entry is
\* determined by the path, the source and what is digested of the configuration.
THEOREM ReportAlwaysExact == ScanSpec => ReportExact
<1>1. ScanInv =>
        [Finish /\ job.op = "changed" =>
           \A p \in DOMAIN known.entries \cup DOMAIN known'.entries :
              IF p \in report'.reused
              THEN /\ known'.entries[p].source = known.entries[p].source
                   /\ Collision(known.made \cup known'.made) \/ known'.entries[p] = known.entries[p]
              ELSE AffectedNode(known, known', p) \in report'.affected]_vars
  BY FinishReports
<1>. QED
  BY ScanAlways, <1>1, PTL DEF ReportExact

-----------------------------------------------------------------------------
(* What an undisturbed scan would find.                                    *)

Files == IgnoreFiles \cup {s.ignoreFile : s \in Starts}

Skips(file, p) == is_ignored_relative(from_okfignore(file), p)

\* What a rule ignores, it ignores with all that is below.  An anchored rule that does
\* not end in a slash need not: a walk never enters the directory it names, but a
\* changed path below it is read.
AgreeingRules ==
    \A file \in Files, p \in Paths :
        IgnoreError(file) = "none" /\ (\E d \in Above(p) : Skips(file, d)) => Skips(file, p)

Found(now, p, m) ==
    IF now.kind = "file" /\ now.source.utf8 /\ \A q \in {p} \cup Above(p) : ~Skips(m.ignore, q)
    THEN {Entry(m.config, p, now.source)} ELSE {}

Has(entries, p) == IF p \in DOMAIN entries THEN {entries[p]} ELSE {}

Readable(m) == m.ignore \in Files /\ IgnoreError(m.ignore) = "none"

\* In the tree t an entry is what one of these inputs makes of the path, or there is none
\* and the inputs make none.  Below a link an entry may be of anything: that it is no
\* entry of what is not there is enough to have it right once the link is gone.
Settled(t, entries, p, made) ==
    IF Linked(t, p) THEN p \in DOMAIN entries => NodeAt(t, p, FALSE).kind \notin {"none", "dir"}
    ELSE \E m \in made : Has(entries, p) = Found(NodeAt(t, p, FALSE), p, m)

\* An edit from t to u that the caller did not see at the path.
Unseen(t, u, p) ==
    \/ View(t, p) = View(u, p)
    \/ {NodeAt(t, p, FALSE).kind, NodeAt(u, p, FALSE).kind} \subseteq {"none", "dir"}

\* The file that is being read is what the path leads to.
StandsAt(t, file) ==
    LET now == NodeAt(t, file.path, FALSE)
    IN /\ now.kind \notin {"none", "dir"}
       /\ ~Linked(t, file.path) =>
            /\ now.kind \in {"file", "locked"} /\ file.to = file.path
            /\ file.step = "keep" => now.kind = "file" /\ file.source = now.source

LEMMA NoneIs == None.kind = "none"
BY DEF None, Node

LEMMA NothingFound ==
    ASSUME NEW now, now.kind # "file", NEW p, NEW m
    PROVE  Found(now, p, m) = {}
BY DEF Found

LEMMA NothingThere ==
    ASSUME NEW t, NEW entries, NEW p, NEW made, made # {},
           NodeAt(t, p, FALSE).kind \in {"none", "dir"}
    PROVE  Settled(t, entries, p, made) <=> p \notin DOMAIN entries
<1>. DEFINE now == NodeAt(t, p, FALSE)
<1>1. now.kind \in {"none", "dir"} /\ now.kind # "file"
  OBVIOUS
<1>2. Settled(t, entries, p, made) <=>
        IF Linked(t, p) THEN p \in DOMAIN entries => now.kind \notin {"none", "dir"}
        ELSE \E m \in made : Has(entries, p) = Found(now, p, m)
  BY DEF Settled
<1>. HIDE DEF now
<1>3. \A m \in made : Found(now, p, m) = {}
  BY <1>1, NothingFound
<1>4. Has(entries, p) = {} <=> p \notin DOMAIN entries
  BY DEF Has
<1>5. CASE Linked(t, p)
  BY <1>1, <1>2, <1>5
<1>6. CASE ~Linked(t, p)
  <2>1. (\E m \in made : Has(entries, p) = Found(now, p, m)) <=> Has(entries, p) = {}
    BY <1>3
  <2>. QED
    BY <1>2, <1>4, <1>6, <2>1
<1>. QED
  BY <1>5, <1>6

LEMMA SettledUnseen ==
    ASSUME NEW t, NEW u, NEW entries, NEW p, NEW made, made # {},
           Unseen(t, u, p), Settled(t, entries, p, made)
    PROVE  Settled(u, entries, p, made)
<1>. DEFINE old == NodeAt(t, p, FALSE)
            new == NodeAt(u, p, FALSE)
<1>1. ASSUME old.kind \in {"none", "dir"}, new.kind \in {"none", "dir"}
      PROVE  Settled(u, entries, p, made)
  BY <1>1, NothingThere
<1>2. ASSUME View(t, p) = View(u, p) PROVE Settled(u, entries, p, made)
  <2>1. old = new /\ (IF Linked(t, p) THEN None ELSE old) = (IF Linked(u, p) THEN None ELSE new)
    BY <1>2 DEF View
  <2>2. CASE Linked(t, p) <=> Linked(u, p)
    BY <2>1, <2>2 DEF Settled
  <2>3. CASE ~(Linked(t, p) <=> Linked(u, p))
    <3>1. old = None
      BY <2>1, <2>3
    <3>. QED
      BY <1>1, <2>1, <3>1, NoneIs
  <2>. QED
    BY <2>2, <2>3
<1>. QED
  BY <1>1, <1>2 DEF Unseen

LEMMA StandsUnseen ==
    ASSUME NEW t, NEW u, NEW file, Unseen(t, u, file.path), StandsAt(t, file)
    PROVE  StandsAt(u, file)
<1>. DEFINE p == file.path
            old == NodeAt(t, p, FALSE)
            new == NodeAt(u, p, FALSE)
<1>1. old.kind \notin {"none", "dir"}
  BY DEF StandsAt
<1>2. old = new /\ (IF Linked(t, p) THEN None ELSE old) = (IF Linked(u, p) THEN None ELSE new)
  BY <1>1 DEF Unseen, View
<1>. HIDE DEF old, new
<1>3. Linked(t, p) <=> Linked(u, p)
  BY <1>1, <1>2, NoneIs
<1>. QED
  BY <1>2, <1>3 DEF StandsAt, old, new

\* A caller sees all that an edit changes of files.
LEMMA EditUnseen ==
    ASSUME NEW x, NEW node, EditTree(x, node), NEW p \in Paths \ Seen(x, node)
    PROVE  Unseen(tree, tree', p)
<1>. DEFINE t == Replaced(x, node)
<1>1. tree' = t
  BY DEF EditTree
<1>. HIDE DEF t
<1>2. \/ View(tree, p) = View(t, p)
      \/ {View(tree, p).lstat.kind, View(tree, p).walk.kind,
          View(t, p).lstat.kind, View(t, p).walk.kind} \subseteq {"none", "dir"}
  BY DEF Seen, t
<1>3. View(tree, p).lstat = NodeAt(tree, p, FALSE) /\ View(t, p).lstat = NodeAt(t, p, FALSE)
  BY DEF View
<1>. QED
  BY <1>1, <1>2, <1>3 DEF Unseen

\* Below no link a file is where its path says, and is no link itself.
LEMMA PlainFile ==
    ASSUME NEW t, NEW p \in Paths, ~Linked(t, p)
    PROVE  /\ Leads(t, p, FALSE) = p
           /\ NodeAt(t, p, FALSE).kind \in {"file", "locked"} =>
                /\ NodeAt(t, p, FALSE) = t[p] /\ NodeAt(t, p, TRUE) = t[p]
                /\ \A d \in Above(p) : t[d].kind = "dir"
<1>. DEFINE above == {t[d].kind : d \in Above(p) \cap Paths}
<1>1. Above(p) \subseteq Paths /\ p # Outside
  BY PathText, ScanAssumption
<1>2. Links(t, p, FALSE) = {}
  BY <1>1 DEF Links, Linked
<1>3. Leads(t, p, FALSE) = p
  BY <1>2 DEF Leads
<1>4. ASSUME NEW final, Leads(t, p, final) = p
      PROVE  NodeAt(t, p, final) = IF above \cap {"file", "locked", "other", "link"} # {}
                                   THEN Node("error", NoSource)
                                   ELSE IF above \subseteq {"dir"} THEN t[p] ELSE None
  BY <1>1, <1>4 DEF NodeAt
<1>5. ASSUME NodeAt(t, p, FALSE).kind \in {"file", "locked"}
      PROVE  /\ NodeAt(t, p, FALSE) = t[p] /\ NodeAt(t, p, TRUE) = t[p]
             /\ \A d \in Above(p) : t[d].kind = "dir"
  <2>0. Node("error", NoSource).kind = "error" /\ None.kind = "none"
    BY DEF Node, None
  <2>1. above \subseteq {"dir"} /\ NodeAt(t, p, FALSE) = t[p]
    <3>1. NodeAt(t, p, FALSE) = IF above \cap {"file", "locked", "other", "link"} # {}
                                THEN Node("error", NoSource)
                                ELSE IF above \subseteq {"dir"} THEN t[p] ELSE None
      BY <1>3, <1>4
    <3>. HIDE DEF above
    <3>. QED
      BY <1>5, <2>0, <3>1
  <2>2. t[p].kind # "link"
    BY <1>5, <2>1
  <2>3. Links(t, p, TRUE) = {}
    BY <1>1, <2>2 DEF Links, Linked
  <2>4. Leads(t, p, TRUE) = p
    BY <2>3 DEF Leads
  <2>5. NodeAt(t, p, TRUE) = t[p]
    <3>1. above \cap {"file", "locked", "other", "link"} = {}
      BY <2>1
    <3>. QED
      BY <1>4, <2>1, <2>4, <3>1
  <2>6. \A d \in Above(p) : t[d].kind \in above
    BY <1>1
  <2>. QED
    BY <2>1, <2>5, <2>6
<1>. QED
  BY <1>3, <1>5

LEMMA PlainPath ==
    ASSUME NEW t, NEW p \in Paths, \A d \in Above(p) : t[d].kind = "dir"
    PROVE  NodeAt(t, p, FALSE) = t[p]
<1>. DEFINE above == {t[d].kind : d \in Above(p) \cap Paths}
<1>1. Above(p) \subseteq Paths /\ p # Outside
  BY PathText, ScanAssumption
<1>2. Links(t, p, FALSE) = {}
  BY DEF Links
<1>3. Leads(t, p, FALSE) = p
  BY <1>2 DEF Leads
<1>4. above \subseteq {"dir"} /\ above \cap {"file", "locked", "other", "link"} = {}
  OBVIOUS
<1>. QED
  BY <1>1, <1>3, <1>4 DEF NodeAt

LEMMA AbsentSettled ==
    ASSUME NEW t, NEW entries, NEW p, NEW made, NEW m \in made, p \notin DOMAIN entries,
           Linked(t, p) \/ Found(NodeAt(t, p, FALSE), p, m) = {}
    PROVE  Settled(t, entries, p, made)
BY DEF Settled, Has

\* The walk will come to the path.
Pending(p) ==
    \E item \in job.todo :
        \/ item.path = p /\ IsFile(item)
        \/ item.path \in Above(p) \cup {<<>>} /\ item.kind = "dir"

Reading(p) == job.file.step # "none" /\ job.file.path = p

PartSettled(p) == Settled(tree, job.part.entries, p, job.part.made)

KnownCurrent ==
    known # NoSnapshot => \A p \in Paths \ touched : Settled(tree, known.entries, p, known.made)

ItemsCurrent ==
    \A item \in job.todo :
        item.path # <<>> =>
            /\ \A q \in {item.path} \cup Above(item.path) : ~Skips(job.part.exact.ignore, q)
            /\ item.kind # "dir" =>
                 /\ item.kind # "none"
                 /\ item.path \notin job.touched => NodeAt(tree, item.path, FALSE).kind = item.kind

WalkCurrent ==
    /\ ItemsCurrent
    /\ \A p \in Paths \ job.touched :
          PartSettled(p) \/ (p \notin DOMAIN job.part.entries /\ (Pending(p) \/ Reading(p)))

ApplyCurrent ==
    \A p \in Paths \ (job.left \cup job.touched) :
        PartSettled(p) \/ (p \notin DOMAIN job.part.entries /\ Reading(p))

FileCurrent ==
    LET x == job.file.path
    IN job.file # NoFile /\ x \in Paths =>
         /\ \A q \in {x} \cup Above(x) : ~Skips(job.part.exact.ignore, q)
         /\ x \notin job.touched => StandsAt(tree, job.file)

CurrentInv ==
    /\ ignoreFile \in Files
    /\ KnownCurrent
    /\ job.op = "changed" => touched \subseteq job.evidence \cup job.touched
    /\ job.stage = "inputs" => job.op = "changed" /\ known # NoSnapshot
    /\ job.stage \in {"walk", "apply"} =>
          /\ Readable(job.part.exact) /\ job.rules = from_okfignore(job.part.exact.ignore)
          /\ FileCurrent
    /\ job.stage = "walk" => WalkCurrent
    /\ job.stage = "apply" => job.op = "changed" /\ ApplyCurrent

\* What remains to be shown of a step of a scan.
LEMMA CurrentContinues ==
    ASSUME CurrentInv, Continues, job.stage \in {"walk", "apply"},
           Alike(job'.part, job.part), FileCurrent',
           job.stage = "walk" => WalkCurrent', job.stage = "apply" => ApplyCurrent'
    PROVE  CurrentInv'
<1>1. UNCHANGED <<tree, ignoreFile, known, touched>> /\ job'.op = job.op /\ job'.stage = job.stage
      /\ job'.evidence = job.evidence /\ job'.touched = job.touched /\ job'.rules = job.rules
      /\ job'.part.exact = job.part.exact
  BY DEF Continues, Alike
<1>2. KnownCurrent'
  BY <1>1 DEF CurrentInv, KnownCurrent
<1>. QED
  BY <1>1, <1>2 DEF CurrentInv, Readable

LEMMA CurrentStays ==
    ASSUME CurrentInv, UNCHANGED <<tree, known, touched, job>>, ignoreFile' \in Files
    PROVE  CurrentInv'
<1>1. KnownCurrent'
  BY DEF CurrentInv, KnownCurrent
<1>2. ApplyCurrent' <=> ApplyCurrent
  BY DEF ApplyCurrent, PartSettled, Reading
<1>3. WalkCurrent' <=> WalkCurrent
  <2>1. \A p : (Pending(p)' <=> Pending(p)) /\ (Reading(p)' <=> Reading(p))
               /\ (PartSettled(p)' <=> PartSettled(p))
    BY DEF Pending, Reading, PartSettled
  <2>2. ItemsCurrent' <=> ItemsCurrent
    BY DEF ItemsCurrent
  <2>. QED
    BY <2>1, <2>2 DEF WalkCurrent
<1>4. FileCurrent' <=> FileCurrent
  BY DEF FileCurrent
<1>. QED
  BY <1>1, <1>2, <1>3, <1>4 DEF CurrentInv, Readable

LEMMA CurrentInit == Init => CurrentInv
BY DEF Init, CurrentInv, Files, KnownCurrent, Idle

LEMMA CurrentFail ==
    ASSUME CurrentInv, NEW failure, Fail(failure)
    PROVE  CurrentInv'
<1>1. /\ UNCHANGED <<tree, ignoreFile, config, known>> /\ job' = Idle
      /\ touched' = touched \cup job.touched
  BY DEF Fail, repository
<1>2. KnownCurrent'
  BY <1>1 DEF CurrentInv, KnownCurrent
<1>. QED
  BY <1>1, <1>2 DEF CurrentInv, Idle

LEMMA CurrentBegin ==
    ASSUME CurrentInv, ScanInv,
           BeginScan \/ (\E extra \in Extra : BeginChanged(extra)) \/ CompareInputs \/ Collect
    PROVE  CurrentInv'
<1>1. UNCHANGED <<tree, ignoreFile, config, known, touched>>
  BY DEF BeginScan, BeginChanged, CompareInputs, Collect, repository
<1>2. KnownCurrent'
  BY <1>1 DEF CurrentInv, KnownCurrent
<1>3. JobShape
  BY DEF ScanInv, Working
<1>4. ASSUME BeginScan PROVE CurrentInv'
  <2>1. job'.op = "scan" /\ job'.stage = "collect"
    BY <1>4 DEF BeginScan, Idle
  <2>. QED
    BY <1>1, <1>2, <2>1 DEF CurrentInv
<1>5. ASSUME NEW extra \in Extra, BeginChanged(extra) PROVE CurrentInv'
  <2>1. job'.op = "changed" /\ job'.stage = "inputs" /\ job'.evidence = touched \cup extra /\ known # NoSnapshot
    BY <1>5 DEF BeginChanged, Idle
  <2>. QED
    BY <1>1, <1>2, <2>1 DEF CurrentInv
<1>6. ASSUME CompareInputs, inputs(ignoreFile) # known.inputs PROVE CurrentInv'
  <2>1. /\ job'.op = job.op /\ job'.stage = "collect"
        /\ job'.evidence = job.evidence /\ job'.touched = job.touched
    BY <1>3, <1>6 DEF CompareInputs, JobShape
  <2>. QED
    BY <1>1, <1>2, <2>1 DEF CurrentInv
<1>7. ASSUME CompareInputs, inputs(ignoreFile) = known.inputs PROVE CurrentInv'
  <2>0. job.stage = "inputs" /\ IgnoreError(ignoreFile) = "none"
    BY <1>7 DEF CompareInputs
  <2>1. job' = [job EXCEPT !.stage = "apply", !.rules = from_okfignore(ignoreFile),
                           !.left = job.evidence, !.part = Resumed]
    BY <1>7 DEF CompareInputs, Resumed
  <2>2. /\ job'.op = job.op /\ job'.stage = "apply"
        /\ job'.evidence = job.evidence /\ job'.touched = job.touched
        /\ job'.left = job.evidence /\ job'.rules = from_okfignore(ignoreFile)
        /\ job'.part = Resumed /\ job'.file = job.file
    BY <1>3, <2>1 DEF JobShape
  <2>3. /\ Resumed.entries = known.entries /\ Resumed.exact = ExactInputs(ignoreFile)
        /\ known.made \subseteq Resumed.made
    BY <1>7, ResumedSound
  <2>4. Resumed.exact.ignore = ignoreFile
    BY <2>3 DEF ExactInputs
  <2>5. job.op = "changed" /\ known # NoSnapshot /\ KnownCurrent
        /\ touched \subseteq job.evidence \cup job.touched /\ job.file = NoFile
    BY <2>0 DEF CurrentInv, ScanInv, Working
  <2>6. Readable(Resumed.exact)
    BY <2>0, <2>4 DEF CurrentInv, Readable
  <2>7. FileCurrent'
    BY <2>2, <2>5 DEF FileCurrent
  <2>8. ASSUME NEW p \in Paths \ (job.evidence \cup job.touched)
        PROVE  Settled(tree, Resumed.entries, p, Resumed.made)
    <3>1. Settled(tree, known.entries, p, known.made)
      BY <2>5 DEF KnownCurrent
    <3>. QED
      BY <2>3, <3>1 DEF Settled
  <2>9. ApplyCurrent'
    <3>. HIDE DEF Resumed
    <3>. QED
      BY <1>1, <2>2, <2>8 DEF ApplyCurrent, PartSettled
  <2>. QED
    BY <1>1, <1>2, <2>2, <2>4, <2>5, <2>6, <2>7, <2>9 DEF CurrentInv
<1>8. ASSUME Collect PROVE CurrentInv'
  <2>. DEFINE part == Begun(ignoreFile)
              root == [path |-> <<>>, kind |-> "dir"]
  <2>0. job.stage = "collect" /\ IgnoreError(ignoreFile) = "none" /\ job.file = NoFile
    BY <1>8 DEF Collect, ScanInv, Working
  <2>1. /\ job'.op = job.op /\ job'.stage = "walk"
        /\ job'.evidence = job.evidence /\ job'.touched = job.touched
        /\ job'.rules = from_okfignore(ignoreFile)
        /\ job'.part = part /\ job'.todo = {root} /\ job'.file = NoFile
    BY <1>3, <1>8, <2>0 DEF Collect, JobShape
  <2>2. part.entries = Empty /\ part.exact = ExactInputs(ignoreFile)
    BY EmptySound
  <2>3. part.exact.ignore = ignoreFile
    BY <2>2 DEF ExactInputs
  <2>. HIDE DEF part
  <2>4. Readable(part.exact)
    BY <2>0, <2>3 DEF CurrentInv, Readable
  <2>5. WalkCurrent'
    <3>1. ItemsCurrent'
      BY <2>1 DEF ItemsCurrent
    <3>2. \A p : p \notin DOMAIN job'.part.entries /\ Pending(p)'
      BY <2>1, <2>2, TotalEmpty DEF Pending
    <3>. QED
      BY <3>1, <3>2 DEF WalkCurrent
  <2>6. FileCurrent'
    BY <2>1 DEF FileCurrent
  <2>. QED
    BY <1>1, <1>2, <2>1, <2>3, <2>4, <2>5, <2>6 DEF CurrentInv
<1>. QED
  BY <1>4, <1>5, <1>6, <1>7, <1>8

LEMMA PendingListed ==
    ASSUME NEW item \in job.todo, NEW p \in Paths, item.path \in Above(p) \cup {<<>>},
           job.rules = from_okfignore(job.part.exact.ignore),
           ~Linked(tree, p), Found(NodeAt(tree, p, FALSE), p, job.part.exact) # {}
    PROVE  /\ item.path # <<>> => Lstat(item.path).kind = "dir"
           /\ \E c \in Kept(item.path) :
                \/ c.path = p /\ IsFile(c)
                \/ c.path \in Above(p) /\ c.kind = "dir"
<1>. DEFINE d == item.path
<1>1. /\ NodeAt(tree, p, FALSE).kind = "file"
      /\ \A q \in {p} \cup Above(p) : ~is_ignored_relative(job.rules, q)
  BY DEF Found, Skips
<1>2. p \in Text /\ Above(p) \subseteq Paths
  BY PathText
<1>3. Lstat(p) = tree[p] /\ tree[p].kind = "file" /\ \A a \in Above(p) : tree[a].kind = "dir"
  BY <1>1, PlainFile DEF Lstat
<1>4. \A a \in Above(p) : Lstat(a) = tree[a]
  <2>. TAKE a \in Above(p)
  <2>1. a \in Paths /\ \A b \in Above(a) : tree[b].kind = "dir"
    BY <1>2, <1>3, AboveTransitive
  <2>. QED
    BY <2>1, PlainPath DEF Lstat
<1>5. PICK c \in {p} \cup Above(p) : Parent(c) = d
  BY NextBelow
<1>6. c \in Paths /\ Lstat(c) = tree[c] /\ Lstat(c).kind # "none"
  BY <1>2, <1>3, <1>4, <1>5
<1>7. [path |-> c, kind |-> tree[c].kind] \in Kept(d)
  BY <1>1, <1>5, <1>6 DEF Kept, Listing
<1>8. c = p => tree[c].kind = "file"
  BY <1>3
<1>9. c # p => c \in Above(p) /\ tree[c].kind = "dir"
  BY <1>3, <1>5
<1>. QED
  BY <1>3, <1>4, <1>7, <1>8, <1>9 DEF IsFile

LEMMA CurrentWalkDirectory ==
    ASSUME CurrentInv, ScanInv, NEW item \in job.todo, WalkDirectory(item)
    PROVE  CurrentInv'
<1>. DEFINE d == item.path
            now == IF d = <<>> THEN "dir" ELSE Lstat(d).kind
            fresh == IF now = "dir" THEN Kept(d) ELSE {}
<1>0. CASE \E failure : Fail(failure)
  BY <1>0, CurrentFail
<1>. SUFFICES ASSUME ~ \E failure : Fail(failure) PROVE CurrentInv'
  BY <1>0
<1>1. /\ UNCHANGED <<tree, ignoreFile, config, known, touched>>
      /\ job.stage = "walk" /\ item.kind = "dir" /\ job.file = NoFile
      /\ job' = [job EXCEPT
            !.paths = IF d = <<>> THEN 0 ELSE @ + 1,
            !.todo = (@ \ {item}) \cup fresh,
            !.part = CASE now = "dir" -> @
                       [] now = "link" -> Diagnosed(@, "Symlink", d)
                       [] OTHER -> Diagnosed(@, "Unreadable", d)]
  BY DEF WalkDirectory, repository
<1>2. JobShape /\ Sound(job.part) /\ Made(job.part)
  BY <1>1 DEF ScanInv, Working
<1>3. /\ Continues /\ job'.file = NoFile
      /\ job'.todo = (job.todo \ {item}) \cup fresh
      /\ job'.part \in {job.part, Diagnosed(job.part, "Symlink", d), Diagnosed(job.part, "Unreadable", d)}
  <2>. HIDE DEF fresh, now
  <2>. QED
    BY <1>1, <1>2 DEF JobShape, Continues
<1>4. job'.part.entries = job.part.entries /\ Alike(job'.part, job.part)
  BY <1>2, <1>3, DiagnosedSound DEF Alike
<1>5. WalkCurrent /\ ItemsCurrent /\ job.rules = from_okfignore(job.part.exact.ignore)
  BY <1>1 DEF CurrentInv, WalkCurrent
<1>6. \A p : PartSettled(p) => PartSettled(p)'
  BY <1>1, <1>4 DEF PartSettled, Alike
<1>7. ASSUME NEW p \in Paths \ job.touched
      PROVE  PartSettled(p)' \/ (p \notin DOMAIN job'.part.entries /\ Pending(p)')
  <2>1. CASE PartSettled(p)
    BY <1>6, <2>1
  <2>2. CASE p \notin DOMAIN job.part.entries /\ Pending(p)
    <3>1. PICK o \in job.todo : \/ o.path = p /\ IsFile(o)
                                \/ o.path \in Above(p) \cup {<<>>} /\ o.kind = "dir"
      BY <2>2 DEF Pending
    <3>2. CASE o # item
      <4>1. o \in job'.todo
        BY <1>3, <3>2
      <4>. QED
        BY <1>4, <2>2, <3>1, <4>1 DEF Pending
    <3>3. CASE o = item
      <4>1. item.path \in Above(p) \cup {<<>>}
        BY <1>1, <3>1, <3>3 DEF IsFile
      <4>2. CASE Linked(tree, p) \/ Found(NodeAt(tree, p, FALSE), p, job.part.exact) = {}
        <5>1. job.part.exact \in job.part.made
          BY <1>2 DEF Made
        <5>2. PartSettled(p)
          BY <2>2, <4>2, <5>1, AbsentSettled DEF PartSettled
        <5>. QED
          BY <1>6, <5>2
      <4>3. CASE ~Linked(tree, p) /\ Found(NodeAt(tree, p, FALSE), p, job.part.exact) # {}
        <5>2. /\ item.path # <<>> => Lstat(item.path).kind = "dir"
              /\ \E c \in Kept(item.path) :
                   \/ c.path = p /\ IsFile(c)
                   \/ c.path \in Above(p) /\ c.kind = "dir"
          BY <1>5, <4>1, <4>3, PendingListed
        <5>3. fresh = Kept(item.path)
          BY <5>2
        <5>4. \E c \in job'.todo : \/ c.path = p /\ IsFile(c)
                                   \/ c.path \in Above(p) /\ c.kind = "dir"
          BY <1>3, <5>2, <5>3
        <5>. HIDE DEF fresh, now
        <5>. QED
          BY <1>4, <2>2, <5>4 DEF Pending
      <4>. QED
        BY <4>2, <4>3
    <3>. QED
      BY <3>2, <3>3
  <2>3. ~Reading(p)
    BY <1>1 DEF Reading, NoFile
  <2>. QED
    BY <1>5, <2>1, <2>2, <2>3 DEF WalkCurrent
<1>8. ASSUME NEW c \in fresh
      PROVE  /\ c.path \in Paths /\ c.kind = NodeAt(tree, c.path, FALSE).kind /\ c.kind # "none"
             /\ \A q \in {c.path} \cup Above(c.path) : ~Skips(job.part.exact.ignore, q)
  <2>1. /\ c.path \in Paths /\ Parent(c.path) = d /\ ~is_ignored_relative(job.rules, c.path)
        /\ c.kind = Lstat(c.path).kind /\ c.kind # "none"
    BY DEF Kept, Listing
  <2>2. \A q \in {c.path} \cup Above(c.path) : q = c.path \/ (d # <<>> /\ q \in {d} \cup Above(d))
    BY <2>1, AboveParent
  <2>3. d # <<>> => \A q \in {d} \cup Above(d) : ~Skips(job.part.exact.ignore, q)
    BY <1>5 DEF ItemsCurrent
  <2>. QED
    BY <1>5, <2>1, <2>2, <2>3 DEF Skips, Lstat
<1>. HIDE DEF fresh, now
<1>9. ItemsCurrent'
  <2>1. job'.part.exact = job.part.exact /\ job'.touched = job.touched /\ tree' = tree
    BY <1>3, <1>4 DEF Alike, Continues
  <2>2. \A c \in job'.todo : c \in job.todo \/ c \in fresh
    BY <1>3
  <2>. QED
    BY <1>5, <1>8, <2>1, <2>2 DEF ItemsCurrent
<1>10. WalkCurrent'
  <2>1. job'.touched = job.touched
    BY <1>3 DEF Continues
  <2>. QED
    BY <1>7, <1>9, <2>1 DEF WalkCurrent
<1>11. FileCurrent'
  BY <1>3 DEF FileCurrent
<1>. QED
  BY <1>1, <1>3, <1>4, <1>10, <1>11, CurrentContinues

LEMMA CurrentWalkEntry ==
    ASSUME CurrentInv, ScanInv, NEW item \in job.todo, WalkEntry(item)
    PROVE  CurrentInv'
<1>. DEFINE x == item.path
            now == Lstat(x)
            opens == IsFile(item) /\ now.kind \in {"file", "locked", "dir", "other"}
<1>0. CASE \E failure : Fail(failure)
  BY <1>0, CurrentFail
<1>. SUFFICES ASSUME ~ \E failure : Fail(failure) PROVE CurrentInv'
  BY <1>0
<1>1. /\ Continues /\ job.stage = "walk" /\ job.file = NoFile
      /\ item.kind # "dir" /\ x \in Paths
      /\ job'.todo = job.todo \ {item}
      /\ Alike(job'.part, job.part) /\ job'.part.entries = job.part.entries
      /\ opens => job'.file = Opened(x)
      /\ ~opens => job'.file = NoFile
  BY WalkEntryEffect
<1>2. /\ tree' = tree /\ job'.touched = job.touched /\ job'.part.exact = job.part.exact
      /\ job'.part.made = job.part.made
  BY <1>1 DEF Continues, Alike
<1>3. WalkCurrent /\ ItemsCurrent
  BY <1>1 DEF CurrentInv, WalkCurrent
<1>4. /\ \A q \in {x} \cup Above(x) : ~Skips(job.part.exact.ignore, q)
      /\ x \notin job.touched => now.kind = item.kind
  <2>1. x # <<>>
    BY <1>1, ScanAssumption
  <2>. QED
    BY <1>1, <1>3, <2>1 DEF ItemsCurrent, Lstat
<1>5. \A p : PartSettled(p) => PartSettled(p)'
  BY <1>1, <1>2 DEF PartSettled
<1>6. ASSUME NEW p \in Paths \ job.touched
      PROVE  PartSettled(p)' \/ (p \notin DOMAIN job'.part.entries /\ (Pending(p)' \/ Reading(p)'))
  <2>1. CASE PartSettled(p)
    BY <1>5, <2>1
  <2>2. CASE p \notin DOMAIN job.part.entries /\ Pending(p)
    <3>1. PICK o \in job.todo : \/ o.path = p /\ IsFile(o)
                                \/ o.path \in Above(p) \cup {<<>>} /\ o.kind = "dir"
      BY <2>2 DEF Pending
    <3>2. CASE o # item
      <4>1. o \in job'.todo
        BY <1>1, <3>2
      <4>. QED
        BY <1>1, <2>2, <3>1, <4>1 DEF Pending
    <3>3. CASE o = item
      <4>1. p = x /\ IsFile(item)
        BY <1>1, <3>1, <3>3
      <4>2. opens
        BY <1>4, <4>1 DEF IsFile
      <4>3. Reading(p)'
        BY <1>1, <4>1, <4>2 DEF Reading, Opened
      <4>. QED
        BY <1>1, <2>2, <4>3
    <3>. QED
      BY <3>2, <3>3
  <2>3. ~Reading(p)
    BY <1>1 DEF Reading, NoFile
  <2>. QED
    BY <1>3, <2>1, <2>2, <2>3 DEF WalkCurrent
<1>7. WalkCurrent'
  <2>1. ItemsCurrent'
    BY <1>1, <1>2, <1>3 DEF ItemsCurrent
  <2>. QED
    BY <1>2, <1>6, <2>1 DEF WalkCurrent
<1>8. FileCurrent'
  <2>1. CASE ~opens
    BY <1>1, <2>1 DEF FileCurrent
  <2>2. CASE opens
    <3>0. job'.file = Opened(x)
      BY <1>1, <2>2
    <3>1. /\ job'.file.path = x /\ job'.file.step = "read"
          /\ job'.file.to = Leads(tree, x, FALSE)
      BY <3>0 DEF Opened
    <3>2. ASSUME x \notin job.touched PROVE StandsAt(tree, job'.file)
      <4>1. NodeAt(tree, x, FALSE).kind \in {"file", "locked"}
        BY <1>4, <2>2, <3>2 DEF IsFile, Lstat
      <4>2. ~Linked(tree, x) => job'.file.to = x
        BY <1>1, <3>1, PlainFile
      <4>. QED
        BY <3>1, <4>1, <4>2 DEF StandsAt
    <3>. QED
      BY <1>1, <1>2, <1>4, <3>1, <3>2 DEF FileCurrent
  <2>. QED
    BY <2>1, <2>2
<1>. QED
  BY <1>1, <1>7, <1>8, CurrentContinues

\* A scan whose file was dismissed or became an entry.
LEMMA CurrentReadOn ==
    ASSUME NEW x, x = job.file.path, CurrentInv, Continues, job.stage \in {"walk", "apply"}, job.file # NoFile,
           Alike(job'.part, job.part), job'.todo = job.todo, job'.left = job.left,
           job'.file # NoFile => job'.file.path = x /\ job'.file.step # "none"
                                 /\ job'.part.entries = job.part.entries,
           job'.file = NoFile /\ x \in Paths \ job.touched => PartSettled(x)',
           \A p \in Paths \ {x} : Has(job'.part.entries, p) = Has(job.part.entries, p),
           FileCurrent'
    PROVE  CurrentInv'
<1>1. /\ tree' = tree /\ job'.touched = job.touched /\ job'.part.exact = job.part.exact
      /\ job'.part.made = job.part.made /\ job'.stage = job.stage
  BY DEF Continues, Alike
<1>2. \A p : Pending(p) => Pending(p)'
  BY DEF Pending
<1>3. \A p \in Paths \ {x} : /\ PartSettled(p) => PartSettled(p)'
                             /\ p \notin DOMAIN job.part.entries <=> p \notin DOMAIN job'.part.entries
                             /\ ~Reading(p)
  <2>. TAKE p \in Paths \ {x}
  <2>1. p \in DOMAIN job.part.entries <=> p \in DOMAIN job'.part.entries
    BY DEF Has
  <2>. QED
    BY <1>1, <2>1 DEF PartSettled, Settled, Reading
<1>4. ASSUME x \in Paths \ job.touched, job'.file # NoFile
      PROVE  Reading(x)' /\ (PartSettled(x) => PartSettled(x)') /\ job'.part.entries = job.part.entries
  BY <1>1, <1>4 DEF PartSettled, Reading
<1>5. ASSUME job.stage = "walk" PROVE WalkCurrent'
  <2>1. WalkCurrent /\ ItemsCurrent
    BY <1>5 DEF CurrentInv, WalkCurrent
  <2>2. ItemsCurrent'
    BY <1>1, <2>1 DEF ItemsCurrent
  <2>3. ASSUME NEW p \in Paths \ job.touched
        PROVE  PartSettled(p)' \/ (p \notin DOMAIN job'.part.entries /\ (Pending(p)' \/ Reading(p)'))
    <3>1. CASE p # x
      BY <1>2, <1>3, <2>1, <3>1 DEF WalkCurrent
    <3>2. CASE p = x /\ job'.file # NoFile
      BY <1>4, <2>1, <3>2 DEF WalkCurrent
    <3>3. CASE p = x /\ job'.file = NoFile
      BY <3>3
    <3>. QED
      BY <3>1, <3>2, <3>3
  <2>. QED
    BY <1>1, <2>2, <2>3 DEF WalkCurrent
<1>6. ASSUME job.stage = "apply" PROVE ApplyCurrent'
  <2>1. ApplyCurrent
    BY <1>6 DEF CurrentInv
  <2>2. ASSUME NEW p \in Paths \ (job.left \cup job.touched)
        PROVE  PartSettled(p)' \/ (p \notin DOMAIN job'.part.entries /\ Reading(p)')
    <3>1. CASE p # x
      BY <1>3, <2>1, <3>1 DEF ApplyCurrent
    <3>2. CASE p = x /\ job'.file # NoFile
      BY <1>4, <2>1, <3>2 DEF ApplyCurrent
    <3>3. CASE p = x /\ job'.file = NoFile
      BY <3>3
    <3>. QED
      BY <3>1, <3>2, <3>3
  <2>. QED
    BY <1>1, <2>2 DEF ApplyCurrent
<1>. QED
  BY <1>5, <1>6, CurrentContinues

LEMMA CurrentReadFile ==
    ASSUME CurrentInv, ScanInv, ReadFile
    PROVE  CurrentInv'
<1>0. CASE \E failure : Fail(failure)
  BY <1>0, CurrentFail
<1>. SUFFICES ASSUME ~ \E failure : Fail(failure), NEW x, x = job.file.path PROVE CurrentInv'
  BY <1>0
<1>. DEFINE now == Stat(job.file.to)
<1>1. /\ Continues /\ job.stage \in {"walk", "apply"}
      /\ job.file # NoFile /\ job.file.step = "read"
      /\ job'.todo = job.todo /\ job'.left = job.left
      /\ Alike(job'.part, job.part) /\ job'.part.entries = job.part.entries
      /\ now.kind \notin {"file", "outside"} => job'.file = NoFile
      /\ now.kind \in {"file", "outside"} =>
            job'.file = [job.file EXCEPT !.step = "keep", !.source = now.source]
  BY ReadFileEffect
<1>2. /\ tree' = tree /\ job'.touched = job.touched /\ job'.part.exact = job.part.exact
      /\ job'.part.made = job.part.made
  BY <1>1 DEF Continues, Alike
<1>3. /\ FileCurrent /\ x \notin DOMAIN job.part.entries /\ job.part.exact \in job.part.made
      /\ job.file = [step |-> "read", path |-> x, to |-> job.file.to, source |-> job.file.source]
  BY <1>1 DEF CurrentInv, ScanInv, Working, Filed, Made
<1>4. ASSUME x \in Paths \ job.touched, ~Linked(tree, x)
      PROVE  job.file.to = x /\ now = NodeAt(tree, x, FALSE)
  <2>1. StandsAt(tree, job.file)
    BY <1>1, <1>4 DEF FileCurrent, CurrentInv
  <2>2. job.file.to = x /\ NodeAt(tree, x, FALSE).kind \in {"file", "locked"}
    BY <1>4, <2>1 DEF StandsAt
  <2>3. NodeAt(tree, x, TRUE) = NodeAt(tree, x, FALSE)
    BY <1>4, <2>2, PlainFile
  <2>. QED
    BY <2>2, <2>3 DEF Stat
<1>5. CASE now.kind \notin {"file", "outside"}
  <2>1. ASSUME x \in Paths \ job.touched PROVE PartSettled(x)'
    <3>1. Linked(tree, x) \/ Found(NodeAt(tree, x, FALSE), x, job.part.exact) = {}
      BY <1>4, <1>5, <2>1, NothingFound
    <3>2. Settled(tree, job.part.entries, x, job.part.made)
      BY <1>3, <3>1, AbsentSettled
    <3>. QED
      BY <1>1, <1>2, <3>2 DEF PartSettled
  <2>2. FileCurrent'
    BY <1>1, <1>5 DEF FileCurrent
  <2>. QED
    BY <1>1, <1>5, <2>1, <2>2, CurrentReadOn
<1>6. CASE now.kind \in {"file", "outside"}
  <2>1. /\ job'.file.step = "keep" /\ job'.file.path = x /\ job'.file.to = job.file.to
        /\ job'.file.source = now.source
    <3>. DEFINE source == now.source
    <3>1. job'.file = [job.file EXCEPT !.step = "keep", !.source = source]
      BY <1>1, <1>6
    <3>. HIDE DEF source
    <3>2. job'.file = [step |-> "keep", path |-> x, to |-> job.file.to, source |-> source]
      BY <1>3, <3>1
    <3>. QED
      BY <3>2 DEF source
  <2>2. job'.file # NoFile
    BY <2>1 DEF NoFile
  <2>3. ASSUME x \in Paths \ job.touched PROVE StandsAt(tree, job'.file)
    <3>1. StandsAt(tree, job.file)
      BY <1>1, <1>3, <2>3 DEF FileCurrent
    <3>2. CASE Linked(tree, x)
      BY <2>1, <3>1, <3>2 DEF StandsAt
    <3>3. CASE ~Linked(tree, x)
      <4>1. job.file.to = x /\ now = NodeAt(tree, x, FALSE)
        BY <1>4, <2>3, <3>3
      <4>2. NodeAt(tree, x, FALSE).kind \in {"file", "locked"}
        BY <3>1, <3>3 DEF StandsAt
      <4>3. NodeAt(tree, x, FALSE).kind = "file"
        BY <1>6, <4>1, <4>2
      <4>. QED
        BY <2>1, <3>3, <4>1, <4>3 DEF StandsAt
    <3>. QED
      BY <3>2, <3>3
  <2>4. FileCurrent'
    BY <1>1, <1>2, <1>3, <2>1, <2>3 DEF FileCurrent
  <2>. HIDE DEF now
  <2>. QED
    BY <1>1, <2>1, <2>2, <2>4, CurrentReadOn
<1>. QED
  BY <1>5, <1>6

LEMMA CurrentKeepFile ==
    ASSUME CurrentInv, ScanInv, KeepFile
    PROVE  CurrentInv'
<1>. SUFFICES ASSUME NEW x, x = job.file.path, NEW source, source = job.file.source PROVE CurrentInv'
  OBVIOUS
<1>. DEFINE now == NodeAt(tree, x, FALSE)
            kept == ~(now.kind = "link" \/ ~source.utf8)
<1>1. /\ Continues /\ job.stage \in {"walk", "apply"}
      /\ job.file # NoFile /\ job.file.step = "keep" /\ job'.file = NoFile
      /\ job'.todo = job.todo /\ job'.left = job.left
      /\ x \notin DOMAIN job.part.entries
      /\ Alike(job'.part, job.part)
      /\ job'.part.entries = IF kept THEN With(job.part.entries, x, Entry(config, x, source))
                             ELSE job.part.entries
  BY KeepFileEffect DEF Lstat
<1>2. /\ tree' = tree /\ job'.touched = job.touched /\ job'.part.exact = job.part.exact
      /\ job'.part.made = job.part.made
  BY <1>1 DEF Continues, Alike
<1>3. FileCurrent /\ job.part.exact \in job.part.made /\ job.part.exact.config = config
  BY <1>1 DEF CurrentInv, ScanInv, Working, Made
<1>4. \A p \in Paths \ {x} : Has(job'.part.entries, p) = Has(job.part.entries, p)
  <2>. HIDE DEF kept
  <2>. QED
    BY <1>1 DEF Has, With
<1>5. ASSUME x \in Paths \ job.touched PROVE Settled(tree, job'.part.entries, x, job.part.made)
  <2>1. now.kind \notin {"none", "dir"}
    BY <1>1, <1>3, <1>5 DEF FileCurrent, StandsAt
  <2>2. CASE Linked(tree, x)
    BY <2>1, <2>2 DEF Settled
  <2>3. CASE ~Linked(tree, x)
    <3>1. now.kind = "file" /\ source = now.source
      BY <1>1, <1>3, <1>5, <2>3 DEF FileCurrent, StandsAt
    <3>2. \A q \in {x} \cup Above(x) : ~Skips(job.part.exact.ignore, q)
      BY <1>1, <1>3, <1>5 DEF FileCurrent
    <3>. HIDE DEF now
    <3>3. Found(now, x, job.part.exact) =
            IF source.utf8 THEN {Entry(config, x, source)} ELSE {}
      BY <1>3, <3>1, <3>2 DEF Found
    <3>4. kept <=> source.utf8
      BY <3>1
    <3>5. Has(job'.part.entries, x) = IF source.utf8 THEN {Entry(config, x, source)} ELSE {}
      <4>. HIDE DEF kept
      <4>. QED
        BY <1>1, <3>4 DEF Has, With
    <3>. QED
      BY <1>3, <2>3, <3>3, <3>5 DEF Settled, now
  <2>. QED
    BY <2>2, <2>3
<1>6. FileCurrent'
  BY <1>1 DEF FileCurrent
<1>7. x \in Paths \ job.touched => PartSettled(x)'
  BY <1>2, <1>5 DEF PartSettled
<1>. HIDE DEF kept, now
<1>. QED
  BY <1>1, <1>4, <1>6, <1>7, CurrentReadOn

LEMMA CurrentApplyPath ==
    ASSUME AgreeingRules, CurrentInv, ScanInv, NEW x \in job.left, ApplyPath(x)
    PROVE  CurrentInv'
<1>. DEFINE now == NodeAt(tree, x, FALSE)
            ignored == x = <<".okfignore">> \/ is_ignored_relative(job.rules, x)
            opens == ~ignored /\ IsFile(now)
<1>0. CASE \E failure : Fail(failure)
  BY <1>0, CurrentFail
<1>. SUFFICES ASSUME ~ \E failure : Fail(failure) PROVE CurrentInv'
  BY <1>0
<1>1. /\ Continues /\ job.stage = "apply" /\ job.file = NoFile
      /\ job'.left = job.left \ {x}
      /\ Alike(job'.part, job.part) /\ job'.part.entries = Without(job.part.entries, x)
      /\ ~opens => job'.file = NoFile
      /\ opens => job'.file = Opened(x)
  BY ApplyPathEffect DEF Lstat
<1>2. /\ tree' = tree /\ job'.touched = job.touched /\ job'.part.exact = job.part.exact
      /\ job'.part.made = job.part.made
  BY <1>1 DEF Continues, Alike
<1>3. /\ ApplyCurrent /\ Readable(job.part.exact)
      /\ job.rules = from_okfignore(job.part.exact.ignore) /\ job.part.exact \in job.part.made
  BY <1>1 DEF CurrentInv, ScanInv, Working, Made
<1>4. ASSUME NEW p \in Paths \ ((job.left \ {x}) \cup job.touched)
      PROVE  PartSettled(p)' \/ (p \notin DOMAIN job'.part.entries /\ Reading(p)')
  <2>1. CASE p # x
    <3>1. Has(job'.part.entries, p) = Has(job.part.entries, p)
          /\ (p \in DOMAIN job'.part.entries <=> p \in DOMAIN job.part.entries)
      BY <1>1, <2>1 DEF Has, Without
    <3>2. ~Reading(p)
      BY <1>1 DEF Reading, NoFile
    <3>3. Settled(tree, job.part.entries, p, job.part.made)
      BY <1>3, <2>1, <3>2 DEF ApplyCurrent, PartSettled
    <3>4. Settled(tree, job'.part.entries, p, job.part.made)
      BY <3>1, <3>3 DEF Settled
    <3>. QED
      BY <1>2, <3>4 DEF PartSettled
  <2>2. CASE p = x /\ opens
    <3>1. Reading(p)'
      BY <1>1, <2>2 DEF Reading, Opened
    <3>. QED
      BY <1>1, <2>2, <3>1 DEF Without
  <2>3. CASE p = x /\ ~opens
    <3>1. p \notin DOMAIN job'.part.entries
      BY <1>1, <2>3 DEF Without
    <3>2. p # <<".okfignore">>
      BY ScanAssumption
    <3>3. Skips(job.part.exact.ignore, x) \/ ~IsFile(now)
      BY <1>3, <2>3, <3>2 DEF Skips
    <3>4. Found(now, x, job.part.exact) = {}
      BY <3>3 DEF Found, IsFile
    <3>5. Settled(tree, job'.part.entries, p, job.part.made)
      BY <1>3, <2>3, <3>1, <3>4, AbsentSettled
    <3>. QED
      BY <1>2, <3>5 DEF PartSettled
  <2>. QED
    BY <2>1, <2>2, <2>3
<1>5. ApplyCurrent'
  BY <1>1, <1>2, <1>4 DEF ApplyCurrent
<1>6. FileCurrent'
  <2>1. CASE ~opens
    BY <1>1, <2>1 DEF FileCurrent
  <2>2. CASE opens
    <3>0. job'.file = Opened(x)
      BY <1>1, <2>2
    <3>1. job'.file.path = x /\ job'.file.step = "read" /\ job'.file.to = Leads(tree, x, FALSE)
      BY <3>0 DEF Opened
    <3>2. ASSUME x \in Paths PROVE \A q \in {x} \cup Above(x) : ~Skips(job.part.exact.ignore, q)
      <4>1. ~Skips(job.part.exact.ignore, x)
        BY <1>3, <2>2 DEF Skips
      <4>. QED
        BY <1>3, <3>2, <4>1 DEF AgreeingRules, Readable
    <3>3. ASSUME x \in Paths PROVE StandsAt(tree, job'.file)
      <4>1. now.kind \in {"file", "locked"}
        BY <2>2 DEF IsFile
      <4>2. ~Linked(tree, x) => job'.file.to = x
        BY <3>1, <3>3, PlainFile
      <4>. QED
        BY <3>1, <4>1, <4>2 DEF StandsAt
    <3>. QED
      BY <1>2, <3>1, <3>2, <3>3 DEF FileCurrent
  <2>. QED
    BY <2>1, <2>2
<1>. QED
  BY <1>1, <1>5, <1>6, CurrentContinues

LEMMA CurrentFinish ==
    ASSUME CurrentInv, ScanInv, Finish
    PROVE  CurrentInv'
<1>1. /\ UNCHANGED <<tree, ignoreFile, config>> /\ touched' = job.touched
      /\ job.stage \in {"walk", "apply"} /\ job.todo = {} /\ job.left = {} /\ job.file = NoFile
      /\ job' = Idle
      /\ known'.entries = job.part.entries /\ known'.made = job.part.made
  BY FinishEffect DEF Alike
<1>2. \A p : ~Reading(p)
  BY <1>1 DEF Reading, NoFile
<1>3. ASSUME NEW p \in Paths \ job.touched
      PROVE  Settled(tree, job.part.entries, p, job.part.made)
  <2>1. CASE job.stage = "walk"
    <3>1. ~Pending(p)
      BY <1>1 DEF Pending
    <3>. QED
      BY <1>2, <2>1, <3>1 DEF CurrentInv, WalkCurrent, PartSettled
  <2>2. CASE job.stage = "apply"
    BY <1>1, <1>2, <2>2 DEF CurrentInv, ApplyCurrent, PartSettled
  <2>. QED
    BY <1>1, <2>1, <2>2
<1>4. KnownCurrent'
  BY <1>1, <1>3 DEF KnownCurrent
<1>. QED
  BY <1>1, <1>4 DEF CurrentInv, Idle

LEMMA CurrentMeanwhile ==
    ASSUME CurrentInv, ScanInv,
           \/ \E e \in Edits : EditTree(e.path, e.node)
           \/ \E file \in IgnoreFiles : EditIgnore(file)
           \/ \E c \in Configs : Configure(c)
    PROVE  CurrentInv'
<1>1. ASSUME NEW e \in Edits, EditTree(e.path, e.node) PROVE CurrentInv'
  <2>. DEFINE seen == Seen(e.path, e.node)
  <2>1. /\ UNCHANGED <<ignoreFile, config, known>> /\ touched' = touched \cup seen
        /\ job' = IF job = Idle THEN Idle ELSE [job EXCEPT !.touched = @ \cup seen]
    BY <1>1 DEF EditTree
  <2>2. \A p \in Paths \ seen : Unseen(tree, tree', p)
    BY <1>1, EditUnseen
  <2>. HIDE DEF seen
  <2>3. \A entries, p, made : p \in Paths \ seen /\ made # {} /\ Settled(tree, entries, p, made)
                                => Settled(tree', entries, p, made)
    BY <2>2, SettledUnseen
  <2>4. JobShape
    BY DEF ScanInv, Working
  <2>5. /\ job'.op = job.op /\ job'.stage = job.stage /\ job'.evidence = job.evidence
        /\ job'.rules = job.rules /\ job'.part = job.part /\ job'.todo = job.todo /\ job'.left = job.left
        /\ job'.file = job.file
    BY <2>1, <2>4 DEF JobShape
  <2>6. job.op # "idle" \/ job.stage # "idle" => job'.touched = job.touched \cup seen
    BY <2>1, <2>4 DEF JobShape, Idle
  <2>7. KnownCurrent'
    <3>. SUFFICES ASSUME known # NoSnapshot, NEW p \in Paths \ touched'
         PROVE  Settled(tree', known.entries, p, known.made)
      BY <2>1 DEF KnownCurrent
    <3>1. known.made # {} /\ Settled(tree, known.entries, p, known.made)
      BY <2>1 DEF CurrentInv, KnownCurrent, ScanInv, Surroundings, Made
    <3>. QED
      BY <2>1, <2>3, <3>1
  <2>8. ASSUME job.stage \in {"walk", "apply"}
        PROVE  /\ job'.touched = job.touched \cup seen /\ FileCurrent'
               /\ \A p \in Paths \ seen : PartSettled(p) => PartSettled(p)'
               /\ \A p : Reading(p) => Reading(p)'
    <3>1. job'.touched = job.touched \cup seen
      BY <2>6, <2>8
    <3>2. job.part.made # {}
      BY <2>8 DEF ScanInv, Working, Made
    <3>3. \A p \in Paths \ seen : PartSettled(p) => PartSettled(p)'
      BY <2>3, <2>5, <3>2 DEF PartSettled
    <3>4. \A p : Reading(p) => Reading(p)'
      BY <2>5 DEF Reading
    <3>5. ASSUME job.file.path \in Paths \ seen, StandsAt(tree, job.file)
          PROVE  StandsAt(tree', job.file)
      BY <2>2, <3>5, StandsUnseen
    <3>6. FileCurrent
      BY <2>8 DEF CurrentInv
    <3>7. FileCurrent'
      BY <2>5, <3>1, <3>5, <3>6 DEF FileCurrent
    <3>. QED
      BY <3>1, <3>3, <3>4, <3>7
  <2>9. job'.stage = "apply" => ApplyCurrent'
    BY <2>5, <2>8 DEF CurrentInv, ApplyCurrent
  <2>10. job'.stage = "walk" => WalkCurrent'
    <3>. SUFFICES ASSUME job.stage = "walk" PROVE WalkCurrent'
      BY <2>5
    <3>1. WalkCurrent /\ ItemsCurrent /\ Walking
      BY DEF CurrentInv, WalkCurrent, ScanInv, Working
    <3>2. \A p : Pending(p) => Pending(p)'
      BY <2>5 DEF Pending
    <3>3. ASSUME NEW item \in job.todo, item.path # <<>>, item.kind # "dir", item.path \notin job'.touched
          PROVE  NodeAt(tree', item.path, FALSE).kind = item.kind
      <4>1. item.path \in Paths \ seen /\ item.path \notin job.touched
        BY <2>8, <3>1, <3>3 DEF Walking, Apart
      <4>2. NodeAt(tree, item.path, FALSE).kind = item.kind /\ item.kind \notin {"none", "dir"}
        BY <3>1, <3>3, <4>1 DEF ItemsCurrent
      <4>3. View(tree, item.path) = View(tree', item.path)
        BY <2>2, <4>1, <4>2 DEF Unseen
      <4>. QED
        BY <4>2, <4>3 DEF View
    <3>4. ItemsCurrent'
      BY <2>5, <3>1, <3>3 DEF ItemsCurrent
    <3>. QED
      BY <2>5, <2>8, <3>1, <3>2, <3>4 DEF WalkCurrent
  <2>. QED
    BY <2>1, <2>5, <2>6, <2>7, <2>8, <2>9, <2>10 DEF CurrentInv
<1>2. ASSUME \/ \E file \in IgnoreFiles : EditIgnore(file)
             \/ \E c \in Configs : Configure(c)
      PROVE  CurrentInv'
  <2>1. UNCHANGED <<tree, known, touched, job>> /\ ignoreFile' \in IgnoreFiles \cup {ignoreFile}
    BY <1>2 DEF EditIgnore, Configure
  <2>2. ignoreFile' \in Files
    BY <2>1 DEF CurrentInv, Files
  <2>. QED
    BY <2>1, <2>2, CurrentStays
<1>. QED
  BY <1>1, <1>2

LEMMA CurrentStep ==
    ASSUME AgreeingRules, CurrentInv, ScanInv, [Next]_vars
    PROVE  CurrentInv'
<1>1. ASSUME InvalidEvidence \/ BadIgnore \/ SnapshotTooLarge PROVE CurrentInv'
  <2>1. \E failure : Fail(failure)
    BY <1>1 DEF InvalidEvidence, BadIgnore, SnapshotTooLarge
  <2>. QED
    BY <2>1, CurrentFail
<1>2. ASSUME Finish PROVE CurrentInv'
  BY <1>2, CurrentFinish
<1>3. ASSUME UNCHANGED vars PROVE CurrentInv'
  <2>1. UNCHANGED <<tree, known, touched, job>> /\ ignoreFile' \in Files
    BY <1>3 DEF vars, CurrentInv
  <2>. QED
    BY <2>1, CurrentStays
<1>4. ASSUME NEW item \in job.todo, WalkDirectory(item) \/ WalkEntry(item) PROVE CurrentInv'
  BY <1>4, CurrentWalkDirectory, CurrentWalkEntry
<1>5. ASSUME NEW p \in job.left, ApplyPath(p) PROVE CurrentInv'
  BY <1>5, CurrentApplyPath
<1>6. ASSUME BeginScan \/ (\E extra \in Extra : BeginChanged(extra)) \/ CompareInputs \/ Collect
      PROVE  CurrentInv'
  BY <1>6, CurrentBegin
<1>7. ASSUME \/ \E e \in Edits : EditTree(e.path, e.node)
             \/ \E file \in IgnoreFiles : EditIgnore(file)
             \/ \E c \in Configs : Configure(c)
      PROVE  CurrentInv'
  BY <1>7, CurrentMeanwhile
<1>8. ASSUME ReadFile \/ KeepFile PROVE CurrentInv'
  BY <1>8, CurrentReadFile, CurrentKeepFile
<1>9. ASSUME Scanner PROVE CurrentInv'
  BY <1>1, <1>2, <1>4, <1>5, <1>6, <1>8, <1>9 DEF Scanner
<1>. QED
  BY <1>3, <1>6, <1>7, <1>9 DEF Next

\* However full and incremental scans and edits interleave, the snapshot that is carried
\* on has, for every path below no link that the caller did not see change since the scan
\* began, what a full scan under the same rules and configuration would find
\* (scan_changed, apply_changed_path, collect, inputs), as long as the rules ignore what
\* is below the directories they ignore and no two inputs it was made from share a
\* digest; and below a link no entry for what has gone.
THEOREM CarriedAlwaysCurrent == ASSUME AgreeingRules PROVE ScanSpec => []CarriedIsCurrent
<1>1. CurrentInv /\ ScanInv => CarriedIsCurrent
  <2>9. ASSUME CurrentInv, Comparable, NEW p \in Paths \ touched, Linked(tree, p),
               p \in DOMAIN known.entries
        PROVE  Lstat(p).kind \notin {"none", "dir"}
    BY <2>9 DEF Comparable, CurrentInv, KnownCurrent, Settled, Lstat
  <2>. SUFFICES ASSUME CurrentInv, ScanInv, Comparable, NEW p \in Paths \ touched, ~Linked(tree, p)
       PROVE  Carried(p) = Expected(p)
    BY <2>9 DEF CarriedIsCurrent
  <2>. DEFINE here == ExactInputs(ignoreFile)
              now == NodeAt(tree, p, FALSE)
  <2>1. /\ known # NoSnapshot /\ known.inputs = Digests(here)
        /\ ~Collision(known.made \cup {here})
    BY DEF Comparable, inputs
  <2>2. PICK m \in known.made : Has(known.entries, p) = Found(now, p, m)
    BY <2>1 DEF CurrentInv, KnownCurrent, Settled
  <2>3. Digests(m) = Digests(here)
    BY <2>1, <2>2 DEF ScanInv, Surroundings, Made
  <2>. HIDE DEF here, now
  <2>4. Entry(m.config, p, now.source) = Entry(here.config, p, now.source) /\ m.ignore = here.ignore
    BY <2>1, <2>3, SameDigestsSameEntry
  <2>5. Found(now, p, m) = Found(now, p, here)
    BY <2>4 DEF Found
  <2>6. View(tree, p).walk = now
    BY DEF View, now
  <2>7. here.ignore = ignoreFile /\ here.config = config
    BY DEF here, ExactInputs
  <2>8. Found(now, p, here) = Expected(p)
    BY <2>6, <2>7 DEF Found, Expected, Skips
  <2>. QED
    BY <2>2, <2>5, <2>8 DEF Carried, Has
<1>2. CurrentInv /\ ScanInv /\ [Next]_vars => CurrentInv'
  BY CurrentStep
<1>. QED
  BY CurrentInit, ScanAlways, <1>1, <1>2, PTL DEF ScanSpec

\* After an incremental scan with all the evidence the entries are those of a full scan,
\* as the tests of p2_scanner assert of the trees they try, as long as no path leads through
\* a link, the rules agree and no two inputs share a digest.  With a linked
\* directory they need not be: the incremental scan follows the link, the walk does not.
THEOREM IncrementalFullWhenAgreeing ==
    ASSUME AgreeingRules
    PROVE  ScanSpec => []((\A p \in Paths : ~Linked(tree, p)) => IncrementalIsFull)
<1>1. CarriedIsCurrent => ((\A p \in Paths : ~Linked(tree, p)) => IncrementalIsFull)
  BY DEF CarriedIsCurrent, IncrementalIsFull
<1>. QED
  BY CarriedAlwaysCurrent, <1>1, PTL

-----------------------------------------------------------------------------
(* Rules that agree.                                                       *)

DirectoryRules ==
    \A file \in Files :
        IgnoreError(file) = "none" =>
            \A rule \in from_okfignore(file) : rule.directory \/ (~rule.anchored /\ ~rule.has_slash)

LEMMA ComponentsAbove ==
    ASSUME NEW p \in Text, NEW d \in Above(p)
    PROVE  Component(d) \subseteq Component(p)
<1>1. PICK s \in 1 .. Len(p) : /\ p[s] = "/" /\ d \in Text /\ Len(d) = s - 1
                               /\ \A k \in 1 .. (s - 1) : d[k] = p[k]
  BY AboveShape
<1>2. Len(p) \in Nat /\ DOMAIN p = 1 .. Len(p) /\ DOMAIN d = 1 .. (s - 1)
  BY <1>1 DEF Text
<1>3. Slashes(d) \subseteq Slashes(p) /\ Slashes(d) \subseteq 1 .. (s - 1) /\ s \in Slashes(p)
  BY <1>1, <1>2 DEF Slashes
<1>4. ASSUME NEW i \in Slashes(d) \cup {0}, NEW j \in Slashes(d) \cup {Len(d) + 1}
      PROVE  /\ SubSeq(d, i + 1, j - 1) = SubSeq(p, i + 1, j - 1)
             /\ i \in Slashes(p) \cup {0} /\ j \in Slashes(p) \cup {Len(p) + 1}
  <2>1. i \in 0 .. (s - 1) /\ j \in 1 .. s
    BY <1>1, <1>3
  <2>2. SubSeq(d, i + 1, j - 1) = [k \in 1 .. (j - 1 - i) |-> d[k + i]]
    BY <1>1, <2>1 DEF Text
  <2>3. SubSeq(p, i + 1, j - 1) = [k \in 1 .. (j - 1 - i) |-> p[k + i]]
    BY <1>2, <2>1 DEF Text
  <2>4. \A k \in 1 .. (j - 1 - i) : d[k + i] = p[k + i]
    BY <1>1, <2>1
  <2>. QED
    BY <1>1, <1>3, <2>2, <2>3, <2>4
<1>5. ASSUME NEW c \in Components(d) PROVE c \in Components(p)
  <2>1. c # <<>>
    BY DEF Components
  <2>2. PICK i \in Slashes(d) \cup {0}, j \in Slashes(d) \cup {Len(d) + 1} : c = SubSeq(d, i + 1, j - 1)
    BY SMT DEF Components
  <2>3. i \in Slashes(p) \cup {0} /\ j \in Slashes(p) \cup {Len(p) + 1} /\ c = SubSeq(p, i + 1, j - 1)
    BY <1>4, <2>2
  <2>. DEFINE Piece(m, n) == SubSeq(p, m + 1, n - 1)
              starts == Slashes(p) \cup {0}
              ends == Slashes(p) \cup {Len(p) + 1}
  <2>4. i \in starts /\ j \in ends /\ c = Piece(i, j)
    BY <2>3
  <2>5. c \in {Piece(m, n) : m \in starts, n \in ends}
    <3>. HIDE DEF Piece, starts, ends
    <3>. QED
      BY <2>4, SMT
  <2>. QED
    BY <2>1, <2>5, SMT DEF Components
<1>. QED
  BY <1>5 DEF Component

LEMMA BelowAbove ==
    ASSUME NEW p \in Text, NEW d \in Above(p), NEW t \in {d} \cup Below(d)
    PROVE  t \in Text /\ \E u \in {p} \cup Below(p) : u \in Text /\ t \in Above(u)
<1>1. PICK s \in 1 .. Len(p) : /\ p[s] = "/" /\ d \in Text /\ Len(d) = s - 1
                               /\ \A k \in 1 .. (s - 1) : d[k] = p[k]
  BY AboveShape
<1>2. Len(p) \in Nat /\ DOMAIN p = 1 .. Len(p) /\ DOMAIN d = 1 .. (s - 1)
  BY <1>1 DEF Text
<1>3. CASE t = d
  BY <1>1, <1>3
<1>4. CASE t \in Below(d)
  <2>1. PICK i \in Slashes(d) : t = SubSeq(d, i + 1, Len(d))
    BY <1>4 DEF Below
  <2>2. i \in 1 .. (s - 1) /\ i \in Slashes(p)
    BY <1>1, <1>2 DEF Slashes
  <2>. DEFINE u == SubSeq(p, i + 1, Len(p))
  <2>3. /\ u \in Text /\ Len(u) = Len(p) - i /\ DOMAIN u = 1 .. (Len(p) - i)
        /\ \A k \in 1 .. (Len(p) - i) : u[k] = p[k + i]
    <3>1. i + 1 \in Int /\ Len(p) \in Int /\ \A k \in (i + 1) .. Len(p) : p[k] \in STRING
      BY <1>2, <2>2 DEF Text
    <3>2. /\ u \in Seq(STRING)
          /\ Len(u) = IF i + 1 <= Len(p) THEN Len(p) - (i + 1) + 1 ELSE 0
          /\ \A k \in 1 .. (Len(p) - (i + 1) + 1) : u[k] = p[(i + 1) + k - 1]
      BY <3>1, SubSeqProperties
    <3>. HIDE DEF u
    <3>3. i \in Nat /\ i < Len(p) /\ Len(p) \in Nat
      BY <1>2, <2>2
    <3>4. Len(u) = Len(p) - i
      BY <3>2, <3>3
    <3>5. \A k \in 1 .. (Len(p) - i) : u[k] = p[k + i]
      BY <3>2, <3>3
    <3>. QED
      BY <3>2, <3>4, <3>5 DEF Text
  <2>4. u \in Below(p)
    BY <2>2 DEF Below
  <2>5. t = [k \in 1 .. (s - 1 - i) |-> d[k + i]] /\ t \in Text
    <3>1. i + 1 \in Int /\ Len(d) \in Int /\ \A k \in (i + 1) .. Len(d) : d[k] \in STRING
      BY <1>1, <1>2, <2>2 DEF Text
    <3>2. /\ t \in Seq(STRING)
          /\ Len(t) = IF i + 1 <= Len(d) THEN Len(d) - (i + 1) + 1 ELSE 0
          /\ \A k \in 1 .. (Len(d) - (i + 1) + 1) : t[k] = d[(i + 1) + k - 1]
      BY <2>1, <3>1, SubSeqProperties
    <3>3. Len(t) = s - 1 - i
      BY <1>1, <1>2, <2>2, <3>2
    <3>4. \A k \in 1 .. (s - 1 - i) : t[k] = d[k + i]
      BY <1>1, <1>2, <2>2, <3>2
    <3>5. t = [k \in 1 .. Len(t) |-> t[k]]
      BY <3>2
    <3>. QED
      BY <3>2, <3>3, <3>4, <3>5 DEF Text
  <2>. HIDE DEF u
  <2>6. (s - i) \in Slashes(u)
    BY <1>1, <1>2, <2>2, <2>3 DEF Slashes
  <2>7. SubSeq(u, 1, s - i - 1) = [k \in 1 .. (s - 1 - i) |-> u[k]]
    BY <1>1, <2>2, <2>3 DEF Text
  <2>8. \A k \in 1 .. (s - 1 - i) : u[k] = d[k + i]
    BY <1>1, <1>2, <2>2, <2>3
  <2>9. SubSeq(u, 1, (s - i) - 1) = t
    BY <2>5, <2>7, <2>8
  <2>10. t \in Above(u)
    BY <2>6, <2>9 DEF Above
  <2>. QED
    BY <2>3, <2>4, <2>5, <2>10
<1>. QED
  BY <1>3, <1>4

LEMMA TargetBelow ==
    ASSUME NEW u \in Text, NEW t \in Above(u), NEW rule, rule.directory, matches_target(rule, t)
    PROVE  matches_target(rule, u)
BY AboveTransitive DEF matches_target

LEMMA RuleReachesBelow ==
    ASSUME NEW p \in Text, NEW d \in Above(p), NEW rule,
           rule.directory \/ (~rule.anchored /\ ~rule.has_slash), matches(rule, d)
    PROVE  matches(rule, p)
<1>1. CASE rule.anchored
  <2>1. rule.directory /\ matches_target(rule, d)
    BY <1>1 DEF matches
  <2>. QED
    BY <1>1, <2>1, TargetBelow DEF matches
<1>2. CASE ~rule.anchored /\ ~rule.has_slash
  <2>1. \E c \in Component(d) : matches_target(rule, c)
    BY <1>2 DEF matches
  <2>. QED
    BY <1>2, <2>1, ComponentsAbove DEF matches
<1>3. CASE ~rule.anchored /\ rule.has_slash
  <2>1. PICK t \in {d} \cup Below(d) : matches_target(rule, t)
    BY <1>3 DEF matches
  <2>2. PICK u \in {p} \cup Below(p) : u \in Text /\ t \in Above(u)
    BY BelowAbove
  <2>3. rule.directory
    BY <1>3
  <2>4. matches_target(rule, u)
    BY <2>1, <2>2, <2>3, TargetBelow
  <2>. QED
    BY <1>3, <2>4 DEF matches
<1>. QED
  BY <1>1, <1>2, <1>3

\* Rules that end in a slash, and names without one, agree: the two kinds of scan can
\* differ only over an anchored or a nested rule that lacks the slash at its end
\* (Rule::matches, Rule::matches_target).
THEOREM DirectoryRulesAgree == DirectoryRules => AgreeingRules
<1>. SUFFICES ASSUME DirectoryRules, NEW file \in Files, IgnoreError(file) = "none",
                     NEW p \in Paths, NEW d \in Above(p), Skips(file, d)
     PROVE  Skips(file, p)
  BY DEF AgreeingRules
<1>1. p \in Text
  BY PathText
<1>2. CASE \E c \in Component(d) : Len(c) = 1 /\ c[1] \in Builtin
  BY <1>1, <1>2, ComponentsAbove DEF Skips, is_ignored_relative
<1>3. CASE \E rule \in from_okfignore(file) : matches(rule, d)
  <2>1. PICK rule \in from_okfignore(file) : matches(rule, d)
    BY <1>3
  <2>2. rule.directory \/ (~rule.anchored /\ ~rule.has_slash)
    BY DEF DirectoryRules
  <2>3. matches(rule, p)
    BY <1>1, <2>1, <2>2, RuleReachesBelow
  <2>. QED
    BY <2>3 DEF Skips, is_ignored_relative
<1>. QED
  BY <1>2, <1>3 DEF Skips, is_ignored_relative

-----------------------------------------------------------------------------
(* ScanGraph: what a change does to the graph.                             *)

\* The nodes hold every file of the one snapshot that the other one has not, or has
\* otherwise, with all its neighbours.
Covering(s, r, nodes) ==
    \A p \in DOMAIN s.entries :
        \/ p \in DOMAIN r.entries /\ r.entries[p] = s.entries[p]
        \/ <<p>> \in nodes /\ add_neighbors(graph_input(s), <<p>>) \subseteq nodes

LEMMA EdgesOfFiles ==
    ASSUME NEW s, NEW e
    PROVE  e \in graph_input(s).edges <=>
             \E p \in DOMAIN s.entries : e \in FileEdges(p, s.entries[p], DOMAIN s.entries)
BY DEF graph_input

LEMMA EdgeEnds ==
    ASSUME NEW p, NEW entry, NEW present, NEW e \in FileEdges(p, entry, present)
    PROVE  e.source = <<p>>
BY DEF FileEdges, MechanicalEdge

LEMMA Neighbors ==
    ASSUME NEW graph, NEW seed, NEW e \in graph.edges, seed \in {e.source, e.target}
    PROVE  {e.source, e.target} \subseteq add_neighbors(graph, seed)
BY DEF add_neighbors

\* An edge of a file that stays as it is depends on nothing but whether its target is there.
LEMMA EdgeKept ==
    ASSUME NEW p, NEW entry, NEW here, NEW there,
           NEW e \in FileEdges(p, entry, here), e \notin FileEdges(p, entry, there)
    PROVE  \E t : /\ e.target = <<t>> /\ t \in (here \ there) \cup (there \ here)
                  /\ \E f \in FileEdges(p, entry, there) : f.source = e.source /\ f.target = e.target
<1>. DEFINE fact(i) == MechanicalItems(entry)[i]
<1>1. PICK i \in DOMAIN MechanicalItems(entry) : e = MechanicalEdge(p, fact(i), i, here)
  BY DEF FileEdges
<1>2. MechanicalEdge(p, fact(i), i, there) \in FileEdges(p, entry, there)
  BY DEF FileEdges
<1>3. MechanicalEdge(p, fact(i), i, here) # MechanicalEdge(p, fact(i), i, there)
  BY <1>1, <1>2
<1>4. fact(i).key \notin {"symbol", "test"} /\ (fact(i).value \in here) # (fact(i).value \in there)
  BY <1>3 DEF MechanicalEdge
<1>5. e.target = <<fact(i).value>>
  BY <1>1, <1>4 DEF MechanicalEdge
<1>6. /\ MechanicalEdge(p, fact(i), i, there).source = e.source
      /\ MechanicalEdge(p, fact(i), i, there).target = e.target
  BY <1>1 DEF MechanicalEdge
<1>. QED
  BY <1>2, <1>4, <1>5, <1>6

LEMMA EdgesCovered ==
    ASSUME NEW s, NEW r, NEW nodes, Covering(s, r, nodes), Covering(r, s, nodes),
           NEW e \in graph_input(s).edges, e \notin graph_input(r).edges
    PROVE  {e.source, e.target} \subseteq nodes
<1>1. PICK p \in DOMAIN s.entries : e \in FileEdges(p, s.entries[p], DOMAIN s.entries)
  BY EdgesOfFiles
<1>2. e.source = <<p>>
  BY <1>1, EdgeEnds
<1>3. CASE ~(p \in DOMAIN r.entries /\ r.entries[p] = s.entries[p])
  <2>1. add_neighbors(graph_input(s), <<p>>) \subseteq nodes
    BY <1>3 DEF Covering
  <2>. QED
    BY <1>2, <2>1, Neighbors
<1>4. CASE p \in DOMAIN r.entries /\ r.entries[p] = s.entries[p]
  <2>1. e \notin FileEdges(p, s.entries[p], DOMAIN r.entries)
    BY <1>4, EdgesOfFiles
  <2>2. PICK t : /\ e.target = <<t>>
                 /\ t \in (DOMAIN s.entries \ DOMAIN r.entries) \cup (DOMAIN r.entries \ DOMAIN s.entries)
                 /\ \E f \in FileEdges(p, s.entries[p], DOMAIN r.entries) :
                       f.source = e.source /\ f.target = e.target
    BY <1>1, <2>1, EdgeKept
  <2>3. PICK f \in FileEdges(p, s.entries[p], DOMAIN r.entries) : f.source = e.source /\ f.target = e.target
    BY <2>2
  <2>4. f \in graph_input(r).edges
    BY <1>4, <2>3, EdgesOfFiles
  <2>5. CASE t \in DOMAIN s.entries \ DOMAIN r.entries
    <3>1. add_neighbors(graph_input(s), <<t>>) \subseteq nodes
      BY <2>5 DEF Covering
    <3>. QED
      BY <2>2, <3>1, Neighbors
  <2>6. CASE t \in DOMAIN r.entries \ DOMAIN s.entries
    <3>1. add_neighbors(graph_input(r), <<t>>) \subseteq nodes
      BY <2>6 DEF Covering
    <3>2. {f.source, f.target} \subseteq add_neighbors(graph_input(r), <<t>>)
      BY <2>2, <2>3, <2>4, Neighbors
    <3>. QED
      BY <2>3, <3>1, <3>2
  <2>. QED
    BY <2>2, <2>5, <2>6
<1>. QED
  BY <1>3, <1>4

LEMMA FilesCovered ==
    ASSUME NEW s, NEW r, NEW nodes, Covering(s, r, nodes),
           NEW f \in graph_input(s).files, f \notin graph_input(r).files
    PROVE  f.id \in nodes
<1>1. PICK p \in DOMAIN s.entries : f = FileNode(p, s.entries[p])
  BY DEF graph_input
<1>2. ~(p \in DOMAIN r.entries /\ r.entries[p] = s.entries[p])
  BY <1>1 DEF graph_input
<1>3. <<p>> \in nodes
  BY <1>2 DEF Covering
<1>. QED
  BY <1>1, <1>3 DEF FileNode

\* A symbol is the target of the edge that its file has to it.
LEMMA SymbolsCovered ==
    ASSUME NEW s, NEW r, NEW nodes, Covering(s, r, nodes),
           NEW y \in graph_input(s).symbols, y \notin graph_input(r).symbols
    PROVE  y.id \in nodes
<1>1. PICK p \in DOMAIN s.entries : y \in SymbolNodes(p, s.entries[p])
  BY DEF graph_input
<1>2. ~(p \in DOMAIN r.entries /\ r.entries[p] = s.entries[p])
  BY <1>1 DEF graph_input
<1>3. add_neighbors(graph_input(s), <<p>>) \subseteq nodes
  BY <1>2 DEF Covering
<1>4. PICK i \in DOMAIN MechanicalItems(s.entries[p]) :
         /\ MechanicalItems(s.entries[p])[i].key \in {"symbol", "test"}
         /\ y.id = Evidence(p, MechanicalItems(s.entries[p])[i], i)
  BY <1>1 DEF SymbolNodes
<1>. DEFINE e == MechanicalEdge(p, MechanicalItems(s.entries[p])[i], i, DOMAIN s.entries)
<1>5. e \in FileEdges(p, s.entries[p], DOMAIN s.entries)
  BY DEF FileEdges
<1>6. e \in graph_input(s).edges
  BY <1>5, EdgesOfFiles
<1>7. e.source = <<p>> /\ e.target = y.id
  BY <1>4 DEF MechanicalEdge
<1>. HIDE DEF e
<1>. QED
  BY <1>3, <1>6, <1>7, Neighbors

LEMMA GraphsCovered ==
    ASSUME NEW s, NEW r, NEW nodes, Covering(s, r, nodes), Covering(r, s, nodes), NEW n,
           \/ About(graph_input(s), n) # About(graph_input(r), n)
           \/ Incident(graph_input(s), n) # Incident(graph_input(r), n)
    PROVE  n \in nodes
<1>. DEFINE g == graph_input(s)  h == graph_input(r)
<1>1. \A e \in (g.edges \ h.edges) \cup (h.edges \ g.edges) : {e.source, e.target} \subseteq nodes
  BY EdgesCovered
<1>2. \A f \in (g.files \ h.files) \cup (h.files \ g.files) : f.id \in nodes
  BY FilesCovered
<1>3. \A y \in (g.symbols \ h.symbols) \cup (h.symbols \ g.symbols) : y.id \in nodes
  BY SymbolsCovered
<1>. HIDE DEF g, h
<1>4. CASE Incident(g, n) # Incident(h, n)
  <2>1. PICK e \in (g.edges \ h.edges) \cup (h.edges \ g.edges) : n \in {e.source, e.target}
    BY <1>4 DEF Incident
  <2>. QED
    BY <1>1, <2>1
<1>5. CASE About(g, n) # About(h, n)
  <2>1. \/ \E f \in (g.files \ h.files) \cup (h.files \ g.files) : f.id = n
        \/ \E y \in (g.symbols \ h.symbols) \cup (h.symbols \ g.symbols) : y.id = n
    BY <1>5 DEF About
  <2>. QED
    BY <1>2, <1>3, <2>1
<1>. QED
  BY <1>4, <1>5 DEF g, h

LEMMA AffectedIncludes ==
    ASSUME NEW affected, NEW previous, NEW current, NEW a \in affected
    PROVE  LET nodes == affected_graph_nodes(affected, previous, current)
           IN /\ <<a.path>> \in nodes
              /\ a.previous # {} => add_neighbors(previous, <<a.path>>) \subseteq nodes
              /\ a.current # {} => add_neighbors(current, <<a.path>>) \subseteq nodes
<1>. DEFINE Of(b) == {<<b.path>>}
              \cup (IF b.previous # {} THEN add_neighbors(previous, <<b.path>>) ELSE {})
              \cup (IF b.current # {} THEN add_neighbors(current, <<b.path>>) ELSE {})
<1>1. affected_graph_nodes(affected, previous, current) = UNION {Of(b) : b \in affected}
  BY Zenon DEF affected_graph_nodes
<1>2. /\ <<a.path>> \in Of(a)
      /\ a.previous # {} => add_neighbors(previous, <<a.path>>) \subseteq Of(a)
      /\ a.current # {} => add_neighbors(current, <<a.path>>) \subseteq Of(a)
  OBVIOUS
<1>. HIDE DEF Of
<1>3. Of(a) \subseteq UNION {Of(b) : b \in affected}
  BY Zenon
<1>. QED
  BY <1>1, <1>2, <1>3

\* What a report names affected covers all in which the two snapshots differ.
LEMMA ReportCovers ==
    ASSUME ScanInv, Finish, job.op = "changed", ~Collision(known.made \cup known'.made)
    PROVE  LET nodes == affected_graph_nodes(report'.affected, graph_input(known), graph_input(known'))
           IN Covering(known, known', nodes) /\ Covering(known', known, nodes)
<1>. DEFINE old == graph_input(known)
            new == graph_input(known')
            nodes == affected_graph_nodes(report'.affected, old, new)
<1>1. ASSUME NEW p \in DOMAIN known.entries \cup DOMAIN known'.entries,
             ~ /\ p \in DOMAIN known.entries /\ p \in DOMAIN known'.entries
               /\ known'.entries[p] = known.entries[p]
      PROVE  /\ <<p>> \in nodes
             /\ p \in DOMAIN known.entries => add_neighbors(old, <<p>>) \subseteq nodes
             /\ p \in DOMAIN known'.entries => add_neighbors(new, <<p>>) \subseteq nodes
  <2>. DEFINE a == AffectedNode(known, known', p)
  <2>1. report'.reused \subseteq DOMAIN known.entries \cap DOMAIN known'.entries
    BY FinishEffect DEF ScanInv, Surroundings, reused
  <2>2. a \in report'.affected
    BY <1>1, <2>1, FinishReports
  <2>3. /\ a.path = p
        /\ p \in DOMAIN known.entries => a.previous # {}
        /\ p \in DOMAIN known'.entries => a.current # {}
    BY DEF AffectedNode, IdentityOf
  <2>. HIDE DEF a, old, new
  <2>. QED
    BY <2>2, <2>3, AffectedIncludes
<1>. QED
  BY <1>1 DEF Covering

\* The nodes a change is said to affect are enough to bring a graph up to date, when both
\* snapshots have one and no two inputs share a digest: any node that is new, gone or
\* different, or has an edge that is, is among them (affected_graph_nodes, graph_input).
\* A file that stays as it is can have an edge that does not, when its target comes or
\* goes; then the target is affected and the file is its neighbour in the graph that has
\* it.
THEOREM NeighborsAlwaysCovered == ScanSpec => NeighborsCovered
<1>1. ASSUME ScanInv, Finish, job.op = "changed", GraphsCompare, NEW n,
             \/ About(graph_input(known), n) # About(graph_input(known'), n)
             \/ Incident(graph_input(known), n) # Incident(graph_input(known'), n)
      PROVE  n \in affected_graph_nodes(report'.affected, graph_input(known), graph_input(known'))
  <2>1. ~Collision(known.made \cup known'.made)
    BY <1>1 DEF GraphsCompare
  <2>. QED
    BY <1>1, <2>1, ReportCovers, GraphsCovered
<1>2. ScanInv =>
        [Finish /\ job.op = "changed" /\ GraphsCompare =>
           LET old == graph_input(known)
               new == graph_input(known')
               nodes == UNION {{e.source, e.target} : e \in old.edges \cup new.edges}
                          \cup {f.id : f \in old.files \cup new.files}
           IN {n \in nodes : About(old, n) # About(new, n) \/ Incident(old, n) # Incident(new, n)}
                \subseteq affected_graph_nodes(report'.affected, old, new)]_vars
  BY <1>1
<1>. QED
  BY ScanAlways, <1>2, PTL DEF NeighborsCovered
=============================================================================
