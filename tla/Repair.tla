------------------------------- MODULE Repair -------------------------------
(***************************************************************************)
(* RepairCoordinator (bran/crates/bran-core/src/repair/mod.rs) and the two *)
(* CLI commands that drive it: propose a replacement for a file, apply it  *)
(* under a maintainer's authority, revalidate, commit or roll back.        *)
(*                                                                         *)
(* The file system is the target, and one staged and one backup file per   *)
(* attempt (their names carry the process id and a nanosecond nonce).      *)
(* Every file-system call is a step that may fail, the process may die     *)
(* between two steps, and other programs and other applies write the       *)
(* target between any two of them.  What they write while an apply is at   *)
(* work is kept in `unseen', so that a property can say what an apply      *)
(* answers for.                                                            *)
(***************************************************************************)
EXTENDS Naturals

CONSTANTS
    Attempts,    \* propose/apply sequences
    Bytes,       \* contents of a file
    Replacements,\* those somebody proposes
    Identity,    \* ContentIdentity::from_bytes, not collision free
    Absent,      \* no file of that name
    Link,        \* a symbolic link under that name, to any file or to none
    MaxEdits,    \* bounds: edits by other programs,
    MaxFaults    \* failed file-system calls and process deaths

ASSUME RepairAssumption ==
    /\ Absent \notin Bytes /\ Link \notin Bytes /\ Absent # Link
    /\ Bytes # {} /\ Replacements \subseteq Bytes
    /\ Identity \in [Bytes \cup {Absent, Link} -> Nat]
    /\ \A b \in Bytes : Identity[b] # Identity[Absent]
    /\ MaxEdits \in Nat /\ MaxFaults \in Nat

VARIABLES
    target,   \* what the target name holds
    staged,   \* .<name>.tmp.<pid>.<nonce> of each attempt
    backup,   \* .<name>.bak.<pid>.<nonce> of each attempt
    pc,       \* where each attempt is
    proposal, \* its RepairProposal and the digest it will present
    result,   \* its RepairTerminal
    base,     \* ghost: the bytes an edit or a validated repair last put in place
    unseen,   \* ghost: what came under the target name behind each apply's back
    edits, faults

repairVars == <<target, staged, backup, pc, proposal, result, base, unseen, edits, faults>>

NoProposal == [content |-> Absent, original |-> Absent, presented |-> <<0, 0>>]

\* compute_digest of the plan and source identities.
digest(content, original) == <<Identity[content], Identity[original]>>

RepairInit ==
    /\ target \in Bytes \cup {Absent}
    /\ staged = [n \in Attempts |-> Absent]
    /\ backup = [n \in Attempts |-> Absent]
    /\ pc = [n \in Attempts |-> "new"]
    /\ proposal = [n \in Attempts |-> NoProposal]
    /\ result = [n \in Attempts |-> "none"]
    /\ base = target
    /\ unseen = [n \in Attempts |-> {}]
    /\ edits = 0
    /\ faults = 0

-----------------------------------------------------------------------------

At(n, step) == pc[n] = step
Goto(n, step) ==
    /\ pc' = [pc EXCEPT ![n] = step]
    /\ UNCHANGED result
Returns(n, terminal) ==
    /\ pc' = [pc EXCEPT ![n] = "returned"]
    /\ result' = [result EXCEPT ![n] = terminal]

Snapshot(n, content, original, presented) ==
    proposal' = [proposal EXCEPT ![n] =
                     [content |-> content, original |-> original, presented |-> presented]]

Succeeds == UNCHANGED faults
Fails == faults < MaxFaults /\ faults' = faults + 1

\* From the link check of apply to its return.
Replacing == {"comparing", "stage", "probe", "displace", "install", "validate",
              "commit", "remove", "restore", "undo", "sweep"}

\* What is written under the target name is news to every other running apply.
Writes(writers, bytes) ==
    /\ target' = bytes
    /\ unseen' = [m \in Attempts |->
                     IF pc[m] \in Replacing /\ m \notin writers
                     THEN unseen[m] \cup {bytes} ELSE unseen[m]]

-----------------------------------------------------------------------------
(* propose: read-only.  is_symlink_ancestor_or_target asks for a link and  *)
(* takes a failed lstat for a no; read_existing then reads whatever is     *)
(* there, through a link that has appeared since.                          *)

LinkSeen == target = Link

\* What a read finds; a link leads to any file, or to none.
Readings == IF target = Link THEN Bytes ELSE {target}
ReadFails(n) ==
    /\ \/ Fails
       \/ target = Link /\ Succeeds
    /\ Returns(n, "IoPartialWrite")

ChecksLink(n, from, next) ==
    /\ At(n, from)
    /\ \/ ~LinkSeen /\ Succeeds /\ Goto(n, next)
       \/ LinkSeen /\ Succeeds /\ Returns(n, "UnsafePath")
       \/ Fails /\ Goto(n, next)
    /\ UNCHANGED <<target, staged, backup, proposal, base, unseen, edits>>

BeginPropose(n) == ChecksLink(n, "new", "reading")

\* The digest it reports is the one the caller will present.
Propose(n, content) ==
    /\ At(n, "reading")
    /\ \/ /\ Succeeds
          /\ \E original \in Readings :
                Snapshot(n, content, original, digest(content, original))
          /\ Goto(n, "proposed")
       \/ ReadFails(n) /\ UNCHANGED proposal
    /\ UNCHANGED <<target, staged, backup, base, unseen, edits>>

(* `maintain apply' is a process of its own: it proposes again, from the   *)
(* replacement on its command line and the target as it is now, and        *)
(* presents the digest reported earlier.                                   *)

BeginRepropose(n) == ChecksLink(n, "proposed", "rereading")

Repropose(n, content) ==
    /\ At(n, "rereading")
    /\ \/ /\ Succeeds
          /\ \E original \in Readings :
                Snapshot(n, content, original, proposal[n].presented)
          /\ Goto(n, "checking")
       \/ ReadFails(n) /\ UNCHANGED proposal
    /\ UNCHANGED <<target, staged, backup, base, unseen, edits>>

\* A caller of the library applies the proposal it holds.
ApplyHeld(n) ==
    /\ At(n, "proposed")
    /\ Goto(n, "checking")
    /\ UNCHANGED <<target, staged, backup, proposal, base, unseen, edits, faults>>

-----------------------------------------------------------------------------
(* apply: authority, digest and links, then the snapshot comparison.       *)

Mismatch(n) == proposal[n].presented # digest(proposal[n].content, proposal[n].original)

Check(n, authorized) ==
    /\ At(n, "checking")
    /\ \/ /\ ~authorized
          /\ Succeeds /\ Returns(n, "AuthorizationFailure")
          /\ UNCHANGED unseen
       \/ /\ authorized /\ Mismatch(n)
          /\ Succeeds /\ Returns(n, "DigestMismatch")
          /\ UNCHANGED unseen
       \/ /\ authorized /\ ~Mismatch(n)
          /\ \/ ~LinkSeen /\ Succeeds /\ Goto(n, "comparing") /\ UNCHANGED unseen
             \/ LinkSeen /\ Succeeds /\ Returns(n, "UnsafePath") /\ UNCHANGED unseen
             \/ /\ Fails /\ Goto(n, "comparing")
                /\ unseen' = [unseen EXCEPT ![n] = {target}]
    /\ UNCHANGED <<target, staged, backup, proposal, base, edits>>

CompareTrustingDigest(n) ==  \* mutant: no snapshot comparison
    /\ At(n, "comparing")
    /\ \/ Succeeds /\ Goto(n, "stage")
       \/ ReadFails(n)
    /\ UNCHANGED <<target, staged, backup, proposal, base, unseen, edits>>

Compare(n) ==
    /\ At(n, "comparing")
    /\ \/ \E current \in Readings :
             /\ Succeeds
             /\ \/ current = proposal[n].original /\ Goto(n, "stage")
                \/ current # proposal[n].original /\ Returns(n, "StaleSource")
       \/ ReadFails(n)
    /\ UNCHANGED <<target, staged, backup, proposal, base, unseen, edits>>

-----------------------------------------------------------------------------
(* staged_replace. *)

Stage(n) ==
    /\ At(n, "stage")
    /\ \/ /\ Succeeds
          /\ staged' = [staged EXCEPT ![n] = proposal[n].content]
          /\ Goto(n, "probe")
       \/ /\ Fails
          /\ \E left \in {Absent, proposal[n].content} : staged' = [staged EXCEPT ![n] = left]
          /\ Goto(n, "sweep")
    /\ UNCHANGED <<target, unseen, backup, proposal, base, edits>>

Probe(n) ==
    /\ At(n, "probe")
    /\ \/ /\ Succeeds
          /\ Goto(n, IF target = Absent THEN "install" ELSE "displace")
       \/ /\ Fails
          /\ Goto(n, "sweep")
    /\ UNCHANGED <<target, unseen, staged, backup, proposal, base, edits>>

DisplaceByDeleting(n) ==  \* mutant: the target is removed, not renamed
    /\ At(n, "displace")
    /\ Succeeds
    /\ Writes({n}, Absent)
    /\ Goto(n, "install")
    /\ UNCHANGED <<staged, backup, proposal, base, edits>>

\* rename(target, backup)
Displace(n) ==
    /\ At(n, "displace")
    /\ \/ /\ target # Absent
          /\ Succeeds
          /\ backup' = [backup EXCEPT ![n] = target]
          /\ Writes({n}, Absent)
          /\ Goto(n, "install")
       \/ /\ \/ target = Absent /\ Succeeds
             \/ Fails
          /\ UNCHANGED <<target, unseen, backup>>
          /\ Goto(n, "sweep")
    /\ UNCHANGED <<staged, proposal, base, edits>>

\* rename(tmp, target): whatever has appeared there is overwritten.
Install(n) ==
    /\ At(n, "install")
    /\ \/ /\ Succeeds
          /\ Writes({n}, staged[n])
          /\ staged' = [staged EXCEPT ![n] = Absent]
          /\ Goto(n, "validate")
       \/ /\ Fails
          /\ UNCHANGED <<target, unseen, staged>>
          /\ Goto(n, IF backup[n] = Absent THEN "sweep" ELSE "undo")
    /\ UNCHANGED <<backup, proposal, base, edits>>

\* rename(backup, target), its error only added to the message.
Undo(n) ==
    /\ At(n, "undo")
    /\ \/ /\ Succeeds
          /\ Writes({n}, backup[n])
          /\ backup' = [backup EXCEPT ![n] = Absent]
       \/ /\ Fails
          /\ UNCHANGED <<target, unseen, backup>>
    /\ Goto(n, "sweep")
    /\ UNCHANGED <<staged, proposal, base, edits>>

\* remove_file_if_exists(tmp), after any failure of staged_replace.
Sweep(n) ==
    /\ At(n, "sweep")
    /\ \/ Succeeds /\ staged' = [staged EXCEPT ![n] = Absent]
       \/ Fails /\ UNCHANGED staged
    /\ Returns(n, "IoPartialWrite")
    /\ UNCHANGED <<target, unseen, backup, proposal, base, edits>>

-----------------------------------------------------------------------------
(* Revalidation.  The validator reads the tree under the root, so it may   *)
(* answer either way.                                                      *)

Validate(n) ==
    /\ At(n, "validate")
    /\ \/ /\ base' = proposal[n].content
          /\ Goto(n, "commit")
       \/ /\ UNCHANGED base
          /\ Goto(n, "remove")
    /\ UNCHANGED <<target, unseen, staged, backup, proposal, edits, faults>>

CommitKeepingBackup(n) ==  \* mutant: the backup is not removed
    /\ At(n, "commit")
    /\ Returns(n, "ValidationPassed")
    /\ UNCHANGED <<target, unseen, staged, backup, proposal, base, edits, faults>>

Commit(n) ==
    /\ At(n, "commit")
    /\ \/ /\ Succeeds
          /\ backup' = [backup EXCEPT ![n] = Absent]
          /\ Returns(n, "ValidationPassed")
       \/ /\ backup[n] # Absent
          /\ Fails
          /\ UNCHANGED backup
          /\ Returns(n, "IoPartialWrite")
    /\ UNCHANGED <<target, unseen, staged, proposal, base, edits>>

RemoveOnlyBackedUp(n) ==  \* mutant: a new file is left in place
    /\ At(n, "remove")
    /\ Succeeds
    /\ IF backup[n] = Absent
       THEN Returns(n, "ValidationFailed") /\ UNCHANGED <<target, unseen>>
       ELSE Goto(n, "restore") /\ Writes({n}, Absent)
    /\ UNCHANGED <<staged, backup, proposal, base, edits>>

\* rollback: remove what was installed ...
RemoveInstalled(n) ==
    /\ At(n, "remove")
    /\ \/ /\ Succeeds
          /\ Writes({n}, Absent)
          /\ IF backup[n] = Absent THEN Returns(n, "ValidationFailed") ELSE Goto(n, "restore")
       \/ /\ Fails
          /\ UNCHANGED <<target, unseen>>
          /\ Returns(n, "IoPartialWrite")
    /\ UNCHANGED <<staged, backup, proposal, base, edits>>

\* ... and rename the backup back, if there was a file before.
Restore(n) ==
    /\ At(n, "restore")
    /\ \/ /\ Succeeds
          /\ Writes({n}, backup[n])
          /\ backup' = [backup EXCEPT ![n] = Absent]
          /\ Returns(n, "ValidationFailed")
       \/ /\ Fails
          /\ UNCHANGED <<target, unseen, backup>>
          /\ Returns(n, "IoPartialWrite")
    /\ UNCHANGED <<staged, proposal, base, edits>>

-----------------------------------------------------------------------------
(* The environment. *)

\* The process dies.  A torn staged file is as good as a whole one here.
Crash(n) ==
    /\ pc[n] \notin {"new", "returned", "crashed"}
    /\ Fails
    /\ Goto(n, "crashed")
    /\ UNCHANGED <<target, unseen, staged, backup, proposal, base, edits>>

\* Another program writes, deletes or links the target.
Edit(bytes) ==
    /\ edits < MaxEdits
    /\ bytes # target
    /\ Writes({}, bytes)
    /\ base' = bytes
    /\ edits' = edits + 1
    /\ UNCHANGED <<staged, backup, pc, proposal, result, faults>>

RepairNext ==
    \/ \E n \in Attempts :
          \/ BeginPropose(n)
          \/ BeginRepropose(n)
          \/ \E content \in Replacements : Propose(n, content) \/ Repropose(n, content)
          \/ ApplyHeld(n)
          \/ \E authorized \in BOOLEAN : Check(n, authorized)
          \/ Compare(n)
          \/ Stage(n)
          \/ Probe(n)
          \/ Displace(n)
          \/ Install(n)
          \/ Undo(n)
          \/ Sweep(n)
          \/ Validate(n)
          \/ Commit(n)
          \/ RemoveInstalled(n)
          \/ Restore(n)
          \/ Crash(n)
    \/ \E bytes \in Bytes \cup {Absent, Link} : Edit(bytes)

RepairSpec == RepairInit /\ [][RepairNext]_repairVars

-----------------------------------------------------------------------------
(* Properties. *)

Results == {"none", "AuthorizationFailure", "DigestMismatch", "UnsafePath", "StaleSource",
            "IoPartialWrite", "ValidationPassed", "ValidationFailed"}
Named == Bytes \cup {Absent, Link}
Steps == Replacing \cup {"new", "reading", "proposed", "rereading", "checking",
                       "returned", "crashed"}
Proposals == [content : Bytes \cup {Absent}, original : Bytes \cup {Absent},
              presented : Nat \X Nat]

RepairTypeOK ==
    /\ target \in Named
    /\ base \in Named
    /\ staged \in [Attempts -> Bytes \cup {Absent}]
    /\ backup \in [Attempts -> Named]
    /\ pc \in [Attempts -> Steps]
    /\ proposal \in [Attempts -> Proposals]
    /\ result \in [Attempts -> Results]
    /\ unseen \in [Attempts -> SUBSET Named]
    /\ edits \in 0 .. MaxEdits
    /\ faults \in 0 .. MaxFaults

\* Nobody has written the target while an apply was at work on it.
Quiet == \A n \in Attempts : unseen[n] = {}

\* The bytes last edited or validated are never destroyed by a repair that
\* has not passed validation: whatever calls fail and wherever the process
\* dies, they are under the target name or in a backup beside it.  Only a
\* write that falls into an apply, between its link check and its return, can
\* be lost.
BaseRecoverable ==
    Quiet => base = Absent \/ base = target \/ \E n \in Attempts : backup[n] = base

\* What an apply moves aside is the file the maintainer reviewed, whose identity
\* and the replacement's are the ones in the presented digest ("Catches
\* same-length edits (and any content change)"), or it came under the name
\* after the apply began to look: an edit older than that is never displaced.
DisplacesOnlyReviewed ==
    \A n \in Attempts : backup[n] # Absent =>
        \/ /\ backup[n] = proposal[n].original
           /\ proposal[n].presented = digest(proposal[n].content, backup[n])
        \/ backup[n] \in unseen[n]

\* Any result but IoPartialWrite leaves no staged file and no backup behind,
\* whatever others write meanwhile.
NoLeftovers ==
    \A n \in Attempts :
        pc[n] = "returned" /\ result[n] # "IoPartialWrite" =>
            staged[n] = Absent /\ backup[n] = Absent

\* What an apply nobody disturbed reports is what it did: a passed repair left
\* exactly the replacement, and a failed validation exactly the original
\* ("rollback exactly"), also when there was no file before.
ResultsExact ==
    [][\A n \in Attempts :
          pc[n] # "returned" /\ pc'[n] = "returned" /\ unseen[n] = {} =>
              CASE result'[n] = "ValidationPassed" -> target' = proposal[n].content
                [] result'[n] = "ValidationFailed" -> target' = proposal[n].original
                [] OTHER -> TRUE]_repairVars

\* "then atomic staged write": while an apply replaces an existing file, the
\* target name holds the original or the replacement.
AtomicStagedWrite ==
    \A n \in Attempts :
        pc[n] \in Replacing /\ proposal[n].original # Absent =>
            target \in {proposal[n].original, proposal[n].content}
=============================================================================
