----------------------------- MODULE TokenStore -----------------------------
(***************************************************************************)
(* The credential files of the MCP server's CLI                            *)
(* (az-sports-dev/packages/mcp-server/src/token-store.ts): `login' writes  *)
(* the token and then the client id, each through SecureFile.write,        *)
(* `logout' deletes them in the same order through SecureFile.delete.      *)
(* Logins and logouts are processes of one user; one system call is one    *)
(* step, any of which may throw.                                           *)
(*                                                                         *)
(* The inode login n creates for a file is <<n, file>>.  For each inode    *)
(* and each directory entry there is what processes see and what is on     *)
(* disk; the kernel may write back at any time, so a power loss keeps      *)
(* either.                                                                 *)
(***************************************************************************)
EXTENDS Naturals

CONSTANTS Logins, Logouts,    \* the commands that are run, each once
          Nobody,             \* no inode, no process
          MaxFaults,          \* bound: system calls that fail, processes killed
          MaxLosses           \* bound: power losses

Processes == Logins \cup Logouts
Files == {"token", "client_id"}

ASSUME TokenAssumption ==
    /\ Nobody \notin Processes
    /\ Logins \cap Logouts = {}
    /\ MaxFaults \in Nat /\ MaxLosses \in Nat

VARIABLES
    data, disk,     \* contents of the inodes: seen, and on disk
    link, diskLink, \* the inode under each file name: seen, and on disk
    at, file,       \* each process: its next call, and the file it is at
    opened,         \* the inodes a logout has opened
    solo,           \* ghost: the process has run with no other beside it
    stands,         \* ghost: the last to succeed so, until another starts
    faults, losses

storage == <<data, disk, link, diskLink>>
ghosts == <<solo, stands>>
tokenVars == <<storage, at, file, opened, ghosts, faults, losses>>

TokenInit ==
    /\ data = [i \in Logins \X Files |-> "absent"]
    /\ disk = data
    /\ link = [f \in Files |-> Nobody]
    /\ diskLink = link
    /\ at = [p \in Processes |-> "start"]
    /\ file = [p \in Processes |-> "token"]
    /\ opened = [p \in Logouts |-> [f \in Files |-> Nobody]]
    /\ solo = [p \in Processes |-> FALSE]
    /\ stands = Nobody
    /\ faults = 0 /\ losses = 0

-----------------------------------------------------------------------------

Over == {"start", "done", "failed"}
Active(p) == at[p] \notin Over
Goto(p, call) == at' = [at EXCEPT ![p] = call]

\* writeToken and deleteToken go on to the client id after the token.
NextFile(p, first) ==
    \/ /\ file[p] = "token"
       /\ file' = [file EXCEPT ![p] = "client_id"]
       /\ Goto(p, first)
       /\ UNCHANGED stands
    \/ /\ file[p] = "client_id"
       /\ Goto(p, "done")
       /\ stands' = IF solo[p] THEN p ELSE stands
       /\ UNCHANGED file

Step(p, call) ==
    /\ at[p] = call
    /\ UNCHANGED <<opened, solo, faults, losses>>

Begin(p, first) ==
    /\ at[p] = "start"
    /\ Goto(p, first)
    /\ solo' = [q \in Processes |-> IF q = p THEN \A r \in Processes : ~Active(r)
                                   ELSE solo[q] /\ ~Active(q)]
    /\ stands' = Nobody
    /\ UNCHANGED <<storage, file, opened, faults, losses>>

\* The call the process is at throws and the command exits with an error, or
\* the process is killed there: a staged file stays where it is.
Fail(p) ==
    /\ Active(p)
    /\ faults < MaxFaults
    /\ faults' = faults + 1
    /\ Goto(p, "failed")
    /\ UNCHANGED <<storage, file, opened, ghosts, losses>>

-----------------------------------------------------------------------------
(* SecureFile.write. *)

\* open the staged file (O_EXCL), fchmod, write
Write(n) ==
    /\ Step(n, "write")
    /\ data' = [data EXCEPT ![<<n, file[n]>>] = "whole"]
    /\ disk' = [disk EXCEPT ![<<n, file[n]>>] = "torn"]
    /\ Goto(n, "sync")
    /\ UNCHANGED <<link, diskLink, file, stands>>

WriteSync(n) ==
    /\ Step(n, "sync")
    /\ disk' = [disk EXCEPT ![<<n, file[n]>>] = data[<<n, file[n]>>]]
    /\ Goto(n, "rename")
    /\ UNCHANGED <<data, link, diskLink, file, stands>>

Rename(n) ==
    /\ Step(n, "rename")
    /\ link' = [link EXCEPT ![file[n]] = n]
    /\ Goto(n, "dirsync")
    /\ UNCHANGED <<data, disk, diskLink, file, stands>>

\* Mutant: the directory is not flushed.
DirSyncSkipped(n) ==
    /\ Step(n, "dirsync")
    /\ Goto(n, "verify")
    /\ UNCHANGED <<storage, file, stands>>

\* fsync of the directory: both names are in it.
DirSync(n) ==
    /\ Step(n, "dirsync")
    /\ diskLink' = link
    /\ Goto(n, "verify")
    /\ UNCHANGED <<data, disk, link, file, stands>>

\* tightenMode and verify open the name again and throw if it is gone.
Verify(n) ==
    /\ Step(n, "verify")
    /\ \/ /\ link[file[n]] # Nobody
          /\ NextFile(n, "write")
       \/ /\ link[file[n]] = Nobody
          /\ Goto(n, "failed")
          /\ UNCHANGED <<file, stands>>
    /\ UNCHANGED storage

-----------------------------------------------------------------------------
(* SecureFile.delete. *)

Open(p) ==
    /\ at[p] = "open"
    /\ \/ /\ link[file[p]] = Nobody
          /\ NextFile(p, "open")
          /\ UNCHANGED opened
       \/ /\ link[file[p]] # Nobody
          /\ opened' = [opened EXCEPT ![p] = [@ EXCEPT ![file[p]] = link[file[p]]]]
          /\ Goto(p, "overwrite")
          /\ UNCHANGED <<file, stands>>
    /\ UNCHANGED <<storage, solo, faults, losses>>

Inode(p) == <<opened[p][file[p]], file[p]>>

Overwrite(p) ==
    /\ Step(p, "overwrite")
    /\ data' = [data EXCEPT ![Inode(p)] = "random"]
    /\ Goto(p, "oversync")
    /\ UNCHANGED <<disk, link, diskLink, file, stands>>

\* Mutant: the random bytes are not flushed.
OverwriteSyncSkipped(p) ==
    /\ Step(p, "oversync")
    /\ Goto(p, "unlink")
    /\ UNCHANGED <<storage, file, stands>>

OverwriteSync(p) ==
    /\ Step(p, "oversync")
    /\ disk' = [disk EXCEPT ![Inode(p)] = data[Inode(p)]]
    /\ Goto(p, "unlink")
    /\ UNCHANGED <<data, link, diskLink, file, stands>>

\* unlink goes by name, and throws if the name is gone.
Unlink(p) ==
    /\ Step(p, "unlink")
    /\ \/ /\ link[file[p]] # Nobody
          /\ link' = [link EXCEPT ![file[p]] = Nobody]
          /\ NextFile(p, "open")
       \/ /\ link[file[p]] = Nobody
          /\ Goto(p, "failed")
          /\ UNCHANGED <<link, file, stands>>
    /\ UNCHANGED <<data, disk, diskLink>>

-----------------------------------------------------------------------------
(* The environment. *)

PowerLoss ==
    /\ losses < MaxLosses
    /\ losses' = losses + 1
    /\ \E I \in SUBSET (Logins \X Files) :
          data' = [i \in Logins \X Files |-> IF i \in I THEN data[i] ELSE disk[i]]
    /\ \E F \in SUBSET Files :
          link' = [f \in Files |-> IF f \in F THEN link[f] ELSE diskLink[f]]
    /\ disk' = data'
    /\ diskLink' = link'
    /\ at' = [p \in Processes |-> IF Active(p) THEN "failed" ELSE at[p]]
    /\ UNCHANGED <<file, opened, ghosts, faults>>

TokenNext ==
    \/ \E n \in Logins :
          \/ Begin(n, "write")
          \/ Write(n)
          \/ WriteSync(n)
          \/ Rename(n)
          \/ DirSync(n)
          \/ Verify(n)
    \/ \E p \in Logouts :
          \/ Begin(p, "open")
          \/ Open(p)
          \/ Overwrite(p)
          \/ OverwriteSync(p)
          \/ Unlink(p)
    \/ \E p \in Processes : Fail(p)
    \/ PowerLoss

TokenSpec == TokenInit /\ [][TokenNext]_tokenVars

-----------------------------------------------------------------------------
(* Properties. *)

Calls == {"write", "sync", "rename", "dirsync", "verify",
          "open", "overwrite", "oversync", "unlink"}

TokenTypeOK ==
    /\ data \in [Logins \X Files -> {"absent", "whole", "random", "torn"}]
    /\ disk \in [Logins \X Files -> {"absent", "whole", "random", "torn"}]
    /\ link \in [Files -> Logins \cup {Nobody}]
    /\ diskLink \in [Files -> Logins \cup {Nobody}]
    /\ at \in [Processes -> Calls \cup Over]
    /\ file \in [Processes -> Files]
    /\ opened \in [Logouts -> [Files -> Logins \cup {Nobody}]]
    /\ solo \in [Processes -> BOOLEAN]
    /\ stands \in Processes \cup {Nobody}
    /\ faults \in 0 .. MaxFaults
    /\ losses \in 0 .. MaxLosses

\* "Atomic rename": whatever logins and logouts overlap, fail or die, and
\* wherever power is lost, a name leads to a whole value, or to random bytes
\* that a logout which opened that very file left there.
NamesReadable ==
    \A f \in Files : link[f] # Nobody =>
        \/ data[<<link[f], f>>] = "whole"
        \/ /\ data[<<link[f], f>>] = "random"
           /\ \E p \in Logouts : opened[p][f] = link[f]

\* A login that reported success, with no other command beside or after it,
\* is what readers find, token and client id, also after a power loss.
LoginSticks ==
    stands \in Logins =>
        \A f \in Files : link[f] = stands /\ data[<<stands, f>>] = "whole"

\* What is under the names, to whoever reads them and to who has just logged in.
CredentialsHold == NamesReadable /\ LoginSticks

\* After a logout that reported success, with no other command beside or
\* after it, both names are gone, and not even a power loss brings back the
\* values it deleted.
LogoutErases ==
    stands \in Logouts =>
        \A f \in Files :
            /\ losses = 0 => link[f] = Nobody
            /\ opened[stands][f] # Nobody => data[<<opened[stands][f], f>>] = "random"

\* "Overwrite with random bytes before unlinking": no logout unlinks a file
\* whose value it has not overwritten.
UnlinkErases ==
    [][\A f \in Files :
          link[f] # Nobody /\ link'[f] = Nobody /\ losses' = losses =>
              data[<<link[f], f>>] = "random"]_tokenVars
=============================================================================
