--------------------------- MODULE CredentialProofs ---------------------------
(***************************************************************************)
(* Proofs about how credentials come in, Login, for every set of           *)
(* callbacks, and about the files they end up in, TokenStore, for any      *)
(* number of logins and logouts and any number of failures and power       *)
(* losses.                                                                 *)
(***************************************************************************)
EXTENDS Login, TokenStore, TLAPS

-----------------------------------------------------------------------------
(* Login.                                                                  *)
(*                                                                         *)
(* LoginHonest is not inductive alone: that no second callback succeeds    *)
(* rests on what the flag `consumed' says of the promise, and that a       *)
(* refused one ends the login on where runLogin can be while nothing is    *)
(* consumed.                                                               *)


Pages == {"success", "refused", "already consumed", "not found"}

Shapes ==
    /\ pc \in {"start", "browser", "waiting", "exchanging", "tier", "exited"}
    /\ listening \in BOOLEAN /\ consumed \in BOOLEAN
    /\ code \in Callbacks \cup {None, "rejected"}
    /\ answer \in [Callbacks -> {None} \cup Pages]

\* The flag is set exactly while the promise holds the code of the callback
\* that was shown the success page.
ConsumedMeansCode ==
    /\ consumed <=> code \in Callbacks
    /\ \A c \in Callbacks : answer[c] = "success" <=> code = c

\* Where runLogin is, by the promise and the listener.
PlaceByPromise ==
    /\ listening => pc \notin {"start", "exited"}
    /\ pc \in {"exchanging", "tier"} => consumed
    /\ code = "rejected" => pc = "exited"
    /\ exit # None => pc = "exited"

\* The token store holds nothing but the token of that code, and does at the end.
StoredIsCode ==
    /\ stored # None => consumed /\ stored = code
    /\ pc = "tier" => stored = code
    /\ exit = "ok" => stored # None

\* A refusal has ended the login.
RefusalEnds ==
    \A c \in Callbacks : answer[c] = "refused" =>
        /\ pc = "exited" /\ exit \in {"error", "crash"}
        /\ stored = None

LoginInv ==
    /\ Shapes
    /\ ConsumedMeansCode
    /\ PlaceByPromise
    /\ StoredIsCode
    /\ RefusalEnds

-----------------------------------------------------------------------------

\* Nothing has happened yet: no page shown, no code, no token.
LEMMA LoginInvInit == LoginInit => LoginInv
  BY LoginAssumption DEF LoginInit, LoginInv, Shapes, ConsumedMeansCode, PlaceByPromise,
     StoredIsCode, RefusalEnds, Pages

\* A step of runLogin that leaves the promise and the pages alone.
LEMMA RunLoginKeeps ==
    ASSUME LoginInv, Start \/ BrowserOpened \/ BrowserFailed \/ Timeout \/ TierShown
                                 \/ Malformed
    PROVE  LoginInv'
<1> USE LoginAssumption
<1> USE DEF LoginInv, Shapes, ConsumedMeansCode, PlaceByPromise, StoredIsCode, RefusalEnds
<1>1. CASE Start
  BY <1>1 DEF Start, Exit
<1>2. CASE BrowserOpened
  <2>1. code # "rejected"
    BY <1>2 DEF BrowserOpened
  <2> QED BY <1>2, <2>1 DEF BrowserOpened, Await
<1>3. CASE BrowserFailed \/ Timeout
  <2>1. /\ pc \in {"browser", "waiting"} /\ pc' = "exited"
        /\ exit' = "error" /\ listening' = FALSE
        /\ UNCHANGED <<code, consumed, answer, stored>>
    BY <1>3 DEF BrowserFailed, Timeout, Exit
  <2>2. \A c \in Callbacks : answer[c] # "refused"
    BY <2>1
  <2> QED BY <2>1, <2>2
<1>4. CASE TierShown
  BY <1>4 DEF TierShown, Exit
<1>5. CASE Malformed
  BY <1>5 DEF Malformed, Exit
<1> QED BY <1>1, <1>2, <1>3, <1>4, <1>5

\* A callback that succeeds is the first: no other was shown the success page.
LEMMA AcceptKeeps ==
    ASSUME LoginInv, NEW c \in Good,
           listening, answer[c] = None, ~consumed, Accept(c), UNCHANGED stored
    PROVE  LoginInv'
<1> USE LoginAssumption
<1> USE DEF LoginInv, Shapes
<1>1. c \in Callbacks /\ pc \in {"browser", "waiting"} /\ code = None
  BY DEF PlaceByPromise, ConsumedMeansCode, Callbacks
<1>2. code' = c /\ consumed' = TRUE /\ answer' = [answer EXCEPT ![c] = "success"]
  BY <1>1 DEF Accept, Show
<1>3. /\ pc' = IF pc = "waiting" THEN "exchanging" ELSE pc
      /\ UNCHANGED <<listening, exit, stored>>
  BY <1>1, <1>2 DEF Accept, Await
<1>4. Shapes'
  BY <1>1, <1>2, <1>3 DEF Pages
<1>5. ConsumedMeansCode'
  BY <1>1, <1>2 DEF ConsumedMeansCode
<1>6. PlaceByPromise' /\ StoredIsCode'
  BY <1>1, <1>2, <1>3 DEF PlaceByPromise, StoredIsCode
<1>7. RefusalEnds'
  BY <1>1, <1>2, <1>3 DEF RefusalEnds
<1> QED BY <1>4, <1>5, <1>6, <1>7

\* A callback that is refused finds no code and no token, and ends the login.
LEMMA RefuseKeeps ==
    ASSUME LoginInv, NEW c \in Bad,
           listening, answer[c] = None, ~consumed, Refuse(c), UNCHANGED stored
    PROVE  LoginInv'
<1> USE LoginAssumption
<1> USE DEF LoginInv, Shapes
<1>1. c \in Callbacks /\ pc \in {"browser", "waiting"} /\ code = None /\ stored = None
  BY DEF PlaceByPromise, ConsumedMeansCode, StoredIsCode, Callbacks
<1>2. code' = "rejected" /\ consumed' = FALSE /\ answer' = [answer EXCEPT ![c] = "refused"]
  BY <1>1 DEF Refuse, Show
<1>3. pc' = "exited" /\ exit' \in {"error", "crash"} /\ listening' = FALSE
  BY <1>1, <1>2 DEF Refuse, Await, Exit
<1>4. Shapes'
  BY <1>1, <1>2, <1>3 DEF Pages
<1>5. ConsumedMeansCode'
  BY <1>1, <1>2 DEF ConsumedMeansCode
<1>6. PlaceByPromise' /\ StoredIsCode'
  BY <1>1, <1>2, <1>3 DEF PlaceByPromise, StoredIsCode
<1>7. RefusalEnds'
  BY <1>1, <1>2, <1>3 DEF RefusalEnds
<1> QED BY <1>4, <1>5, <1>6, <1>7

\* A request that is only shown a page.
LEMMA PageKeeps ==
    ASSUME LoginInv, NEW c \in Callbacks, answer[c] = None,
           NEW page \in {"already consumed", "not found"}, Show(c, page),
           UNCHANGED <<pc, listening, code, consumed, exit, stored>>
    PROVE  LoginInv'
<1> USE LoginAssumption
<1>1. answer' = [answer EXCEPT ![c] = page]
  BY DEF Show
<1>2. code # c
  BY DEF LoginInv, ConsumedMeansCode
<1> QED BY <1>1, <1>2 DEF LoginInv, Shapes, ConsumedMeansCode, PlaceByPromise,
              StoredIsCode, RefusalEnds, Pages

\* The token that is stored is that of the code in the promise.
LEMMA ExchangedKeeps == ASSUME LoginInv, Exchanged PROVE LoginInv'
<1> USE LoginAssumption
<1> USE DEF LoginInv, Shapes, PlaceByPromise
<1>1. /\ consumed /\ code \in Callbacks /\ exit = None
      /\ \A c \in Callbacks : answer[c] # "refused"
  BY DEF Exchanged, ConsumedMeansCode, RefusalEnds
<1>2. stored' \in {stored, code} /\ UNCHANGED <<code, consumed, answer>>
  BY DEF Exchanged
<1>3. \/ pc' = "tier" /\ stored' = code /\ UNCHANGED <<listening, exit>>
      \/ pc' = "exited" /\ exit' = "error" /\ listening' = FALSE
  BY DEF Exchanged, Exit
<1>4. Shapes' /\ ConsumedMeansCode' /\ RefusalEnds'
  BY <1>1, <1>2, <1>3 DEF ConsumedMeansCode, RefusalEnds
<1>5. PlaceByPromise'
  <2>1. consumed' /\ code' # "rejected" /\ pc' \notin {"start", "exchanging"}
    BY <1>1, <1>2, <1>3
  <2>2. CASE pc' = "tier"
    BY <1>1, <1>3, <2>1, <2>2
  <2>3. CASE pc' = "exited"
    BY <1>3, <2>1, <2>3
  <2> QED BY <1>3, <2>2, <2>3
<1>6. StoredIsCode'
  BY <1>1, <1>2, <1>3 DEF StoredIsCode
<1> QED BY <1>4, <1>5, <1>6

LEMMA LoginInvNext == LoginInv /\ [LoginNext]_loginVars => LoginInv'
<1> SUFFICES ASSUME LoginInv, [LoginNext]_loginVars PROVE LoginInv'
  OBVIOUS
<1>1. CASE Start \/ BrowserOpened \/ BrowserFailed \/ Timeout \/ TierShown \/ Malformed
  BY <1>1, RunLoginKeeps
<1>2. CASE Exchanged
  BY <1>2, ExchangedKeeps
<1>3. ASSUME NEW c \in Callbacks, Callback(c) PROVE LoginInv'
  <2>1. CASE c \in Good /\ ~consumed /\ Accept(c)
    BY <1>3, <2>1, AcceptKeeps DEF Callback
  <2>2. CASE c \in Bad /\ ~consumed /\ Refuse(c)
    BY <1>3, <2>2, RefuseKeeps DEF Callback
  <2>3. CASE \E page \in {"already consumed", "not found"} :
                Show(c, page) /\ UNCHANGED <<pc, listening, code, consumed, exit>>
    BY <1>3, <2>3, PageKeeps DEF Callback
  <2> QED BY <1>3, <2>1, <2>2, <2>3 DEF Callback
<1>4. CASE UNCHANGED loginVars
  BY <1>4 DEF loginVars, LoginInv, Shapes, ConsumedMeansCode, PlaceByPromise,
     StoredIsCode, RefusalEnds
<1> QED BY <1>1, <1>2, <1>3, <1>4 DEF LoginNext

\* The invariant holds of every login (runLogin and the handler of its listener).
THEOREM LoginInvHolds == LoginSpec => []LoginInv
  BY LoginInvInit, LoginInvNext, PTL DEF LoginSpec

\* Whatever callbacks reach the listener and in whatever order: one success page
\* at most, only its token is stored, exit status 0 means it is, and a refused
\* callback ends the login without one.
THEOREM LoginAlwaysHonest == LoginSpec => []LoginHonest
<1>1. LoginInv => LoginHonest
  BY LoginAssumption DEF LoginInv, Shapes, ConsumedMeansCode, StoredIsCode, RefusalEnds,
     LoginHonest, OneSuccess, ExitHonest
<1> QED BY <1>1, LoginInvHolds, PTL

-----------------------------------------------------------------------------
(* TokenStore.                                                             *)
(*                                                                         *)
(* A power loss shows what is on disk, so each property is strengthened to *)
(* say the same of both copies; and what readers find once a command has   *)
(* succeeded is carried back through the calls of the command that ran     *)
(* with no other beside it.                                                *)

\* Login n has renamed its file f into place, or is over.
Renamed(n, f) ==
    \/ at[n] \in {"done", "failed"}
    \/ f = "token" /\ file[n] = "client_id"
    \/ f = file[n] /\ at[n] \in {"dirsync", "verify"}

Opened(n, f) == \E p \in Logouts : opened[p][f] = n
Reachable(n, f) == link[f] = n \/ diskLink[f] = n \/ Opened(n, f)

Whole(n, f) == data[<<n, f>>] = "whole" /\ disk[<<n, f>>] = "whole"
Random(n, f) == data[<<n, f>>] = "random" /\ disk[<<n, f>>] = "random"

\* An inode that a name leads to, on disk or not, or that a logout has open, is
\* no longer written to by its login; it is whole, or random where it was opened.
ReachableReadable ==
    \A n \in Logins, f \in Files : Reachable(n, f) =>
        /\ Renamed(n, f)
        /\ data[<<n, f>>] \in {"whole", "random"} /\ disk[<<n, f>>] \in {"whole", "random"}
        /\ ~Opened(n, f) => Whole(n, f)

\* What is in the staged file.
StagedWhole ==
    \A n \in Logins :
        /\ at[n] = "sync" => data[<<n, file[n]>>] = "whole"
        /\ at[n] = "rename" => Whole(n, file[n])

\* Each command goes through its own calls, token first.
CallsInOrder ==
    /\ \A p \in Processes : at[p] = "start" => file[p] = "token"
    /\ \A n \in Logins : at[n] \in {"write", "sync", "rename", "dirsync", "verify"} \cup Over
    /\ \A p \in Logouts : at[p] \in {"open", "overwrite", "oversync", "unlink"} \cup Over

\* A logout opens each file once.
OpenedOnce ==
    \A p \in Logouts :
        /\ at[p] \in {"start", "open"} => opened[p][file[p]] = Nobody
        /\ file[p] = "token" => opened[p]["client_id"] = Nobody
        /\ at[p] \in {"overwrite", "oversync", "unlink"} => opened[p][file[p]] \in Logins

\* Only a command that runs alone keeps its mark, and none runs once one stands.
Alone ==
    /\ \A p, q \in Processes : solo[p] /\ Active(p) /\ Active(q) => p = q
    /\ stands # Nobody => \A p \in Processes : ~Active(p)

Landed(n, f) == link[f] = n /\ diskLink[f] = n /\ Whole(n, f)
Erased(p, f) == opened[p][f] \in Logins => Random(opened[p][f], f)

\* How far a login, or a logout, that runs alone has come.
LoginAlone ==
    \A n \in Logins : solo[n] /\ Active(n) =>
        /\ file[n] = "client_id" => Landed(n, "token")
        /\ at[n] = "dirsync" => link[file[n]] = n /\ Whole(n, file[n])
        /\ at[n] = "verify" => Landed(n, file[n])

LogoutAlone ==
    \A p \in Logouts : solo[p] /\ Active(p) =>
        /\ file[p] = "client_id" => link["token"] = Nobody /\ Erased(p, "token")
        /\ at[p] = "oversync" => data[Inode(p)] = "random"
        /\ at[p] = "unlink" => Erased(p, file[p])

Standing ==
    /\ stands \in Logins => \A f \in Files : Landed(stands, f)
    /\ stands \in Logouts =>
          \A f \in Files : (losses = 0 => link[f] = Nobody) /\ Erased(stands, f)

TokenInv ==
    /\ TokenTypeOK
    /\ ReachableReadable /\ StagedWhole /\ CallsInOrder /\ OpenedOnce
    /\ Alone /\ LoginAlone /\ LogoutAlone /\ Standing
\* What it takes for every reachable inode to stay readable: it was reachable or
\* is whole now, and it keeps its contents, seen or on disk, or is overwritten by
\* a logout that has it open.
LEMMA StillReadable ==
  ASSUME ReachableReadable,
         \A m \in Logins, f \in Files : Renamed(m, f) => Renamed(m, f)',
         \A m \in Logins, f \in Files : Opened(m, f) => Opened(m, f)',
         \A m \in Logins, f \in Files :
             Reachable(m, f)' /\ ~Reachable(m, f) => Renamed(m, f)' /\ Whole(m, f)',
         \A m \in Logins, f \in Files : Reachable(m, f) =>
             /\ \/ data'[<<m, f>>] \in {data[<<m, f>>], disk[<<m, f>>]}
                \/ Opened(m, f)' /\ data'[<<m, f>>] = "random"
             /\ \/ disk'[<<m, f>>] \in {data[<<m, f>>], disk[<<m, f>>]}
                \/ Opened(m, f)' /\ disk'[<<m, f>>] = "random"
  PROVE  ReachableReadable'
<1>. SUFFICES ASSUME NEW m \in Logins, NEW f \in Files, Reachable(m, f)'
              PROVE  /\ Renamed(m, f)'
                     /\ data'[<<m, f>>] \in {"whole", "random"}
                     /\ disk'[<<m, f>>] \in {"whole", "random"}
                     /\ ~Opened(m, f)' => Whole(m, f)'
  BY DEF ReachableReadable
<1>1. CASE Reachable(m, f)
  BY <1>1 DEF ReachableReadable, Whole
<1>2. CASE ~Reachable(m, f)
  BY <1>2 DEF Whole
<1>. QED
  BY <1>1, <1>2

\* The staged file is no longer what a name leads to.
LEMMA WriteKeeps ==
  ASSUME TokenInv, NEW n \in Logins, Write(n)
  PROVE  TokenInv'
<1>. USE TokenAssumption DEF TokenInv, Write, Step, Goto, Processes, Files, Over
<1>1. TokenTypeOK'
  BY DEF TokenTypeOK, Calls
<1>2. ReachableReadable'
  <2>1. \A m \in Logins, f \in Files : Renamed(m, f) => Renamed(m, f)'
    BY DEF Renamed, TokenTypeOK, CallsInOrder
  <2>2. \A m \in Logins, f \in Files : Opened(m, f) => Opened(m, f)'
    BY DEF Opened, TokenTypeOK, OpenedOnce
  <2>3. \A m \in Logins, f \in Files : Reachable(m, f)' => Reachable(m, f)
    BY DEF Reachable, Opened
  <2>4. ASSUME NEW m \in Logins, NEW f \in Files, Reachable(m, f)
        PROVE  /\ \/ data'[<<m, f>>] \in {data[<<m, f>>], disk[<<m, f>>]}
                  \/ Opened(m, f)' /\ data'[<<m, f>>] = "random"
               /\ \/ disk'[<<m, f>>] \in {data[<<m, f>>], disk[<<m, f>>]}
                  \/ Opened(m, f)' /\ disk'[<<m, f>>] = "random"
    <3>1. <<m, f>> # <<n, file[n]>>
      BY <2>4 DEF ReachableReadable, Renamed
    <3>. QED
      BY <3>1 DEF TokenTypeOK
  <2>. QED
    BY <2>1, <2>2, <2>3, <2>4, StillReadable
<1>3. StagedWhole'
  BY DEF TokenTypeOK, StagedWhole, Whole
<1>4. CallsInOrder'
  BY DEF TokenTypeOK, CallsInOrder
<1>5. OpenedOnce'
  BY DEF TokenTypeOK, OpenedOnce
<1>6. Alone'
  BY DEF TokenTypeOK, Alone, Active
<1>7. LoginAlone'
  BY DEF TokenTypeOK, Alone, Active, LoginAlone, Landed, Whole
<1>8. LogoutAlone'
  BY DEF TokenTypeOK, Alone, Active, LogoutAlone, Erased, Random, Inode
<1>9. Standing'
  BY DEF Standing, Alone, Active
<1>. QED
  BY <1>1, <1>2, <1>3, <1>4, <1>5, <1>6, <1>7, <1>8, <1>9

LEMMA WriteSyncKeeps ==
  ASSUME TokenInv, NEW n \in Logins, WriteSync(n)
  PROVE  TokenInv'
<1>. USE TokenAssumption DEF TokenInv, WriteSync, Step, Goto, Processes, Files, Over
<1>1. TokenTypeOK'
  BY DEF TokenTypeOK, Calls
<1>2. ReachableReadable'
  <2>1. \A m \in Logins, f \in Files : Renamed(m, f) => Renamed(m, f)'
    BY DEF Renamed, TokenTypeOK, CallsInOrder
  <2>2. \A m \in Logins, f \in Files : Opened(m, f) => Opened(m, f)'
    BY DEF Opened, TokenTypeOK, OpenedOnce
  <2>3. \A m \in Logins, f \in Files : Reachable(m, f)' => Reachable(m, f)
    BY DEF Reachable, Opened
  <2>4. ASSUME NEW m \in Logins, NEW f \in Files, Reachable(m, f)
        PROVE  /\ \/ data'[<<m, f>>] \in {data[<<m, f>>], disk[<<m, f>>]}
                  \/ Opened(m, f)' /\ data'[<<m, f>>] = "random"
               /\ \/ disk'[<<m, f>>] \in {data[<<m, f>>], disk[<<m, f>>]}
                  \/ Opened(m, f)' /\ disk'[<<m, f>>] = "random"
    BY DEF TokenTypeOK
  <2>. QED
    BY <2>1, <2>2, <2>3, <2>4, StillReadable
<1>3. StagedWhole'
  BY DEF TokenTypeOK, StagedWhole, Whole
<1>4. CallsInOrder'
  BY DEF TokenTypeOK, CallsInOrder
<1>5. OpenedOnce'
  BY DEF TokenTypeOK, OpenedOnce
<1>6. Alone'
  BY DEF TokenTypeOK, Alone, Active
<1>7. LoginAlone'
  BY DEF TokenTypeOK, Alone, Active, LoginAlone, Landed, Whole
<1>8. LogoutAlone'
  BY DEF TokenTypeOK, Alone, Active, LogoutAlone, Erased, Random, Inode
<1>9. Standing'
  BY DEF Standing, Alone, Active
<1>. QED
  BY <1>1, <1>2, <1>3, <1>4, <1>5, <1>6, <1>7, <1>8, <1>9

\* The name leads to a file that is whole, also on disk.
LEMMA RenameKeeps ==
  ASSUME TokenInv, NEW n \in Logins, Rename(n)
  PROVE  TokenInv'
<1>. USE TokenAssumption DEF TokenInv, Rename, Step, Goto, Processes, Files, Over
<1>1. TokenTypeOK'
  BY DEF TokenTypeOK, Calls
<1>2. ReachableReadable'
  <2>1. \A m \in Logins, f \in Files : Renamed(m, f) => Renamed(m, f)'
    BY DEF Renamed, TokenTypeOK, CallsInOrder
  <2>2. \A m \in Logins, f \in Files : Opened(m, f) => Opened(m, f)'
    BY DEF Opened, TokenTypeOK, OpenedOnce
  <2>3. ASSUME NEW m \in Logins, NEW f \in Files, Reachable(m, f)', ~Reachable(m, f)
        PROVE  Renamed(m, f)' /\ Whole(m, f)'
    <3>1. m = n /\ f = file[n]
      BY <2>3 DEF Reachable, Opened, TokenTypeOK
    <3>. QED
      BY <3>1 DEF Renamed, StagedWhole, Whole, TokenTypeOK
  <2>4. ASSUME NEW m \in Logins, NEW f \in Files, Reachable(m, f)
        PROVE  /\ \/ data'[<<m, f>>] \in {data[<<m, f>>], disk[<<m, f>>]}
                  \/ Opened(m, f)' /\ data'[<<m, f>>] = "random"
               /\ \/ disk'[<<m, f>>] \in {data[<<m, f>>], disk[<<m, f>>]}
                  \/ Opened(m, f)' /\ disk'[<<m, f>>] = "random"
    BY DEF TokenTypeOK
  <2>. QED
    BY <2>1, <2>2, <2>3, <2>4, StillReadable
<1>3. StagedWhole'
  BY DEF TokenTypeOK, StagedWhole, Whole
<1>4. CallsInOrder'
  BY DEF TokenTypeOK, CallsInOrder
<1>5. OpenedOnce'
  BY DEF TokenTypeOK, OpenedOnce
<1>6. Alone'
  BY DEF TokenTypeOK, Alone, Active
<1>7. LoginAlone'
  BY DEF TokenTypeOK, Alone, Active, LoginAlone, Landed, Whole, StagedWhole
<1>8. LogoutAlone'
  BY DEF TokenTypeOK, Alone, Active, LogoutAlone, Erased, Random, Inode
<1>9. Standing'
  BY DEF Standing, Alone, Active
<1>. QED
  BY <1>1, <1>2, <1>3, <1>4, <1>5, <1>6, <1>7, <1>8, <1>9

LEMMA DirSyncKeeps ==
  ASSUME TokenInv, NEW n \in Logins, DirSync(n)
  PROVE  TokenInv'
<1>. USE TokenAssumption DEF TokenInv, DirSync, Step, Goto, Processes, Files, Over
<1>1. TokenTypeOK'
  BY DEF TokenTypeOK, Calls
<1>2. ReachableReadable'
  <2>1. \A m \in Logins, f \in Files : Renamed(m, f) => Renamed(m, f)'
    BY DEF Renamed, TokenTypeOK, CallsInOrder
  <2>2. \A m \in Logins, f \in Files : Opened(m, f) => Opened(m, f)'
    BY DEF Opened, TokenTypeOK, OpenedOnce
  <2>3. \A m \in Logins, f \in Files : Reachable(m, f)' => Reachable(m, f)
    BY DEF Reachable, Opened, TokenTypeOK
  <2>4. ASSUME NEW m \in Logins, NEW f \in Files, Reachable(m, f)
        PROVE  /\ \/ data'[<<m, f>>] \in {data[<<m, f>>], disk[<<m, f>>]}
                  \/ Opened(m, f)' /\ data'[<<m, f>>] = "random"
               /\ \/ disk'[<<m, f>>] \in {data[<<m, f>>], disk[<<m, f>>]}
                  \/ Opened(m, f)' /\ disk'[<<m, f>>] = "random"
    BY DEF TokenTypeOK
  <2>. QED
    BY <2>1, <2>2, <2>3, <2>4, StillReadable
<1>3. StagedWhole'
  BY DEF TokenTypeOK, StagedWhole, Whole
<1>4. CallsInOrder'
  BY DEF TokenTypeOK, CallsInOrder
<1>5. OpenedOnce'
  BY DEF TokenTypeOK, OpenedOnce
<1>6. Alone'
  BY DEF TokenTypeOK, Alone, Active
<1>7. LoginAlone'
  BY DEF TokenTypeOK, Alone, Active, LoginAlone, Landed, Whole
<1>8. LogoutAlone'
  BY DEF TokenTypeOK, Alone, Active, LogoutAlone, Erased, Random, Inode
<1>9. Standing'
  BY DEF Standing, Alone, Active
<1>. QED
  BY <1>1, <1>2, <1>3, <1>4, <1>5, <1>6, <1>7, <1>8, <1>9

\* The second file is in place: the login stands if it ran alone.
LEMMA VerifyKeeps ==
  ASSUME TokenInv, NEW n \in Logins, Verify(n)
  PROVE  TokenInv'
<1>. USE TokenAssumption DEF TokenInv, Verify, Step, Goto, Processes, Files, Over, storage, NextFile
<1>1. TokenTypeOK'
  BY DEF TokenTypeOK, Calls
<1>2. ReachableReadable'
  <2>1. \A m \in Logins, f \in Files : Renamed(m, f) => Renamed(m, f)'
    BY DEF Renamed, TokenTypeOK, CallsInOrder
  <2>2. \A m \in Logins, f \in Files : Opened(m, f) => Opened(m, f)'
    BY DEF Opened, TokenTypeOK, OpenedOnce
  <2>3. \A m \in Logins, f \in Files : Reachable(m, f)' => Reachable(m, f)
    BY DEF Reachable, Opened
  <2>4. ASSUME NEW m \in Logins, NEW f \in Files, Reachable(m, f)
        PROVE  /\ \/ data'[<<m, f>>] \in {data[<<m, f>>], disk[<<m, f>>]}
                  \/ Opened(m, f)' /\ data'[<<m, f>>] = "random"
               /\ \/ disk'[<<m, f>>] \in {data[<<m, f>>], disk[<<m, f>>]}
                  \/ Opened(m, f)' /\ disk'[<<m, f>>] = "random"
    BY DEF TokenTypeOK
  <2>. QED
    BY <2>1, <2>2, <2>3, <2>4, StillReadable
<1>3. StagedWhole'
  BY DEF TokenTypeOK, StagedWhole, Whole
<1>4. CallsInOrder'
  BY DEF TokenTypeOK, CallsInOrder
<1>5. OpenedOnce'
  BY DEF TokenTypeOK, OpenedOnce
<1>6. Alone'
  BY DEF TokenTypeOK, Alone, Active
<1>7. LoginAlone'
  BY DEF TokenTypeOK, Alone, Active, LoginAlone, Landed, Whole
<1>8. LogoutAlone'
  BY DEF TokenTypeOK, Alone, Active, LogoutAlone, Erased, Random, Inode
<1>9. Standing'
  <2>1. stands = Nobody
    BY DEF Alone, Active
  <2>2. CASE stands' = stands
    BY <2>1, <2>2 DEF Standing
  <2>3. CASE stands' # stands
    BY <2>3 DEF TokenTypeOK, Standing, LoginAlone, Active, Landed, Whole
  <2>. QED
    BY <2>2, <2>3
<1>. QED
  BY <1>1, <1>2, <1>3, <1>4, <1>5, <1>6, <1>7, <1>8, <1>9

LEMMA OpenKeeps ==
  ASSUME TokenInv, NEW p \in Logouts, Open(p)
  PROVE  TokenInv'
<1>. USE TokenAssumption DEF TokenInv, Open, Goto, Processes, Files, Over, storage, NextFile
<1>1. TokenTypeOK'
  <2>1. opened' \in [Logouts -> [Files -> Logins \cup {Nobody}]]
    BY DEF TokenTypeOK
  <2>. QED
    BY <2>1 DEF TokenTypeOK, Calls
<1>2. ReachableReadable'
  <2>1. \A m \in Logins, f \in Files : Renamed(m, f) => Renamed(m, f)'
    BY DEF Renamed, TokenTypeOK, CallsInOrder
  <2>2. \A m \in Logins, f \in Files : Opened(m, f) => Opened(m, f)'
    BY DEF Opened, TokenTypeOK, OpenedOnce
  <2>3. \A m \in Logins, f \in Files : Reachable(m, f)' => Reachable(m, f)
    BY DEF Reachable, Opened, TokenTypeOK
  <2>4. ASSUME NEW m \in Logins, NEW f \in Files, Reachable(m, f)
        PROVE  /\ \/ data'[<<m, f>>] \in {data[<<m, f>>], disk[<<m, f>>]}
                  \/ Opened(m, f)' /\ data'[<<m, f>>] = "random"
               /\ \/ disk'[<<m, f>>] \in {data[<<m, f>>], disk[<<m, f>>]}
                  \/ Opened(m, f)' /\ disk'[<<m, f>>] = "random"
    BY DEF TokenTypeOK
  <2>. QED
    BY <2>1, <2>2, <2>3, <2>4, StillReadable
<1>3. StagedWhole'
  BY DEF TokenTypeOK, StagedWhole, Whole
<1>4. CallsInOrder'
  BY DEF TokenTypeOK, CallsInOrder
<1>5. OpenedOnce'
  BY DEF TokenTypeOK, OpenedOnce
<1>6. Alone'
  BY DEF TokenTypeOK, Alone, Active
<1>7. LoginAlone'
  BY DEF TokenTypeOK, Alone, Active, LoginAlone, Landed, Whole
<1>8. LogoutAlone'
  <2>. SUFFICES ASSUME solo[p], Active(p)'
                PROVE  /\ file'[p] = "client_id" => link["token"] = Nobody /\ Erased(p, "token")'
                       /\ at'[p] \notin {"oversync", "unlink"}
    <3>1. \A q \in Logouts : solo'[q] /\ Active(q)' => q = p
      BY DEF TokenTypeOK, Alone, Active
    <3>. QED
      BY <3>1 DEF LogoutAlone
  <2>1. Active(p) /\ opened[p][file[p]] = Nobody /\ at'[p] \notin {"oversync", "unlink"}
    BY DEF TokenTypeOK, Active, OpenedOnce
  <2>2. CASE file[p] = "token"
    BY <2>1, <2>2 DEF TokenTypeOK, Erased
  <2>3. CASE file[p] = "client_id"
    <3>1. link["token"] = Nobody /\ Erased(p, "token")
      BY <2>1, <2>3 DEF LogoutAlone
    <3>2. opened'[p]["token"] = opened[p]["token"]
      BY <2>3 DEF TokenTypeOK
    <3>. QED
      BY <2>1, <3>1, <3>2 DEF Erased, Random
  <2>. QED
    BY <2>2, <2>3 DEF TokenTypeOK
<1>9. Standing'
  <2>1. Active(p) /\ stands = Nobody
    BY DEF Alone, Active
  <2>2. CASE stands' = stands
    BY <2>1, <2>2 DEF Standing
  <2>3. CASE stands' # stands
    <3>1. stands' = p /\ solo[p] /\ file[p] = "client_id"
      BY <2>3
    <3>2. link["token"] = Nobody /\ Erased(p, "token")
      BY <2>1, <3>1 DEF LogoutAlone
    <3>3. link["client_id"] = Nobody /\ opened[p]["client_id"] = Nobody /\ UNCHANGED <<link, opened>>
      BY <2>3, <3>1 DEF OpenedOnce
    <3>. QED
      BY <3>1, <3>2, <3>3 DEF Standing, Erased, Random
  <2>. QED
    BY <2>2, <2>3
<1>. QED
  BY <1>1, <1>2, <1>3, <1>4, <1>5, <1>6, <1>7, <1>8, <1>9

\* A value that is overwritten is one that a logout has open.
LEMMA OverwriteKeeps ==
  ASSUME TokenInv, NEW p \in Logouts, Overwrite(p)
  PROVE  TokenInv'
<1>. USE TokenAssumption DEF TokenInv, Overwrite, Step, Goto, Processes, Files, Over
<1>1. TokenTypeOK'
  BY DEF TokenTypeOK, Calls
<1>2. ReachableReadable'
  <2>1. \A m \in Logins, f \in Files : Renamed(m, f) => Renamed(m, f)'
    BY DEF Renamed, TokenTypeOK, CallsInOrder
  <2>2. \A m \in Logins, f \in Files : Opened(m, f) => Opened(m, f)'
    BY DEF Opened, TokenTypeOK, OpenedOnce
  <2>3. \A m \in Logins, f \in Files : Reachable(m, f)' => Reachable(m, f)
    BY DEF Reachable, Opened
  <2>4. ASSUME NEW m \in Logins, NEW f \in Files, Reachable(m, f)
        PROVE  /\ \/ data'[<<m, f>>] \in {data[<<m, f>>], disk[<<m, f>>]}
                  \/ Opened(m, f)' /\ data'[<<m, f>>] = "random"
               /\ \/ disk'[<<m, f>>] \in {data[<<m, f>>], disk[<<m, f>>]}
                  \/ Opened(m, f)' /\ disk'[<<m, f>>] = "random"
    <3>1. <<m, f>> = Inode(p) => Opened(m, f)'
      BY DEF Inode, Opened
    <3>. QED
      BY <3>1 DEF TokenTypeOK, Inode
  <2>. QED
    BY <2>1, <2>2, <2>3, <2>4, StillReadable
<1>3. StagedWhole'
  <2>1. ASSUME NEW n \in Logins, at[n] \in {"sync", "rename"}
        PROVE  Inode(p) # <<n, file[n]>>
    <3>1. ~Renamed(n, file[n])
      BY <2>1 DEF Renamed
    <3>2. opened[p][file[p]] = n => Opened(n, file[p])
      BY DEF Opened
    <3>. QED
      BY <3>1, <3>2 DEF Inode, ReachableReadable, Reachable, TokenTypeOK
  <2>2. \A n \in Logins : at'[n] = at[n]
    BY DEF TokenTypeOK
  <2>. QED
    BY <2>1, <2>2 DEF TokenTypeOK, StagedWhole, Whole
<1>4. CallsInOrder'
  BY DEF TokenTypeOK, CallsInOrder
<1>5. OpenedOnce'
  BY DEF TokenTypeOK, OpenedOnce
<1>6. Alone'
  BY DEF TokenTypeOK, Alone, Active
<1>7. LoginAlone'
  BY DEF TokenTypeOK, Alone, Active, LoginAlone, Landed, Whole
<1>8. LogoutAlone'
  BY DEF TokenTypeOK, Alone, Active, LogoutAlone, Erased, Random, Inode, OpenedOnce
<1>9. Standing'
  BY DEF Standing, Alone, Active
<1>. QED
  BY <1>1, <1>2, <1>3, <1>4, <1>5, <1>6, <1>7, <1>8, <1>9

LEMMA OverwriteSyncKeeps ==
  ASSUME TokenInv, NEW p \in Logouts, OverwriteSync(p)
  PROVE  TokenInv'
<1>. USE TokenAssumption DEF TokenInv, OverwriteSync, Step, Goto, Processes, Files, Over
<1>1. TokenTypeOK'
  BY DEF TokenTypeOK, Calls
<1>2. ReachableReadable'
  <2>1. \A m \in Logins, f \in Files : Renamed(m, f) => Renamed(m, f)'
    BY DEF Renamed, TokenTypeOK, CallsInOrder
  <2>2. \A m \in Logins, f \in Files : Opened(m, f) => Opened(m, f)'
    BY DEF Opened, TokenTypeOK, OpenedOnce
  <2>3. \A m \in Logins, f \in Files : Reachable(m, f)' => Reachable(m, f)
    BY DEF Reachable, Opened
  <2>4. ASSUME NEW m \in Logins, NEW f \in Files, Reachable(m, f)
        PROVE  /\ \/ data'[<<m, f>>] \in {data[<<m, f>>], disk[<<m, f>>]}
                  \/ Opened(m, f)' /\ data'[<<m, f>>] = "random"
               /\ \/ disk'[<<m, f>>] \in {data[<<m, f>>], disk[<<m, f>>]}
                  \/ Opened(m, f)' /\ disk'[<<m, f>>] = "random"
    BY DEF TokenTypeOK, Inode
  <2>. QED
    BY <2>1, <2>2, <2>3, <2>4, StillReadable
<1>3. StagedWhole'
  <2>1. ASSUME NEW n \in Logins, at[n] \in {"sync", "rename"}
        PROVE  Inode(p) # <<n, file[n]>>
    <3>1. ~Renamed(n, file[n])
      BY <2>1 DEF Renamed
    <3>2. opened[p][file[p]] = n => Opened(n, file[p])
      BY DEF Opened
    <3>. QED
      BY <3>1, <3>2 DEF Inode, ReachableReadable, Reachable, TokenTypeOK
  <2>2. \A n \in Logins : at'[n] = at[n]
    BY DEF TokenTypeOK
  <2>. QED
    BY <2>1, <2>2 DEF TokenTypeOK, StagedWhole, Whole
<1>4. CallsInOrder'
  BY DEF TokenTypeOK, CallsInOrder
<1>5. OpenedOnce'
  BY DEF TokenTypeOK, OpenedOnce
<1>6. Alone'
  BY DEF TokenTypeOK, Alone, Active
<1>7. LoginAlone'
  BY DEF TokenTypeOK, Alone, Active, LoginAlone, Landed, Whole
<1>8. LogoutAlone'
  BY DEF TokenTypeOK, Alone, Active, LogoutAlone, Erased, Random, Inode, OpenedOnce
<1>9. Standing'
  BY DEF Standing, Alone, Active
<1>. QED
  BY <1>1, <1>2, <1>3, <1>4, <1>5, <1>6, <1>7, <1>8, <1>9

\* The second name is gone: the logout stands if it ran alone.
LEMMA UnlinkKeeps ==
  ASSUME TokenInv, NEW p \in Logouts, Unlink(p)
  PROVE  TokenInv'
<1>. USE TokenAssumption DEF TokenInv, Unlink, Step, Goto, Processes, Files, Over, NextFile
<1>1. TokenTypeOK'
  BY DEF TokenTypeOK, Calls
<1>2. ReachableReadable'
  <2>1. \A m \in Logins, f \in Files : Renamed(m, f) => Renamed(m, f)'
    BY DEF Renamed, TokenTypeOK, CallsInOrder
  <2>2. \A m \in Logins, f \in Files : Opened(m, f) => Opened(m, f)'
    BY DEF Opened, TokenTypeOK, OpenedOnce
  <2>3. \A m \in Logins, f \in Files : Reachable(m, f)' => Reachable(m, f)
    BY DEF Reachable, Opened, TokenTypeOK
  <2>4. ASSUME NEW m \in Logins, NEW f \in Files, Reachable(m, f)
        PROVE  /\ \/ data'[<<m, f>>] \in {data[<<m, f>>], disk[<<m, f>>]}
                  \/ Opened(m, f)' /\ data'[<<m, f>>] = "random"
               /\ \/ disk'[<<m, f>>] \in {data[<<m, f>>], disk[<<m, f>>]}
                  \/ Opened(m, f)' /\ disk'[<<m, f>>] = "random"
    BY DEF TokenTypeOK
  <2>. QED
    BY <2>1, <2>2, <2>3, <2>4, StillReadable
<1>3. StagedWhole'
  BY DEF TokenTypeOK, StagedWhole, Whole
<1>4. CallsInOrder'
  BY DEF TokenTypeOK, CallsInOrder
<1>5. OpenedOnce'
  BY DEF TokenTypeOK, OpenedOnce
<1>6. Alone'
  BY DEF TokenTypeOK, Alone, Active
<1>7. LoginAlone'
  BY DEF TokenTypeOK, Alone, Active, LoginAlone, Landed, Whole
<1>8. LogoutAlone'
  BY DEF TokenTypeOK, Alone, Active, LogoutAlone, Erased, Random, Inode
<1>9. Standing'
  <2>1. Active(p) /\ stands = Nobody
    BY DEF Alone, Active
  <2>2. CASE stands' = stands
    BY <2>1, <2>2 DEF Standing
  <2>3. CASE stands' # stands
    <3>1. stands' = p /\ solo[p] /\ file[p] = "client_id"
      BY <2>3
    <3>2. link["token"] = Nobody /\ Erased(p, "token")
      BY <2>1, <3>1 DEF LogoutAlone
    <3>3. Erased(p, "client_id")
      BY <2>1, <3>1 DEF LogoutAlone
    <3>4. link'["token"] = Nobody /\ link'["client_id"] = Nobody
      BY <2>3, <3>1, <3>2 DEF TokenTypeOK
    <3>. QED
      BY <3>1, <3>2, <3>3, <3>4 DEF Standing, Erased, Random
  <2>. QED
    BY <2>2, <2>3
<1>. QED
  BY <1>1, <1>2, <1>3, <1>4, <1>5, <1>6, <1>7, <1>8, <1>9

LEMMA FailKeeps ==
  ASSUME TokenInv, NEW p \in Processes, Fail(p)
  PROVE  TokenInv'
<1>. USE TokenAssumption DEF TokenInv, Fail, Goto, Processes, Files, Over, storage, ghosts
<1>1. TokenTypeOK'
  BY DEF TokenTypeOK, Calls
<1>2. ReachableReadable'
  <2>1. \A m \in Logins, f \in Files : Renamed(m, f) => Renamed(m, f)'
    BY DEF Renamed, TokenTypeOK, CallsInOrder
  <2>2. \A m \in Logins, f \in Files : Opened(m, f) => Opened(m, f)'
    BY DEF Opened, TokenTypeOK, OpenedOnce
  <2>3. \A m \in Logins, f \in Files : Reachable(m, f)' => Reachable(m, f)
    BY DEF Reachable, Opened
  <2>4. ASSUME NEW m \in Logins, NEW f \in Files, Reachable(m, f)
        PROVE  /\ \/ data'[<<m, f>>] \in {data[<<m, f>>], disk[<<m, f>>]}
                  \/ Opened(m, f)' /\ data'[<<m, f>>] = "random"
               /\ \/ disk'[<<m, f>>] \in {data[<<m, f>>], disk[<<m, f>>]}
                  \/ Opened(m, f)' /\ disk'[<<m, f>>] = "random"
    BY DEF TokenTypeOK
  <2>. QED
    BY <2>1, <2>2, <2>3, <2>4, StillReadable
<1>3. StagedWhole'
  BY DEF TokenTypeOK, StagedWhole, Whole
<1>4. CallsInOrder'
  BY DEF TokenTypeOK, CallsInOrder
<1>5. OpenedOnce'
  BY DEF TokenTypeOK, OpenedOnce
<1>6. Alone'
  BY DEF TokenTypeOK, Alone, Active
<1>7. LoginAlone'
  BY DEF TokenTypeOK, Alone, Active, LoginAlone, Landed, Whole
<1>8. LogoutAlone'
  BY DEF TokenTypeOK, Alone, Active, LogoutAlone, Erased, Random, Inode
<1>9. Standing'
  BY DEF Standing, Alone, Active
<1>. QED
  BY <1>1, <1>2, <1>3, <1>4, <1>5, <1>6, <1>7, <1>8, <1>9

\* A command that starts takes the mark off every other that runs, and whatever
\* stood does not stand any more.
LEMMA BeginKeeps ==
  ASSUME TokenInv, NEW p \in Processes, NEW first, Begin(p, first),
         \/ p \in Logins /\ first = "write"
         \/ p \in Logouts /\ first = "open"
  PROVE  TokenInv'
<1>. USE TokenAssumption DEF TokenInv, Begin, Goto, Processes, Files, Over, storage
<1>0. file[p] = "token"
  BY DEF CallsInOrder
<1>1. TokenTypeOK'
  BY DEF TokenTypeOK, Calls
<1>2. ReachableReadable'
  <2>1. \A m \in Logins, f \in Files : Renamed(m, f) => Renamed(m, f)'
    BY <1>0 DEF Renamed, TokenTypeOK
  <2>2. \A m \in Logins, f \in Files :
            (Opened(m, f) => Opened(m, f)') /\ (Reachable(m, f)' => Reachable(m, f))
    BY DEF Reachable, Opened
  <2>. QED
    BY <2>1, <2>2, StillReadable
<1>3. StagedWhole'
  BY DEF TokenTypeOK, StagedWhole, Whole
<1>4. CallsInOrder'
  BY DEF TokenTypeOK, CallsInOrder
<1>5. OpenedOnce'
  BY DEF TokenTypeOK, OpenedOnce
<1>6. \A q \in Processes : solo'[q] /\ Active(q)' => q = p /\ \A r \in Processes : Active(r)' => r = p
  BY DEF TokenTypeOK, Active
<1>7. Alone'
  BY <1>6 DEF Alone
<1>8. LoginAlone' /\ LogoutAlone'
  BY <1>0, <1>6 DEF TokenTypeOK, LoginAlone, LogoutAlone
<1>9. Standing'
  BY DEF Standing
<1>. QED
  BY <1>1, <1>2, <1>3, <1>4, <1>5, <1>7, <1>8, <1>9

\* After a power loss every process is over, and what the names lead to is what
\* they led to, seen or on disk.
LEMMA PowerLossKeeps == ASSUME TokenInv, PowerLoss PROVE TokenInv'
<1>. USE TokenAssumption DEF TokenInv, Processes, Files
<1>0. /\ UNCHANGED <<file, opened, solo, stands, faults>>
      /\ losses < MaxLosses /\ losses' = losses + 1
      /\ disk' = data' /\ diskLink' = link'
      /\ at' = [p \in Processes |-> IF Active(p) THEN "failed" ELSE at[p]]
  BY DEF PowerLoss, ghosts
<1>a. /\ DOMAIN data' = Logins \X Files
      /\ data' = [i \in Logins \X Files |-> data'[i]]
      /\ \A i \in Logins \X Files : data'[i] \in {data[i], disk[i]}
  BY DEF PowerLoss
<1>b. /\ link' = [f \in Files |-> link'[f]]
      /\ \A f \in Files : link'[f] \in {link[f], diskLink[f]}
  BY DEF PowerLoss
<1>c. \A p \in Processes : ~Active(p)' /\ (at'[p] = at[p] \/ at'[p] = "failed")
  BY <1>0 DEF Active, Over
<1>1. TokenTypeOK'
  <2>1. data' \in [Logins \X Files -> {"absent", "whole", "random", "torn"}]
    BY <1>a DEF TokenTypeOK
  <2>2. link' \in [Files -> Logins \cup {Nobody}]
    BY <1>b DEF TokenTypeOK
  <2>3. at' \in [Processes -> Calls \cup Over]
    BY <1>0 DEF TokenTypeOK, Over
  <2>. QED
    BY <1>0, <2>1, <2>2, <2>3 DEF TokenTypeOK
<1>2. ReachableReadable'
  <2>1. \A m \in Logins, f \in Files : Renamed(m, f) => Renamed(m, f)'
    BY <1>0, <1>c DEF Renamed, Active, Over
  <2>2. \A m \in Logins, f \in Files : Opened(m, f) => Opened(m, f)'
    BY <1>0 DEF Opened
  <2>3. \A m \in Logins, f \in Files : Reachable(m, f)' => Reachable(m, f)
    BY <1>0, <1>b DEF Reachable, Opened
  <2>4. \A m \in Logins, f \in Files :
            /\ data'[<<m, f>>] \in {data[<<m, f>>], disk[<<m, f>>]}
            /\ disk'[<<m, f>>] \in {data[<<m, f>>], disk[<<m, f>>]}
    BY <1>0, <1>a
  <2>. QED
    BY <2>1, <2>2, <2>3, <2>4, StillReadable
<1>3. StagedWhole' /\ LoginAlone' /\ LogoutAlone' /\ Alone'
  BY <1>c DEF StagedWhole, LoginAlone, LogoutAlone, Alone, Active, Over
<1>4. CallsInOrder' /\ OpenedOnce'
  BY <1>0, <1>c DEF CallsInOrder, OpenedOnce, Over
<1>5. Standing'
  <2>1. stands \in Logins => \A f \in Files : Landed(stands, f)'
    BY <1>0, <1>a, <1>b DEF Standing, Landed, Whole
  <2>2. stands \in Logouts => \A f \in Files : Erased(stands, f)'
    BY <1>0, <1>a DEF Standing, Erased, Random
  <2>3. losses' # 0
    BY <1>0 DEF TokenTypeOK
  <2>. QED
    BY <1>0, <2>1, <2>2, <2>3 DEF Standing
<1>. QED
  BY <1>1, <1>2, <1>3, <1>4, <1>5

LEMMA TokenInvInit == TokenInit => TokenInv
<1>. SUFFICES ASSUME TokenInit PROVE TokenInv
  OBVIOUS
<1>. USE TokenAssumption DEF TokenInit, Processes, Over
<1>1. TokenTypeOK
  BY DEF TokenTypeOK, Files
<1>2. ReachableReadable
  BY DEF ReachableReadable, Reachable, Opened
<1>3. StagedWhole /\ CallsInOrder /\ OpenedOnce
  BY DEF StagedWhole, CallsInOrder, OpenedOnce, Files
<1>4. Alone /\ LoginAlone /\ LogoutAlone /\ Standing
  BY DEF Alone, LoginAlone, LogoutAlone, Standing
<1>. QED
  BY <1>1, <1>2, <1>3, <1>4 DEF TokenInv

LEMMA TokenInvInductive == TokenInv /\ [TokenNext]_tokenVars => TokenInv'
<1>. SUFFICES ASSUME TokenInv, [TokenNext]_tokenVars
              PROVE  TokenInv'
  OBVIOUS
<1>1. ASSUME NEW n \in Logins,
             Begin(n, "write") \/ Write(n) \/ WriteSync(n) \/ Rename(n) \/ DirSync(n) \/ Verify(n)
      PROVE  TokenInv'
  BY <1>1, BeginKeeps, WriteKeeps, WriteSyncKeeps, RenameKeeps, DirSyncKeeps, VerifyKeeps
     DEF Processes
<1>2. ASSUME NEW p \in Logouts,
             Begin(p, "open") \/ Open(p) \/ Overwrite(p) \/ OverwriteSync(p) \/ Unlink(p)
      PROVE  TokenInv'
  BY <1>2, BeginKeeps, OpenKeeps, OverwriteKeeps, OverwriteSyncKeeps, UnlinkKeeps
     DEF Processes
<1>3. ASSUME NEW p \in Processes, Fail(p) PROVE TokenInv'
  BY <1>3, FailKeeps
<1>4. CASE PowerLoss
  BY <1>4, PowerLossKeeps
<1>5. CASE UNCHANGED tokenVars
  BY <1>5 DEF tokenVars, storage, ghosts, TokenInv, TokenTypeOK, ReachableReadable, Reachable,
     Renamed, Opened, Whole, StagedWhole, CallsInOrder, OpenedOnce, Alone, Active, LoginAlone,
     LogoutAlone, Landed, Erased, Random, Inode, Standing
<1>. QED
  BY <1>1, <1>2, <1>3, <1>4, <1>5 DEF TokenNext

LEMMA TokenInvHolds == TokenSpec => []TokenInv
  BY TokenInvInit, TokenInvInductive, PTL DEF TokenSpec

\* Whatever logins and logouts overlap, fail, are killed or lose power: a name
\* leads to a whole value, or to bytes a logout overwrote; and a login that
\* succeeded alone is what readers find until another command starts.
THEOREM CredentialsAlwaysHold == TokenSpec => []CredentialsHold
<1>1. TokenInv => NamesReadable
  BY TokenAssumption DEF TokenInv, TokenTypeOK, ReachableReadable, Reachable, Opened, Whole,
     NamesReadable
<1>2. TokenInv => LoginSticks
  BY DEF TokenInv, Standing, Landed, Whole, LoginSticks
<1>. QED
  BY <1>1, <1>2, TokenInvHolds, PTL DEF CredentialsHold

\* A logout that succeeded alone leaves no name, and no power loss brings back
\* the values it deleted.
THEOREM LogoutAlwaysErases == TokenSpec => []LogoutErases
<1>1. TokenInv => LogoutErases
  BY DEF TokenInv, TokenTypeOK, Standing, Erased, Random, LogoutErases
<1>. QED
  BY <1>1, TokenInvHolds, PTL

=============================================================================
