-------------------------------- MODULE Login --------------------------------
(***************************************************************************)
(* `azs-mcp-server login' (az-sports-dev/packages/mcp-server/src/cli/      *)
(* login.ts): one coroutine, runLogin, that waits first for the browser    *)
(* command and then for the authorization callback, and the loopback       *)
(* listener's handler, which settles the promise runLogin waits on.        *)
(* JavaScript runs a handler and the continuations it wakes before any     *)
(* other event, so that is one step.                                       *)
(***************************************************************************)
EXTENDS Naturals

CONSTANTS Good,     \* callbacks with our state and a code
          Bad,      \* another state, an `error' parameter, or no code
          Stray,    \* requests for another path or method
          None

Callbacks == Good \cup Bad \cup Stray

ASSUME LoginAssumption ==
    /\ Good \cap Bad = {} /\ Good \cap Stray = {} /\ Bad \cap Stray = {}
    /\ None \notin Callbacks /\ "rejected" \notin Callbacks
    /\ None \notin {"rejected", "success", "refused", "already consumed",
                    "not found", "ok", "error", "crash"}

VARIABLES
    pc,         \* what runLogin awaits
    listening,
    code,       \* the promise: None (pending), "rejected", or whose code it has
    consumed,
    answer,     \* the page each callback was shown
    stored,     \* the callback whose token is in the token store
    exit        \* how the process ended

loginVars == <<pc, listening, code, consumed, answer, stored, exit>>

LoginInit ==
    /\ pc = "start"
    /\ listening = FALSE
    /\ code = None
    /\ consumed = FALSE
    /\ answer = [c \in Callbacks |-> None]
    /\ stored = None
    /\ exit = None

-----------------------------------------------------------------------------

\* The listener is closed, with its connections, before the process exits.
Exit(how) ==
    /\ pc' = "exited"
    /\ exit' = how
    /\ listening' = FALSE

\* A callback was refused or code is at hand: what runLogin does next.
Await(at, promise) ==
    \/ /\ promise = None
       /\ pc' = at
       /\ UNCHANGED <<listening, exit>>
    \/ /\ promise \in Callbacks
       /\ pc' = IF at = "waiting" THEN "exchanging" ELSE at
       /\ UNCHANGED <<listening, exit>>
    \/ /\ promise = "rejected"
       \* Only withTimeout attaches a handler to the promise; a rejection
       \* before that is an unhandled one, and ends the process.
       /\ Exit(IF at = "waiting" THEN "error" ELSE "crash")

Start ==
    /\ pc = "start"
    /\ \/ /\ listening' = TRUE
          /\ pc' \in {"browser", "waiting"}     \* waiting: --print-auth-url
          /\ UNCHANGED exit
       \/ Exit("error")     \* arguments, the socket, no browser command
    /\ UNCHANGED <<code, consumed, answer, stored>>

BrowserOpened ==
    /\ pc = "browser"
    /\ Await("waiting", code)
    /\ UNCHANGED <<code, consumed, answer, stored>>

BrowserFailed ==
    /\ pc = "browser"
    /\ Exit("error")
    /\ UNCHANGED <<code, consumed, answer, stored>>

Show(c, page) == answer' = [answer EXCEPT ![c] = page]

Accept(c) ==
    /\ Show(c, "success")
    /\ consumed' = TRUE
    /\ code' = IF code = None THEN c ELSE code  \* a promise settles once
    /\ Await(pc, code')

Refuse(c) ==
    /\ Show(c, "refused")
    /\ code' = IF code = None THEN "rejected" ELSE code
    /\ Await(pc, code')
    /\ UNCHANGED consumed

\* Mutant: no replay guard.
CallbackReplayable(c) ==
    /\ listening /\ answer[c] = None
    /\ \/ c \in Good /\ Accept(c)
       \/ c \in Bad /\ Refuse(c)
       \/ /\ c \in Stray
          /\ Show(c, "not found")
          /\ UNCHANGED <<pc, listening, code, consumed, exit>>
    /\ UNCHANGED stored

Callback(c) ==
    /\ listening /\ answer[c] = None
    /\ \/ /\ c \in Stray
          /\ Show(c, "not found")
          /\ UNCHANGED <<pc, listening, code, consumed, exit>>
       \/ /\ c \notin Stray /\ consumed
          /\ Show(c, "already consumed")
          /\ UNCHANGED <<pc, listening, code, consumed, exit>>
       \/ c \in Bad /\ ~consumed /\ Refuse(c)
       \/ c \in Good /\ ~consumed /\ Accept(c)
    /\ UNCHANGED stored

\* `new URL' of a malformed target (`//') throws in the handler; no handler of
\* uncaught exceptions is set, so the process dies wherever runLogin waits.
Malformed ==
    /\ listening
    /\ Exit("crash")
    /\ UNCHANGED <<code, consumed, answer, stored>>

\* Mutant: the timer is set only for a listener nobody has called yet.
TimeoutUncalled ==
    /\ pc = "waiting"
    /\ \A c \in Callbacks : answer[c] = None
    /\ Exit("error")
    /\ UNCHANGED <<code, consumed, answer, stored>>

Timeout ==
    /\ pc = "waiting"
    /\ Exit("error")
    /\ UNCHANGED <<code, consumed, answer, stored>>

\* The token response is in: it is stored without a further await.
Exchanged ==
    /\ pc = "exchanging"
    /\ \/ /\ stored' = code
          /\ pc' = "tier"
          /\ UNCHANGED <<listening, exit>>
       \/ /\ stored' \in {stored, code}     \* refused, invalid, or writeToken
          /\ Exit("error")                  \* threw, perhaps half-way
    /\ UNCHANGED <<code, consumed, answer>>

\* fetchTierDisplay does not throw.
TierShown ==
    /\ pc = "tier"
    /\ Exit("ok")
    /\ UNCHANGED <<code, consumed, answer, stored>>

LoginNext ==
    \/ Start
    \/ BrowserOpened
    \/ BrowserFailed
    \/ \E c \in Callbacks : Callback(c)
    \/ Malformed
    \/ Timeout
    \/ Exchanged
    \/ TierShown

\* The timer is the only wait the program itself ends.
LoginSpec == LoginInit /\ [][LoginNext]_loginVars /\ WF_loginVars(Timeout)

-----------------------------------------------------------------------------
(* Properties. *)

LoginTypeOK ==
    /\ pc \in {"start", "browser", "waiting", "exchanging", "tier", "exited"}
    /\ listening \in BOOLEAN
    /\ code \in Callbacks \cup {None, "rejected"}
    /\ consumed \in BOOLEAN
    /\ answer \in [Callbacks -> {None, "success", "refused",
                                 "already consumed", "not found"}]
    /\ stored \in Good \cup {None}
    /\ exit \in {None, "ok", "error", "crash"}

\* "Prevents a second callback with the same state from being accepted during
\* the token-exchange window": one callback at most is shown the success page,
\* and its code is the one that is exchanged and whose token is stored.
OneSuccess ==
    /\ \A c \in Callbacks : answer[c] = "success" => code = c
    /\ stored # None => stored = code /\ answer[stored] = "success"

\* Exit status 0 means that the token of the callback that succeeded is
\* stored; a callback that is refused ends the login without a token.
ExitHonest ==
    /\ exit = "ok" => stored # None
    /\ \A c \in Callbacks : answer[c] = "refused" =>
           exit \in {"error", "crash"} /\ stored = None

\* What the browser was shown, what is stored and how the process ended agree.
LoginHonest == OneSuccess /\ ExitHonest

\* Once the callback is waited for, a code arrives or the login ends, whatever
\* requests reach the listener.
WaitEnds == pc = "waiting" ~> pc \in {"exchanging", "exited"}
=============================================================================
