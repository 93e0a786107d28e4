------------------------------ MODULE ToolCalls ------------------------------
(***************************************************************************)
(* Tool calls and tools/list requests of the MCP server                    *)
(* (az-sports-dev/packages/mcp-server/src/index.ts, middleware.ts,         *)
(* allowlist.ts, client.ts): the middleware binds an identity and a client *)
(* to each call, the client's allowlist is fetched, the tool runs and two  *)
(* events report the call.                                                 *)
(*                                                                         *)
(* Meanwhile `login' and `logout' change the stored token and the upstream *)
(* changes what accounts may use.  An AzsClient is named after the request *)
(* that created it; a list may be asked for again when it is answered.  A  *)
(* step runs to the next await.                                            *)
(***************************************************************************)
EXTENDS Naturals, Sequences

CONSTANTS Calls, Lists,     \* tools/call requests, clients asking for lists
          tool,             \* the tool each call names
          Tools,
          Tokens, Kind,     \* classifyIdentity: "user" or "system"
          Environments,     \* [API_KEY, AZS_API_KEY, dev] of the server process
          None,
          Statuses, Codes,  \* of upstream replies; 200 is the only good one
          Ttl, Timeout,     \* of a cached allowlist, of an upstream request
          MaxClock, MaxSwitches, MaxReplans,
          MaxReplies        \* bound: upstream requests of one call

Requests == Calls \cup Lists
Found == Tokens \cup {None}
StoredTokens == {t \in Tokens : Kind[t] = "user"} \cup {None}     \* readToken
NoEnvironment == [API_KEY |-> None, AZS_API_KEY |-> None, dev |-> FALSE]

ASSUME ToolCallsAssumption ==
    /\ Calls \cap Lists = {} /\ None \notin Requests \cup Tokens
    /\ tool \in [Calls -> Tools]
    /\ Kind \in [Tokens -> {"user", "system"}]
    /\ Environments \subseteq [API_KEY : Found, AZS_API_KEY : Found, dev : BOOLEAN]
    /\ Ttl \in Nat /\ Timeout \in Nat \ {0}
    /\ MaxClock \in Nat /\ MaxReplies \in Nat \ {0}

\* None is neither a code nor an error, and 0 is no status.
ASSUME RepliesAssumption ==
    /\ Statuses \subseteq Nat \ {0} /\ None \notin Statuses
    /\ None \notin {"auth_error", "token_expired", "quota_exceeded", "rate_limit"}
    /\ \A status \in Statuses \cup {0, None}, code \in Codes \cup {None} :
          None # [status |-> status, code |-> code]

VARIABLES
    transport, env,     \* how the server was started
    stored,             \* the token in the token store
    plans,              \* upstream: the tools each account may use
    clock,
    switches, replans,  \* counted for their bounds
    session,            \* sessionClient of stdio's tools/list
    token,              \* of each AzsClient
    cache,              \* AllowlistCache
    pc,
    fetch,              \* the allowlist fetch a request awaits
    upstream, replies,  \* ctx.upstream_status; upstream requests that ended
    events,             \* what ctx.emit was given
    answer,             \* to each request
    shown,              \* the age of the allowlist a list was answered from
    since               \* ghost: tools a call's account could use at some
                        \* time since the call began

world == <<transport, env, stored, plans, clock, switches, replans>>
clients == <<session, token, cache, fetch>>
callVars == <<upstream, replies, events, since>>
toolVars == <<world, clients, callVars, pc, answer, shown>>

NoFetch == [sent |-> 0, served |-> None, tools |-> {}]

-----------------------------------------------------------------------------
(* Identity. *)

requireAllowedIdentity(t) ==
    IF t # None /\ Kind[t] = "system" /\ ~env.dev THEN None ELSE t

\* None where the code throws.
resolveIdentity ==
    IF requireAllowedIdentity(env.API_KEY) # None THEN env.API_KEY
    ELSE IF env.AZS_API_KEY # None THEN requireAllowedIdentity(env.AZS_API_KEY)
    ELSE requireAllowedIdentity(stored)

\* Over HTTP it is the bearer token of the request, which may be anyone's.
Identities ==
    IF transport = "stdio" THEN {resolveIdentity}
    ELSE {requireAllowedIdentity(t) : t \in Tokens} \cup {None}

ToolCallsInit ==
    /\ transport \in {"stdio", "http"}
    /\ env \in Environments
    /\ stored \in StoredTokens
    /\ IF transport = "stdio" THEN resolveIdentity # None      \* runServe
       ELSE env = NoEnvironment /\ stored = None       \* neither is read
    /\ plans = [t \in Tokens |-> Tools]
    /\ clock = 0 /\ switches = 0 /\ replans = 0
    /\ session = None
    /\ token = [r \in Requests |-> None]
    /\ cache = [r \in Requests |-> None]
    /\ pc = [r \in Requests |-> "start"]
    /\ fetch = [r \in Requests |-> NoFetch]
    /\ upstream = [c \in Calls |-> None]
    /\ replies = [c \in Calls |-> 0]
    /\ events = [c \in Calls |-> <<>>]
    /\ answer = [r \in Requests |-> None]
    /\ shown = [l \in Lists |-> None]
    /\ since = [c \in Calls |-> {}]

-----------------------------------------------------------------------------
(* emitObservability and mapError. *)

Event(kind, status, up) == [kind |-> kind, status |-> status, upstream |-> up]
StartEvent == Event("start", None, None)
Plain == [status |-> None, code |-> None]       \* an Error of another class
NetworkError == [status |-> 0, code |-> None]

\* classifyStatus: `thrown' is None, Plain or an AzsApiError.
Classify(thrown) ==
    IF thrown = None THEN "ok"
    ELSE IF thrown = Plain THEN "unexpected_error"
    ELSE IF thrown.status = 401 \/ thrown.code \in {"auth_error", "token_expired"}
         THEN "auth_error"
    ELSE IF thrown.status = 429 \/ thrown.code \in {"quota_exceeded", "rate_limit"}
         THEN "quota_exceeded"
    ELSE "upstream_error"

Reply(r, how) ==
    /\ pc' = [pc EXCEPT ![r] = "done"]
    /\ answer' = [answer EXCEPT ![r] = how]

\* Mutant: the end event is emitted after the call, not in a finally.
EndNotFinally(c, sofar, thrown, up) ==
    /\ events' = [events EXCEPT ![c] =
           IF thrown = None THEN Append(sofar, Event("end", "ok", up)) ELSE sofar]
    /\ Reply(c, IF thrown = None THEN "ok" ELSE "error")

End(c, sofar, thrown, up) ==
    /\ events' = [events EXCEPT ![c] = Append(sofar, Event("end", Classify(thrown), up))]
    /\ Reply(c, IF thrown = None THEN "ok" ELSE "error")

-----------------------------------------------------------------------------
(* The allowlist. *)

Client(r) == IF r \in Lists /\ transport = "stdio" THEN session ELSE r

\* Mutant: an entry never expires.
CachedForever(k) == cache[k] # None

Cached(k) == cache[k] # None /\ clock - cache[k].at <= Ttl

\* Mutant: the cache is keyed by the token.
EntryOfToken(k) ==
    {cache[q] : q \in {q \in Requests : token'[q] = token'[k] /\ Cached(q)}}

\* AllowlistCache.get, of at most one element.
Entry(k) == IF Cached(k) THEN {cache[k]} ELSE {}

\* What the allowlist is for: assertToolAllowed, after which the tool begins
\* or an Error is thrown, or the answer to a list.
Use(r, sofar, list) ==
    IF r \in Lists
    THEN /\ Reply(r, "ok")
         /\ shown' = [shown EXCEPT ![r] = clock - list.served]
         /\ UNCHANGED events
    ELSE /\ UNCHANGED shown
         /\ IF tool[r] \in list.tools
            THEN /\ pc' = [pc EXCEPT ![r] = "tool"]
                 /\ events' = [events EXCEPT ![r] = sofar]
                 /\ UNCHANGED answer
            ELSE End(r, sofar, Plain, None)

\* No allowlist: nothing is listed or allowed.
DoWithout(r, sofar) ==
    IF r \in Lists
    THEN /\ Reply(r, "none")
         /\ shown' = [shown EXCEPT ![r] = None]
         /\ UNCHANGED events
    ELSE End(r, sofar, Plain, None) /\ UNCHANGED shown

\* getAllowlistForClient up to its await; a token that cannot be sent in a
\* header is not.
GetAllowlist(r, k, sofar) ==
    \/ \E list \in Entry(k) :
          /\ Use(r, sofar, list)
          /\ UNCHANGED <<cache, fetch>>
    \/ /\ Entry(k) = {}
       /\ cache' = [cache EXCEPT ![k] = None]
       /\ \/ /\ pc' = [pc EXCEPT ![r] = "allowlist"]
             /\ fetch' = [fetch EXCEPT ![r] = [sent |-> clock, served |-> None, tools |-> {}]]
             /\ events' = IF r \in Lists THEN events ELSE [events EXCEPT ![r] = sofar]
             /\ UNCHANGED <<answer, shown>>
          \/ DoWithout(r, sofar) /\ UNCHANGED fetch

Sofar(r) == IF r \in Lists THEN <<>> ELSE events[r]

\* The upstream evaluates the request.
Served(r) ==
    /\ pc[r] = "allowlist" /\ fetch[r].served = None
    /\ fetch' = [fetch EXCEPT ![r] = [sent |-> @.sent, served |-> clock,
                                      tools |-> plans[token[Client(r)]]]]
    /\ UNCHANGED <<world, session, token, cache, callVars, pc, answer, shown>>

\* The cache is a WeakMap: only the session's client outlives its request.
AllowlistArrives(r) ==
    /\ pc[r] = "allowlist" /\ fetch[r].served # None
    /\ LET list == [tools |-> fetch[r].tools, served |-> fetch[r].served, at |-> clock]
       IN  /\ cache' = IF Client(r) = session THEN [cache EXCEPT ![session] = list]
                       ELSE cache
           /\ Use(r, Sofar(r), list)
    /\ fetch' = [fetch EXCEPT ![r] = NoFetch]
    /\ UNCHANGED <<world, session, token, upstream, replies, since>>

\* Mutant: no abort timer.
AllowlistFailsUntimed(r) ==
    /\ pc[r] = "allowlist" /\ fetch[r].served # None
    /\ DoWithout(r, Sofar(r))
    /\ fetch' = [fetch EXCEPT ![r] = NoFetch]
    /\ UNCHANGED <<world, session, token, cache, upstream, replies, since>>

\* Refused, unreachable, not an allowlist, or aborted by the timer.
AllowlistFails(r) ==
    /\ pc[r] = "allowlist"
    /\ DoWithout(r, Sofar(r))
    /\ fetch' = [fetch EXCEPT ![r] = NoFetch]
    /\ UNCHANGED <<world, session, token, cache, upstream, replies, since>>

-----------------------------------------------------------------------------
(* A call. *)

\* identityMiddleware; resolveClientId and the AzsClient constructor throw
\* outside its try.
StartCall(c) ==
    /\ pc[c] = "start"
    /\ \E t \in Identities :
          \/ /\ t = None
             /\ events' = [events EXCEPT ![c] = <<StartEvent, Event("end", "auth_error", None)>>]
             /\ Reply(c, "error")
             /\ UNCHANGED <<token, cache, fetch, since, shown>>
          \/ /\ t # None
             /\ Reply(c, "error")
             /\ UNCHANGED <<token, cache, fetch, since, events, shown>>
          \/ /\ t # None
             /\ token' = [token EXCEPT ![c] = t]
             /\ since' = [since EXCEPT ![c] = plans[t]]
             /\ GetAllowlist(c, c, <<StartEvent>>)
    /\ UNCHANGED <<world, session, upstream, replies>>

\* One upstream request of the handler is answered.  The handler goes on,
\* perhaps ignoring a failure (allSettled), returns its text, or throws.
ToolReplies(c) ==
    /\ pc[c] = "tool"
    /\ replies' = [replies EXCEPT ![c] = @ + 1]
    /\ \E status \in Statuses :
          /\ upstream' = [upstream EXCEPT ![c] = status]
          /\ \/ replies'[c] < MaxReplies /\ UNCHANGED <<pc, answer, events>>
             \/ End(c, events[c], None, status)
             \/ \E code \in Codes :
                   /\ status # 200
                   /\ End(c, events[c], [status |-> status, code |-> code], status)
             \/ status = 200 /\ End(c, events[c], NetworkError, status)     \* not JSON
    /\ UNCHANGED <<world, clients, since, shown>>

\* There is no reply: the network fails or the timer aborts the request.
ToolUnanswered(c) ==
    /\ pc[c] = "tool"
    /\ replies' = [replies EXCEPT ![c] = @ + 1]
    /\ \/ replies'[c] < MaxReplies /\ UNCHANGED <<pc, answer, events>>
       \/ End(c, events[c], None, upstream[c])
       \/ End(c, events[c], NetworkError, upstream[c])
    /\ UNCHANGED <<world, clients, upstream, since, shown>>

\* The input lacks what the view needs, or a response cannot be laid out.
ToolThrows(c) ==
    /\ pc[c] = "tool"
    /\ End(c, events[c], Plain, upstream[c])
    /\ UNCHANGED <<world, clients, upstream, replies, since, shown>>

-----------------------------------------------------------------------------
(* tools/list: over stdio the first one creates the session's client. *)

StartList(l) ==
    /\ pc[l] \in {"start", "done"}
    /\ \/ /\ session = None \/ transport = "http"
          /\ \E t \in Identities :
                \/ /\ t # None
                   /\ token' = [token EXCEPT ![l] = t]
                   /\ session' = IF transport = "stdio" THEN l ELSE session
                   /\ GetAllowlist(l, l, <<>>)
                \/ /\ Reply(l, "error")         \* no identity, or client id
                   /\ UNCHANGED <<session, token, cache, fetch, events, shown>>
       \/ /\ session # None
          /\ UNCHANGED <<session, token>>
          /\ GetAllowlist(l, session, <<>>)
    /\ UNCHANGED <<world, upstream, replies, since>>

-----------------------------------------------------------------------------
(* The environment. *)

Switch ==
    /\ switches < MaxSwitches
    /\ switches' = switches + 1
    /\ stored' \in StoredTokens \ {stored}
    /\ UNCHANGED <<transport, env, plans, clock, replans, clients, callVars, pc, answer, shown>>

Replan ==
    /\ replans < MaxReplans
    /\ replans' = replans + 1
    /\ \E t \in Tokens, offered \in SUBSET Tools :
          /\ plans' = [plans EXCEPT ![t] = offered]
          /\ since' = [c \in Calls |-> IF token[c] = t THEN since[c] \cup offered
                                                       ELSE since[c]]
    /\ UNCHANGED <<transport, env, stored, clock, switches, clients, upstream,
                   replies, events, pc, answer, shown>>

\* The timer of a fetch fires before Timeout has passed.
Tick ==
    /\ clock < MaxClock
    /\ \A r \in Requests : pc[r] = "allowlist" => clock < fetch[r].sent + Timeout
    /\ clock' = clock + 1
    /\ UNCHANGED <<transport, env, stored, plans, switches, replans, clients,
                   callVars, pc, answer, shown>>

ToolCallsNext ==
    \/ \E c \in Calls :
          \/ StartCall(c)
          \/ ToolReplies(c)
          \/ ToolUnanswered(c)
          \/ ToolThrows(c)
    \/ \E l \in Lists : StartList(l)
    \/ \E r \in Requests :
          \/ Served(r)
          \/ AllowlistArrives(r)
          \/ AllowlistFails(r)
    \/ Switch
    \/ Replan
    \/ Tick

\* Both waits of a request are bounded by an abort timer of the client.
ToolCallsFairness ==
    /\ \A r \in Requests : WF_toolVars(AllowlistFails(r))
    /\ \A c \in Calls : WF_toolVars(ToolUnanswered(c))

ToolCallsSpec == ToolCallsInit /\ [][ToolCallsNext]_toolVars /\ ToolCallsFairness

-----------------------------------------------------------------------------
(* Properties. *)

Allowlists == [tools : SUBSET Tools, served : 0 .. MaxClock, at : 0 .. MaxClock]

ToolCallsTypeOK ==
    /\ stored \in StoredTokens
    /\ plans \in [Tokens -> SUBSET Tools]
    /\ session \in Lists \cup {None}
    /\ token \in [Requests -> Found]
    /\ cache \in [Requests -> Allowlists \cup {None}]
    /\ pc \in [Requests -> {"start", "allowlist", "tool", "done"}]
    /\ upstream \in [Calls -> Statuses \cup {None}]
    /\ replies \in [Calls -> 0 .. MaxReplies]
    /\ \A c \in Calls : Len(events[c]) <= 2
    /\ answer \in [Requests -> {None, "ok", "none", "error"}]
    /\ shown \in [Lists -> (0 .. MaxClock) \cup {None}]

\* "That keeps tier/tool revocation checks immediate": the tool of a call runs
\* only if its account could use it at some time since the call began; no
\* allowlist from before decides, whatever lists and calls were served then.
\* System tokens run none outside dev mode.
FreshlyAllowed ==
    \A c \in Calls : pc[c] = "tool" =>
        /\ tool[c] \in since[c]
        /\ Kind[token[c]] = "system" => env.dev

\* A call that got a client is reported by one start and one end event, and
\* the end tells the truth: "ok" exactly if the caller was given a result, a
\* failure of the upstream only if the tool was allowed to reach it, an
\* authentication failure only if no identity was found or the upstream said so.
ReportedTruthfully ==
    \A c \in Calls :
        /\ pc[c] \in {"allowlist", "tool"} => events[c] = <<StartEvent>>
        /\ pc[c] = "done" /\ events[c] = <<>> => answer[c] = "error" /\ token[c] = None
        /\ pc[c] = "done" /\ events[c] # <<>> =>
              Len(events[c]) = 2 /\ LET e == events[c][2] IN
              /\ events[c] = <<StartEvent, e>> /\ e.kind = "end"
              /\ e.status = "ok" <=> answer[c] = "ok"
              /\ e.status \in {"ok", "upstream_error", "quota_exceeded"} =>
                    tool[c] \in since[c]
              /\ e.status = "auth_error" => token[c] = None \/ e.upstream \notin {None, 200}

\* What a list shows was in force no longer ago than the cache keeps it and
\* the fetch may take.
ListedRecently ==
    \A l \in Lists : shown[l] # None => shown[l] <= Ttl + Timeout

\* Every request that waits is answered, though the upstream may never reply.
RequestEnds == \A r \in Requests : pc[r] \in {"allowlist", "tool"} ~> pc[r] = "done"
=============================================================================
