----------------------------- MODULE HttpServer -----------------------------
(***************************************************************************)
(* `azs-mcp-server serve --http' (az-sports-dev/packages/mcp-server/src/   *)
(* transport/http.ts, request-validation.ts, runServe in index.ts), with   *)
(* AZS_MCP_OBS_DEST=upstream: requests pass the in-flight cap, the         *)
(* validation phases and the rate limiter, wait for their body and are     *)
(* given to an SDK transport of their own; each signal starts a shutdown.  *)
(*                                                                         *)
(* A handler up to its next await on the network is one step.  The MCP SDK *)
(* is external: the promise of its handleRequest may settle before or      *)
(* after the response.                                                     *)
(***************************************************************************)
EXTENDS Integers, FiniteSets

CONSTANTS Requests,
          Addresses, Tokens, address, token,  \* where requests come from
          Signals,
          MaxInFlight, RateLimit, Window,
          MaxClock                            \* bound on time

ASSUME HttpAssumption ==
    /\ address \in [Requests -> Addresses]
    /\ token \in [Requests -> Tokens]
    /\ MaxInFlight \in Nat \ {0} /\ RateLimit \in Nat \ {0}
    /\ Window \in Nat \ {0} /\ MaxClock \in Nat

VARIABLES
    conn,       \* each request's connection; "idle": its client has the turn,
                \* no request is on it, or not all of its headers
    work,       \* the promise of handleRequest: what it awaits
    inFlight,   \* #inFlight
    active,     \* #activeSdkTransports
    answered,   \* requests whose response has been written
    tool,       \* the tool call the SDK runs for the request
    event,      \* where its two events are
    hits,       \* #requestsByKey: for each address, the requests it holds a
                \* timestamp of, with that timestamp
    clock,
    checks,     \* ghost: what the limiter said, and when
    listener,
    shut,       \* what each shutdown awaits
    exit

requestVars == <<conn, work, inFlight, active, answered, tool, event>>
limiterVars == <<hits, checks>>
serveVars == <<listener, shut, exit>>
httpVars == <<requestVars, limiterVars, clock, serveVars>>

None == "none"
Kinds == {"start", "end"}

HttpInit ==
    /\ conn = [r \in Requests |-> None]
    /\ work = [r \in Requests |-> None]
    /\ inFlight = {} /\ active = {} /\ answered = {}
    /\ tool = [r \in Requests |-> None]
    /\ event = [r \in Requests |-> [k \in Kinds |-> None]]
    /\ hits = [a \in Addresses |-> {}]
    /\ clock = 0
    /\ checks = [r \in Requests |-> [at |-> 0, said |-> None]]
    /\ listener = "open"
    /\ shut = [s \in Signals |-> None]
    /\ exit = None

-----------------------------------------------------------------------------
(* SlidingWindowRateLimiter.check. *)

\* Mutant: a request at the start of the window still counts.
InWindowStale(a) == {h \in hits[a] : h[2] >= clock - Window}

InWindow(a) == {h \in hits[a] : h[2] > clock - Window}

Allowed(a) == Cardinality(InWindow(a)) < RateLimit

Note(r, said) == checks' = [checks EXCEPT ![r] = [at |-> clock, said |-> said]]

LimiterPasses(r) ==
    LET a == address[r] IN
    /\ Allowed(a)
    /\ hits' = [hits EXCEPT ![a] = InWindow(a) \cup {<<r, clock>>}]
    /\ Note(r, "pass")

LimiterRefuses(r) ==
    LET a == address[r] IN
    /\ ~Allowed(a)
    /\ hits' = [hits EXCEPT ![a] = InWindow(a)]
    /\ Note(r, "refuse")

-----------------------------------------------------------------------------
(* A request. *)

\* The client connects; it may never send its request.
Open(r) ==
    /\ listener = "open"
    /\ conn[r] = None /\ work[r] = None
    /\ conn' = [conn EXCEPT ![r] = "idle"]
    /\ UNCHANGED <<work, inFlight, active, answered, tool, event, limiterVars,
                   clock, serveVars>>

\* The request comes on its own connection, or on one kept alive after another,
\* even after close().
Connect(r) ==
    \/ /\ conn[r] = "idle"
       /\ conn' = [conn EXCEPT ![r] = "open"]
    \/ \E q \in Requests :
          /\ conn[q] = "idle" /\ work[q] # None /\ conn[r] = None
          /\ conn' = [conn EXCEPT ![q] = "gone", ![r] = "open"]

\* Mutant: the promise is not deleted from the set.
SettleLeaking(r) ==
    /\ work' = [work EXCEPT ![r] = "settled"]
    /\ UNCHANGED inFlight

Settle(r) ==
    /\ work' = [work EXCEPT ![r] = "settled"]
    /\ inFlight' = inFlight \ {r}

\* Mutant: one request too many.
FullLate == Cardinality(inFlight) > MaxInFlight

Full == Cardinality(inFlight) >= MaxInFlight

TurnAway(r) ==
    /\ Full
    /\ work' = [work EXCEPT ![r] = "settled"]
    /\ answered' = answered \cup {r}
    /\ UNCHANGED <<inFlight, limiterVars>>

\* Phases 0 to 6 do not wait; a refusal by one of them is the whole request.
\* The body is awaited unless its declared length is refused.
Validate(r) ==
    /\ ~Full
    /\ \/ /\ Settle(r)                              \* path, method, binding,
          /\ answered' = answered \cup {r}          \* headers
          /\ UNCHANGED limiterVars
       \/ /\ LimiterRefuses(r)
          /\ Settle(r)
          /\ answered' = answered \cup {r}
       \/ /\ LimiterPasses(r)
          /\ \/ /\ Settle(r)                        \* authorization, length
                /\ answered' = answered \cup {r}
             \/ /\ work' = [work EXCEPT ![r] = "body"]
                /\ inFlight' = inFlight \cup {r}
                /\ UNCHANGED answered

Arrive(r) ==
    /\ work[r] = None
    /\ Connect(r)
    /\ TurnAway(r) \/ Validate(r)
    /\ UNCHANGED <<active, tool, event, clock, serveVars>>

Emit(r, kind) == event' = [event EXCEPT ![r][kind] = "pending"]

\* The whole body is there.
BodyRead(r) ==
    /\ work[r] = "body" /\ conn[r] = "open"
    /\ \/ /\ Settle(r)                              \* not JSON, or too long
          /\ answered' = answered \cup {r}
          /\ UNCHANGED <<active, tool, event>>
       \/ /\ active' = active \cup {r}
          /\ \/ /\ work' = [work EXCEPT ![r] = "handling"]
                /\ tool' = [tool EXCEPT ![r] = "running"]
                /\ Emit(r, "start")
                /\ UNCHANGED <<inFlight, answered>>
             \/ /\ Settle(r)                        \* the SDK answers, or
                /\ answered' = answered \cup {r}    \* dispatch's catch does
                /\ UNCHANGED <<tool, event>>
    /\ UNCHANGED <<conn, limiterVars, clock, serveVars>>

\* The response is sent through the request's SDK transport, if that is
\* still connected.
ToolEnds(r) ==
    /\ tool[r] = "running"
    /\ tool' = [tool EXCEPT ![r] = "done"]
    /\ Emit(r, "end")
    /\ answered' = IF r \in active THEN answered \cup {r} ELSE answered
    /\ UNCHANGED <<conn, work, inFlight, active, limiterVars, clock, serveVars>>

HandlerReturns(r) ==
    /\ work[r] = "handling"
    /\ Settle(r)
    /\ UNCHANGED <<conn, active, answered, tool, event, limiterVars, clock,
                   serveVars>>

-----------------------------------------------------------------------------
(* The response's `finish' and `close' events, each handled by             *)
(* flushRequestEmitter (once) and closeRequestTransport (once).            *)

\* The POST of a flush is begun; nobody awaits it.
Flushed(r) == [k \in Kinds |-> IF event[r][k] = "pending" THEN "posted"
                                                         ELSE event[r][k]]

\* Mutant: the events are sent when the connection closes, if the transport
\* has not been closed before.
ResponseOverOnClose(r) ==
    /\ active' = active \ {r}
    /\ event' = IF r \in active /\ conn'[r] = "gone"
                THEN [event EXCEPT ![r] = Flushed(r)] ELSE event

ResponseOver(r) ==
    /\ active' = active \ {r}
    /\ event' = IF r \in active THEN [event EXCEPT ![r] = Flushed(r)] ELSE event

Finish(r) ==
    /\ conn[r] = "open" /\ r \in answered
    /\ conn' = [conn EXCEPT ![r] = "idle"]
    /\ ResponseOver(r)
    /\ UNCHANGED <<work, inFlight, answered, tool, limiterVars, clock,
                   serveVars>>

\* The client leaves, a timeout of node:http ends the connection, or it was
\* one to close after the response; an abort ends the wait for the body.
Disconnect(r) ==
    /\ conn[r] \in {"open", "idle"}
    /\ conn' = [conn EXCEPT ![r] = "gone"]
    /\ ResponseOver(r)
    /\ IF work[r] = "body" THEN Settle(r) ELSE UNCHANGED <<work, inFlight>>
    /\ UNCHANGED <<answered, tool, limiterVars, clock, serveVars>>

Tick ==
    /\ clock < MaxClock
    /\ clock' = clock + 1
    /\ UNCHANGED <<requestVars, limiterVars, serveVars>>

-----------------------------------------------------------------------------
(* Shutdown. *)

\* close() of a server that has emitted `close' emits it again, with an error
\* for the new callback, on which the process exits.
Signal(s) ==
    /\ shut[s] = None
    /\ \/ /\ listener # "closed"
          /\ listener' = "closing"
          /\ shut' = [shut EXCEPT ![s] =
                 IF listener = "open" THEN "close" ELSE "error"]
          /\ UNCHANGED exit
       \/ /\ listener = "closed"
          /\ exit' = "failure"
          /\ UNCHANGED <<listener, shut>>
    /\ UNCHANGED <<requestVars, limiterVars, clock>>

\* `close' is emitted: the first shutdown goes on; the callback of any other
\* is given an error, and the process exits before the first one can.
Closed ==
    /\ listener = "closing"
    /\ \A r \in Requests : conn[r] \notin {"open", "idle"}
    /\ listener' = "closed"
    /\ exit' = IF \E s \in Signals : shut[s] = "error" THEN "failure" ELSE exit
    /\ shut' = [s \in Signals |-> IF shut[s] = "close" THEN "drain" ELSE shut[s]]
    /\ UNCHANGED <<requestVars, limiterVars, clock>>

\* No request can be added any more, so the copy of #inFlight that is awaited
\* settles when the set is empty.  The startup emitter has nothing to flush.
Drained(s) ==
    /\ shut[s] = "drain"
    /\ inFlight = {}
    /\ exit' = "success"
    /\ active' = {}
    /\ UNCHANGED <<conn, work, inFlight, answered, tool, event, limiterVars,
                   clock, listener, shut>>

HttpNext ==
    /\ exit = None
    /\ \/ \E r \in Requests :
             \/ Open(r)
             \/ Arrive(r)
             \/ BodyRead(r)
             \/ ToolEnds(r)
             \/ HandlerReturns(r)
             \/ Finish(r)
             \/ Disconnect(r)
       \/ Tick
       \/ \E s \in Signals : Signal(s) \/ Drained(s)
       \/ Closed

Running(A) == exit = None /\ A

\* Upstream calls are aborted after 10 s, the SDK's promise settles, and the
\* event loop runs what is ready.  Nothing is assumed of clients: no timer of
\* the server bounds a connection, a body or a response that is not taken, and
\* those of node:http stop or are restarted by every byte.
HttpFairness ==
    /\ \A r \in Requests :
          /\ WF_httpVars(Running(ToolEnds(r)))
          /\ WF_httpVars(Running(HandlerReturns(r)))
    /\ WF_httpVars(Running(Closed))
    /\ \A s \in Signals : WF_httpVars(Running(Drained(s)))

HttpSpec == HttpInit /\ [][HttpNext]_httpVars /\ HttpFairness

-----------------------------------------------------------------------------
(* Properties. *)

HttpTypeOK ==
    /\ conn \in [Requests -> {None, "open", "idle", "gone"}]
    /\ work \in [Requests -> {None, "body", "handling", "settled"}]
    /\ inFlight \subseteq Requests
    /\ active \subseteq Requests
    /\ answered \subseteq Requests
    /\ tool \in [Requests -> {None, "running", "done"}]
    /\ event \in [Requests -> [Kinds -> {None, "pending", "posted"}]]
    /\ \A a \in Addresses :
          hits[a] \subseteq Requests \X (0 .. MaxClock) /\ Cardinality(hits[a]) <= RateLimit
    /\ clock \in 0 .. MaxClock
    /\ checks \in [Requests -> [at : 0 .. MaxClock, said : {None, "pass", "refuse"}]]
    /\ listener \in {"open", "closing", "closed"}
    /\ shut \in [Signals -> {None, "close", "drain", "error"}]
    /\ exit \in {None, "success", "failure"}

\* The set of promises is exact, however handlers, disconnects and the SDK
\* interleave, and within the cap: no slot leaks and none is freed early.
InFlightExact ==
    /\ inFlight = {r \in Requests : work[r] \in {"body", "handling"}}
    /\ Cardinality(inFlight) <= MaxInFlight

\* An SDK transport is kept only for a request whose response is not over.
TransportsClosed == \A r \in active : conn[r] = "open"

PassedInWindow(R, t) ==
    {q \in R : /\ checks[q].said = "pass"
               /\ checks[q].at > t - Window /\ checks[q].at <= t}

\* The limiter is exact over the sliding window: never more than RateLimit
\* requests of an address pass within Window ticks, and one is refused only
\* when so many did.
WindowExact ==
    \A a \in Addresses :
        LET R == {r \in Requests : address[r] = a} IN
        /\ \A t \in 0 .. clock : Cardinality(PassedInWindow(R, t)) <= RateLimit
        /\ \A r \in R : checks[r].said = "refuse" =>
               Cardinality(PassedInWindow(R, checks[r].at)) >= RateLimit

\* "Per-token HTTP request limit per minute" (README.md of the package).
PerToken ==
    \A r \in Requests : checks[r].said = "refuse" =>
        Cardinality(PassedInWindow({q \in Requests : token[q] = token[r]},
                                   checks[r].at)) >= RateLimit

\* The end event of a call is left unsent only if its client left before it
\* was answered.
AnsweredReported ==
    \A r \in answered :
        conn[r] \in {"idle", "gone"} => \A k \in Kinds : event[r][k] # "pending"

\* A shutdown that reports success has waited for every handler, those whose
\* client has gone included.
DrainedAtExit == exit = "success" => inFlight = {}

\* Every request is accounted for, while it runs and when the process ends: its
\* slot is taken, its transport kept, exactly as long as it needs them.
RequestsAccounted == InFlightExact /\ TransportsClosed /\ DrainedAtExit

\* "clean shutdown on SIGINT/SIGTERM": where no step of it failed, a shutdown
\* completes and the process reports success.
CleanShutdown == exit # "failure"

\* The request's client has the turn: to send its headers or its body, to take
\* its answer, or to leave.
Dawdles(r) == conn[r] = "idle" \/ work[r] = "body" \/ (conn[r] = "open" /\ r \in answered)

\* shutdown() has no deadline, so a signal need not end the process; it does
\* unless one client dawdles for ever.  Nothing else holds it up: no handler, no
\* tool call, no slot of a client that has left, no request taken on a
\* kept-alive connection after close().
ShutdownEnds ==
    (\A r \in Requests : []<>~Dawdles(r)) =>
        \A s \in Signals : shut[s] # None ~> exit # None
=============================================================================
