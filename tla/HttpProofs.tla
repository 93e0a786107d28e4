----------------------------- MODULE HttpProofs -----------------------------
(***************************************************************************)
(* RequestsAccounted, AnsweredReported and WindowExact for any set of      *)
(* requests, finite or not, any limits and any number of signals.  None is *)
(* inductive: that events of an answered request are never left behind     *)
(* rests on which requests can have been answered at all, that the drain   *)
(* finds every handler on what a closed listener says of the connections,  *)
(* and that the limiter is exact on what it remembers of the passes.       *)
(***************************************************************************)
EXTENDS HttpServer, FiniteSetTheorems, TLAPS

Shapes ==
    /\ conn \in [Requests -> {None, "open", "idle", "gone"}]
    /\ work \in [Requests -> {None, "body", "handling", "settled"}]
    /\ tool \in [Requests -> {None, "running", "done"}]
    /\ event \in [Requests -> [Kinds -> {None, "pending", "posted"}]]
    /\ active \subseteq Requests /\ answered \subseteq Requests
    /\ shut \in [Signals -> {None, "close", "drain", "error"}]

Slots == IsFiniteSet(inFlight) /\ InFlightExact

\* A request that is not handled yet has no answer, no tool call, no event.
\* Neither has one an answer whose tool still runs.
NotYet ==
    \A r \in Requests :
        /\ work[r] \in {None, "body"} =>
               r \notin answered /\ tool[r] = None /\ \A k \in Kinds : event[r][k] = None
        /\ tool[r] = "running" => r \notin answered

\* An event of an answered request is unsent only until its response is over.
Unsent ==
    \A r \in answered : \A k \in Kinds : event[r][k] = "pending" => r \in active

\* When close() has completed no connection is left, and only then is there a
\* drain.
NoneLeft ==
    /\ listener = "closed" => \A r \in Requests : conn[r] \notin {"open", "idle"}
    /\ \A s \in Signals : shut[s] = "drain" => listener = "closed"

HttpInv ==
    /\ Shapes
    /\ Slots
    /\ TransportsClosed
    /\ NotYet
    /\ Unsent
    /\ NoneLeft
    /\ DrainedAtExit

-----------------------------------------------------------------------------

LEMMA HttpInvInit == HttpInit => HttpInv
<1> SUFFICES ASSUME HttpInit PROVE HttpInv
  OBVIOUS
<1>1. Shapes /\ TransportsClosed /\ NotYet /\ Unsent /\ NoneLeft /\ DrainedAtExit
  BY DEF HttpInit, Shapes, TransportsClosed, NotYet, Unsent, NoneLeft, DrainedAtExit, None
<1>2. Slots
  <2>1. inFlight = {} /\ IsFiniteSet(inFlight) /\ Cardinality(inFlight) = 0
    BY FS_EmptySet DEF HttpInit
  <2>2. {r \in Requests : work[r] \in {"body", "handling"}} = {}
    BY DEF HttpInit, None
  <2> QED BY <2>1, <2>2, HttpAssumption DEF Slots, InFlightExact
<1> QED BY <1>1, <1>2 DEF HttpInv

\* A slot is given back with the promise.
LEMMA SettleKeepsSlots ==
    ASSUME Slots, Shapes, NEW r \in Requests, Settle(r)
    PROVE  Slots' /\ inFlight' \subseteq inFlight
<1>1. inFlight' = inFlight \ {r} /\ work' = [work EXCEPT ![r] = "settled"]
  BY DEF Settle
<1>2. inFlight' = {q \in Requests : work'[q] \in {"body", "handling"}}
  BY <1>1 DEF Slots, InFlightExact, Shapes
<1>3. IsFiniteSet(inFlight') /\ Cardinality(inFlight') <= Cardinality(inFlight)
  BY <1>1, FS_Subset DEF Slots
<1>4. Cardinality(inFlight') <= MaxInFlight
  BY <1>1, <1>3, FS_CardinalityType, HttpAssumption DEF Slots, InFlightExact
<1> QED BY <1>1, <1>2, <1>3, <1>4 DEF Slots, InFlightExact

\* A slot is taken only below the cap.
LEMMA AdmitKeepsSlots ==
    ASSUME Slots, Shapes, NEW r \in Requests, ~Full,
           work' = [work EXCEPT ![r] = "body"], inFlight' = inFlight \cup {r}
    PROVE  Slots'
<1>1. inFlight' = {q \in Requests : work'[q] \in {"body", "handling"}}
  BY DEF Slots, InFlightExact, Shapes
<1>2. IsFiniteSet(inFlight') /\ Cardinality(inFlight') <= Cardinality(inFlight) + 1
  <2>1. IsFiniteSet(inFlight) /\ Cardinality(inFlight) \in Nat
    BY FS_CardinalityType DEF Slots
  <2>2. /\ IsFiniteSet(inFlight \cup {r})
        /\ \/ Cardinality(inFlight \cup {r}) = Cardinality(inFlight)
           \/ Cardinality(inFlight \cup {r}) = Cardinality(inFlight) + 1
    BY <2>1, FS_AddElement
  <2> QED BY <2>1, <2>2
<1>3. Cardinality(inFlight') <= MaxInFlight
  BY <1>2, FS_CardinalityType, HttpAssumption DEF Slots, Full
<1> QED BY <1>1, <1>2, <1>3 DEF Slots, InFlightExact

LEMMA SameSlots ==
    ASSUME Slots, Shapes, inFlight' = inFlight,
           {r \in Requests : work'[r] \in {"body", "handling"}}
               = {r \in Requests : work[r] \in {"body", "handling"}}
    PROVE  Slots'
  BY DEF Slots, InFlightExact

-----------------------------------------------------------------------------
(* One lemma per action. *)

\* What Arrive does to the slots, and to the request that arrives.
LEMMA ArriveEffect ==
    ASSUME HttpInv, NEW r \in Requests, Arrive(r)
    PROVE  /\ Slots'
           /\ \/ work' = [work EXCEPT ![r] = "settled"] /\ answered' = answered \cup {r}
              \/ work' = [work EXCEPT ![r] = "body"] /\ answered' = answered
<1>1. CASE TurnAway(r)
  <2>1. /\ inFlight' = inFlight /\ work' = [work EXCEPT ![r] = "settled"]
        /\ answered' = answered \cup {r}
    BY <1>1 DEF TurnAway
  <2>2. Slots'
    BY <2>1, SameSlots DEF HttpInv, Shapes, Arrive, None
  <2> QED BY <2>1, <2>2
<1>2. CASE Validate(r)
  <2>1. CASE Settle(r) /\ answered' = answered \cup {r}
    BY <2>1, SettleKeepsSlots DEF HttpInv, Settle
  <2>2. CASE /\ work' = [work EXCEPT ![r] = "body"]
             /\ inFlight' = inFlight \cup {r} /\ answered' = answered
    BY <1>2, <2>2, AdmitKeepsSlots DEF HttpInv, Validate
  <2> QED BY <1>2, <2>1, <2>2 DEF Validate
<1> QED BY <1>1, <1>2 DEF Arrive

LEMMA ArriveKeeps ==
    ASSUME HttpInv, exit = None, NEW r \in Requests, Arrive(r)
    PROVE  HttpInv'
<1> USE DEF HttpInv
<1>1. /\ work[r] = None /\ Connect(r)
      /\ UNCHANGED <<active, tool, event, listener, shut, exit>>
  BY DEF Arrive, serveVars
<1>2. /\ Slots'
      /\ \/ work' = [work EXCEPT ![r] = "settled"] /\ answered' = answered \cup {r}
         \/ work' = [work EXCEPT ![r] = "body"] /\ answered' = answered
  BY ArriveEffect
<1>3. /\ listener # "closed"
      /\ conn' \in [Requests -> {None, "open", "idle", "gone"}]
      /\ \A q \in Requests : conn[q] = "open" => conn'[q] = "open"
  BY <1>1 DEF Connect, NoneLeft, Shapes
<1>4. Shapes'
  BY <1>1, <1>2, <1>3 DEF Shapes
<1>5. TransportsClosed'
  BY <1>1, <1>3 DEF TransportsClosed, Shapes
<1>6. NotYet' /\ Unsent'
  BY <1>1, <1>2 DEF NotYet, Unsent, Shapes, None
<1>7. NoneLeft' /\ DrainedAtExit'
  BY <1>1, <1>3 DEF NoneLeft, DrainedAtExit, None
<1> QED BY <1>2, <1>4, <1>5, <1>6, <1>7

\* A connection without a request is nobody's response.
LEMMA OpenKeeps ==
    ASSUME HttpInv, exit = None, NEW r \in Requests, Open(r)
    PROVE  HttpInv'
<1> USE DEF HttpInv
<1>1. /\ listener = "open" /\ conn[r] = None
      /\ conn' = [conn EXCEPT ![r] = "idle"]
      /\ UNCHANGED <<work, inFlight, active, answered, tool, event, listener, shut, exit>>
  BY DEF Open, serveVars
<1>2. Slots' /\ NotYet' /\ Unsent' /\ DrainedAtExit'
  BY <1>1, SameSlots DEF NotYet, Unsent, DrainedAtExit
<1>3. Shapes' /\ TransportsClosed' /\ NoneLeft'
  BY <1>1 DEF Shapes, TransportsClosed, NoneLeft, None
<1> QED BY <1>2, <1>3

LEMMA BodyReadKeeps ==
    ASSUME HttpInv, exit = None, NEW r \in Requests, BodyRead(r)
    PROVE  HttpInv'
<1> USE DEF HttpInv
<1>0. /\ work[r] = "body" /\ conn[r] = "open"
      /\ UNCHANGED <<conn, listener, shut, exit>>
  BY DEF BodyRead, serveVars
<1>1. /\ r \notin answered /\ tool[r] = None /\ \A k \in Kinds : event[r][k] = None
  BY <1>0 DEF NotYet
<1>2. NoneLeft' /\ DrainedAtExit'
  BY <1>0 DEF NoneLeft, DrainedAtExit, None
<1>3. active' \in {active, active \cup {r}}
  BY DEF BodyRead
<1>4. TransportsClosed'
  BY <1>0, <1>3 DEF TransportsClosed
<1>5. CASE Settle(r) /\ answered' = answered \cup {r} /\ UNCHANGED <<tool, event>>
  <2>1. Slots' /\ work' = [work EXCEPT ![r] = "settled"]
    BY <1>5, SettleKeepsSlots DEF Settle
  <2>2. Shapes'
    BY <1>0, <1>3, <1>5, <2>1 DEF Shapes
  <2>3. NotYet' /\ Unsent'
    BY <1>1, <1>3, <1>5, <2>1 DEF NotYet, Unsent, Shapes, None
  <2> QED BY <1>2, <1>4, <2>1, <2>2, <2>3
<1>6. CASE /\ work' = [work EXCEPT ![r] = "handling"]
           /\ tool' = [tool EXCEPT ![r] = "running"]
           /\ Emit(r, "start") /\ UNCHANGED <<inFlight, answered>>
  <2>1. event' = [event EXCEPT ![r]["start"] = "pending"]
    BY <1>6 DEF Emit
  <2>2. Slots'
    BY <1>0, <1>6, SameSlots DEF Shapes
  <2>3. Shapes'
    BY <1>0, <1>3, <1>6, <2>1 DEF Shapes, Kinds
  <2>4. NotYet' /\ Unsent'
    BY <1>1, <1>3, <1>6, <2>1 DEF NotYet, Unsent, Shapes, None
  <2> QED BY <1>2, <1>4, <2>2, <2>3, <2>4
<1> QED BY <1>5, <1>6 DEF BodyRead

LEMMA ToolEndsKeeps ==
    ASSUME HttpInv, exit = None, NEW r \in Requests, ToolEnds(r)
    PROVE  HttpInv'
<1> USE DEF HttpInv
<1>1. /\ tool[r] = "running" /\ tool' = [tool EXCEPT ![r] = "done"]
      /\ event' = [event EXCEPT ![r]["end"] = "pending"]
      /\ answered' = IF r \in active THEN answered \cup {r} ELSE answered
      /\ UNCHANGED <<conn, work, inFlight, active, listener, shut, exit>>
  BY DEF ToolEnds, Emit, serveVars
<1>2. r \notin answered /\ work[r] \notin {None, "body"}
  BY <1>1 DEF NotYet, None
<1>3. Shapes'
  BY <1>1 DEF Shapes, Kinds
<1>4. Slots' /\ TransportsClosed' /\ NoneLeft' /\ DrainedAtExit'
  BY <1>1, SameSlots DEF TransportsClosed, NoneLeft, DrainedAtExit
<1>5. NotYet' /\ Unsent'
  BY <1>1, <1>2 DEF NotYet, Unsent, Shapes
<1> QED BY <1>3, <1>4, <1>5

LEMMA HandlerReturnsKeeps ==
    ASSUME HttpInv, exit = None, NEW r \in Requests, HandlerReturns(r)
    PROVE  HttpInv'
<1> USE DEF HttpInv
<1>1. /\ Settle(r) /\ work' = [work EXCEPT ![r] = "settled"]
      /\ UNCHANGED <<conn, active, answered, tool, event, listener, shut, exit>>
  BY DEF HandlerReturns, Settle, serveVars
<1>2. Slots'
  BY <1>1, SettleKeepsSlots
<1>3. Shapes' /\ NotYet'
  BY <1>1 DEF Shapes, NotYet, None
<1>4. TransportsClosed' /\ Unsent' /\ NoneLeft' /\ DrainedAtExit'
  BY <1>1 DEF TransportsClosed, Unsent, NoneLeft, DrainedAtExit, None
<1> QED BY <1>2, <1>3, <1>4

\* When a response is over its transport is closed and its events are sent.
LEMMA ResponseOverKeeps ==
    ASSUME HttpInv, NEW r \in Requests, ResponseOver(r),
           conn' \in [Requests -> {None, "open", "idle", "gone"}],
           \A q \in Requests \ {r} : conn'[q] = conn[q],
           answered' = answered
    PROVE  /\ event' \in [Requests -> [Kinds -> {None, "pending", "posted"}]]
           /\ active' \subseteq Requests /\ TransportsClosed' /\ Unsent'
           /\ \A q \in Requests : \A k \in Kinds : event[q][k] = None => event'[q][k] = None
<1> USE DEF HttpInv
<1>1. active' = active \ {r}
  BY DEF ResponseOver
<1>2. /\ event' \in [Requests -> [Kinds -> {None, "pending", "posted"}]]
      /\ \A q \in Requests : \A k \in Kinds :
             event'[q][k] = IF q = r /\ r \in active /\ event[q][k] = "pending"
                            THEN "posted" ELSE event[q][k]
  <2>1. CASE r \in active
    <3>1. event' = [event EXCEPT ![r] = Flushed(r)]
      BY <2>1 DEF ResponseOver
    <3>2. Flushed(r) \in [Kinds -> {None, "pending", "posted"}]
      BY DEF Flushed, Shapes
    <3>3. \A k \in Kinds : Flushed(r)[k] = IF event[r][k] = "pending" THEN "posted"
                                                                    ELSE event[r][k]
      BY DEF Flushed
    <3> QED BY <2>1, <3>1, <3>2, <3>3 DEF Shapes
  <2>2. CASE r \notin active
    BY <2>2 DEF ResponseOver, Shapes
  <2> QED BY <2>1, <2>2
<1>3. TransportsClosed' /\ active' \subseteq Requests
  BY <1>1 DEF TransportsClosed, Shapes
<1>4. Unsent'
  BY <1>1, <1>2 DEF Unsent, Shapes
<1> QED BY <1>2, <1>3, <1>4 DEF None

LEMMA ResponseEndsKeeps ==
    ASSUME HttpInv, exit = None, NEW r \in Requests, Finish(r) \/ Disconnect(r)
    PROVE  HttpInv'
<1> USE DEF HttpInv
<1>1. /\ ResponseOver(r) /\ conn[r] \in {"open", "idle"}
      /\ conn' \in {[conn EXCEPT ![r] = "idle"], [conn EXCEPT ![r] = "gone"]}
      /\ UNCHANGED <<answered, tool, listener, shut, exit>>
  BY DEF Finish, Disconnect, serveVars
<1>2. Slots' /\ \/ UNCHANGED work
                \/ work[r] = "body" /\ work' = [work EXCEPT ![r] = "settled"]
  <2>1. CASE Settle(r) /\ work[r] = "body"
    BY <2>1, SettleKeepsSlots DEF Settle
  <2>2. CASE UNCHANGED <<work, inFlight>>
    BY <2>2, SameSlots
  <2> QED BY <2>1, <2>2 DEF Finish, Disconnect
<1>3. /\ conn' \in [Requests -> {None, "open", "idle", "gone"}]
      /\ \A q \in Requests \ {r} : conn'[q] = conn[q]
  BY <1>1 DEF Shapes
<1>4. /\ event' \in [Requests -> [Kinds -> {None, "pending", "posted"}]]
      /\ active' \subseteq Requests /\ TransportsClosed' /\ Unsent'
      /\ \A q \in Requests : \A k \in Kinds : event[q][k] = None => event'[q][k] = None
  BY <1>1, <1>3, ResponseOverKeeps
<1>5. Shapes'
  BY <1>1, <1>2, <1>3, <1>4 DEF Shapes
<1>6. NotYet'
  BY <1>1, <1>2, <1>4 DEF NotYet, Shapes, None
<1>7. NoneLeft' /\ DrainedAtExit'
  BY <1>1, <1>3 DEF NoneLeft, DrainedAtExit, None
<1> QED BY <1>2, <1>4, <1>5, <1>6, <1>7

\* A step of the shutdown: requests are left as they are.
LEMMA ShutdownKeeps ==
    ASSUME HttpInv, exit = None, Closed \/ \E s \in Signals : Signal(s) \/ Drained(s)
    PROVE  HttpInv'
<1> USE DEF HttpInv
<1>1. UNCHANGED <<conn, work, inFlight, answered, tool, event>>
  BY DEF Closed, Signal, Drained, requestVars
<1>2. Slots' /\ NotYet'
  BY <1>1, SameSlots DEF NotYet
<1>3. CASE Closed
  <2>1. /\ listener' = "closed" /\ exit' # "success" /\ active' = active
        /\ \A r \in Requests : conn[r] \notin {"open", "idle"}
        /\ shut' = [s \in Signals |-> IF shut[s] = "close" THEN "drain" ELSE shut[s]]
    BY <1>3 DEF Closed, requestVars, None
  <2>2. Shapes' /\ TransportsClosed' /\ Unsent' /\ NoneLeft' /\ DrainedAtExit'
    BY <1>1, <2>1 DEF Shapes, TransportsClosed, Unsent, NoneLeft, DrainedAtExit
  <2> QED BY <1>2, <2>2
<1>4. ASSUME NEW s \in Signals, Signal(s) PROVE HttpInv'
  <2>1. /\ active' = active /\ exit' # "success"
        /\ \/ /\ listener # "closed" /\ listener' = "closing"
              /\ shut' = [shut EXCEPT ![s] = IF listener = "open" THEN "close" ELSE "error"]
           \/ UNCHANGED <<listener, shut>>
    BY <1>4 DEF Signal, requestVars, None
  <2>2. Shapes' /\ TransportsClosed' /\ Unsent' /\ NoneLeft' /\ DrainedAtExit'
    BY <1>1, <2>1 DEF Shapes, TransportsClosed, Unsent, NoneLeft, DrainedAtExit
  <2> QED BY <1>2, <2>2
<1>5. ASSUME NEW s \in Signals, Drained(s) PROVE HttpInv'
  <2>1. /\ inFlight = {} /\ active' = {} /\ UNCHANGED <<listener, shut>>
        /\ listener = "closed"
    BY <1>5 DEF Drained, NoneLeft
  <2>2. active = {}
    BY <2>1 DEF NoneLeft, TransportsClosed, Shapes
  <2>3. Shapes' /\ TransportsClosed' /\ Unsent' /\ NoneLeft' /\ DrainedAtExit'
    BY <1>1, <2>1, <2>2 DEF Shapes, TransportsClosed, Unsent, NoneLeft, DrainedAtExit
  <2> QED BY <1>2, <2>3
<1> QED BY <1>3, <1>4, <1>5

LEMMA HttpInvNext == HttpInv /\ [HttpNext]_httpVars => HttpInv'
<1> SUFFICES ASSUME HttpInv, [HttpNext]_httpVars PROVE HttpInv'
  OBVIOUS
<1>1. CASE Tick \/ UNCHANGED httpVars
  <2>1. UNCHANGED <<conn, work, inFlight, active, answered, tool, event, listener, shut, exit>>
    BY <1>1 DEF Tick, httpVars, requestVars, serveVars
  <2> QED BY <2>1 DEF HttpInv, Shapes, Slots, InFlightExact, TransportsClosed, NotYet,
             Unsent, NoneLeft, DrainedAtExit
<1>2. ASSUME exit = None, NEW r \in Requests,
             \/ Open(r) \/ Arrive(r) \/ BodyRead(r) \/ ToolEnds(r) \/ HandlerReturns(r)
             \/ Finish(r) \/ Disconnect(r)
      PROVE  HttpInv'
  BY <1>2, OpenKeeps, ArriveKeeps, BodyReadKeeps, ToolEndsKeeps, HandlerReturnsKeeps, ResponseEndsKeeps
<1>3. CASE exit = None /\ (Closed \/ \E s \in Signals : Signal(s) \/ Drained(s))
  BY <1>3, ShutdownKeeps
<1> QED BY <1>1, <1>2, <1>3 DEF HttpNext

\* The invariant holds of every server (createHttpServer and runServe).
THEOREM HttpInvHolds == HttpSpec => []HttpInv
  BY HttpInvInit, HttpInvNext, PTL DEF HttpSpec

\* However handlers, disconnects and a shutdown interleave, the in-flight set is
\* the set of the handlers that run, within its cap, transports are closed with
\* their responses, and a successful exit has waited for every handler.
THEOREM RequestsAlwaysAccounted == HttpSpec => []RequestsAccounted
<1>1. HttpInv => RequestsAccounted
  BY DEF HttpInv, Slots, RequestsAccounted
<1> QED BY <1>1, HttpInvHolds, PTL

\* No event of an answered call is left behind when its connection is over.
THEOREM AnsweredAlwaysReported == HttpSpec => []AnsweredReported
<1>1. HttpInv => AnsweredReported
  <2> SUFFICES ASSUME HttpInv, NEW r \in answered, conn[r] \in {"idle", "gone"}, NEW k \in Kinds
               PROVE  event[r][k] # "pending"
    BY DEF AnsweredReported
  <2> QED BY DEF HttpInv, Unsent, TransportsClosed
<1> QED BY <1>1, HttpInvHolds, PTL

-----------------------------------------------------------------------------
(* The limiter.                                                            *)
(*                                                                         *)
(* WindowExact speaks of every window that ever was, the limiter looks     *)
(* only at the current one.  The invariant says that what it has in hand   *)
(* for an address is exactly who passed in the current window, and that    *)
(* past windows do not change: a request is checked once, and time grows.  *)

From(a) == {r \in Requests : address[r] = a}

CheckedOnce ==
    /\ clock \in Nat
    /\ checks \in [Requests -> [at : Nat, said : {None, "pass", "refuse"}]]
    /\ \A r \in Requests : work[r] = None => checks[r].said = None
    /\ \A r \in Requests : checks[r].said # None => checks[r].at <= clock

Remembered ==
    /\ hits = [a \in Addresses |-> hits[a]]
    /\ \A a \in Addresses :
          /\ \A h \in hits[a] : \E q \in From(a) :
                checks[q].said = "pass" /\ h = <<q, checks[q].at>>
          /\ \A q \in PassedInWindow(From(a), clock) : <<q, checks[q].at>> \in hits[a]

WindowsFull ==
    \A a \in Addresses :
        /\ \A t \in 0 .. clock :
              /\ IsFiniteSet(PassedInWindow(From(a), t))
              /\ Cardinality(PassedInWindow(From(a), t)) <= RateLimit
        /\ \A r \in From(a) : checks[r].said = "refuse" =>
              Cardinality(PassedInWindow(From(a), checks[r].at)) >= RateLimit

LimiterInv == CheckedOnce /\ Remembered /\ WindowsFull

\* The limiter counts who passed in the current window.
LEMMA HitsCounted ==
    ASSUME LimiterInv, NEW a \in Addresses
    PROVE  Cardinality(InWindow(a)) = Cardinality(PassedInWindow(From(a), clock))
<1> DEFINE P == PassedInWindow(From(a), clock)
           f == [q \in P |-> <<q, checks[q].at>>]
<1>1. P \subseteq Requests /\ \A q \in P : checks[q].at \in Nat /\ checks[q].at > clock - Window
  BY DEF PassedInWindow, From, LimiterInv, CheckedOnce
<1>2. \A q \in P : f[q] \in InWindow(a)
  BY <1>1 DEF LimiterInv, Remembered, InWindow
<1>3. \A h \in InWindow(a) : \E q \in P : f[q] = h
  <2> SUFFICES ASSUME NEW h \in InWindow(a) PROVE \E q \in P : f[q] = h
    OBVIOUS
  <2>1. h \in hits[a] /\ h[2] > clock - Window
    BY DEF InWindow
  <2>2. PICK q \in From(a) : checks[q].said = "pass" /\ h = <<q, checks[q].at>>
    BY <2>1 DEF LimiterInv, Remembered
  <2>3. q \in P
    BY <2>1, <2>2 DEF PassedInWindow, From, LimiterInv, CheckedOnce, None
  <2> QED BY <2>2, <2>3
<1>4. \A p, q \in P : f[p] = f[q] => p = q
  OBVIOUS
<1>5. f \in Bijection(P, InWindow(a))
  <2>1. f \in [P -> InWindow(a)]
    BY <1>2
  <2> HIDE DEF f, P
  <2> QED BY <1>3, <1>4, <2>1 DEF Bijection, Injection, Surjection, IsInjective
<1>6. ExistsBijection(P, InWindow(a))
  BY <1>5 DEF ExistsBijection
<1>7. IsFiniteSet(P)
  BY DEF LimiterInv, CheckedOnce, WindowsFull
<1> QED BY <1>6, <1>7, FS_Bijection

\* Only the current window is changed by a check, and it can only grow.
LEMMA CheckChangesWindow ==
    ASSUME LimiterInv, NEW r \in Requests, work[r] = None,
           NEW said \in {"pass", "refuse"}, Note(r, said), UNCHANGED clock,
           NEW a \in Addresses, NEW t \in 0 .. clock
    PROVE  PassedInWindow(From(a), t)' =
               IF said = "pass" /\ address[r] = a /\ t = clock
               THEN PassedInWindow(From(a), t) \cup {r} ELSE PassedInWindow(From(a), t)
<1>1. checks' = [checks EXCEPT ![r] = [at |-> clock, said |-> said]]
  BY DEF Note
<1>2. checks[r].said = None /\ clock \in Nat
  BY DEF LimiterInv, CheckedOnce
<1>3. /\ checks'[r].said = said /\ checks'[r].at = clock
      /\ \A q \in Requests \ {r} : checks'[q] = checks[q]
  BY <1>1 DEF LimiterInv, CheckedOnce
<1>4. r \notin PassedInWindow(From(a), t)
  BY <1>2 DEF PassedInWindow, None
<1>5. r \in PassedInWindow(From(a), t)' <=> said = "pass" /\ address[r] = a /\ t = clock
  BY <1>2, <1>3, HttpAssumption DEF PassedInWindow, From
<1>6. \A q : q # r => (q \in PassedInWindow(From(a), t)' <=> q \in PassedInWindow(From(a), t))
  BY <1>3 DEF PassedInWindow, From
<1> QED BY <1>4, <1>5, <1>6

\* A request that is checked: below the limit it passes and is remembered, at the
\* limit it is refused.
LEMMA CheckKeeps ==
    ASSUME LimiterInv, NEW r \in Requests, work[r] = None, work'[r] # None,
           \A q \in Requests \ {r} : work'[q] = work[q],
           LimiterPasses(r) \/ LimiterRefuses(r), UNCHANGED clock
    PROVE  LimiterInv'
<1> DEFINE b == address[r]
<1>0. PICK said \in {"pass", "refuse"} :
          /\ Note(r, said)
          /\ said = "pass" <=> Cardinality(InWindow(b)) < RateLimit
          /\ said = "pass" => hits' = [hits EXCEPT ![b] = InWindow(b) \cup {<<r, clock>>}]
          /\ said = "refuse" => hits' = [hits EXCEPT ![b] = InWindow(b)]
  BY DEF LimiterPasses, LimiterRefuses, Allowed
<1>1. /\ b \in Addresses /\ r \in From(b) /\ checks[r].said = None
      /\ clock \in Nat /\ RateLimit \in Nat
  BY HttpAssumption DEF LimiterInv, CheckedOnce, From
<1>2. /\ checks' = [checks EXCEPT ![r] = [at |-> clock, said |-> said]]
      /\ checks'[r] = [at |-> clock, said |-> said]
      /\ \A q \in Requests \ {r} : checks'[q] = checks[q]
  BY <1>0 DEF Note, LimiterInv, CheckedOnce
<1>3. CheckedOnce'
  BY <1>1, <1>2 DEF LimiterInv, CheckedOnce, None
<1>4. \A a \in Addresses : \A t \in 0 .. clock :
          PassedInWindow(From(a), t)' =
              IF said = "pass" /\ b = a /\ t = clock
              THEN PassedInWindow(From(a), t) \cup {r} ELSE PassedInWindow(From(a), t)
  BY <1>0, CheckChangesWindow
<1>5. Remembered'
  <2>1. hits' = [a \in Addresses |-> hits'[a]]
    BY <1>0 DEF LimiterInv, Remembered
  <2>2. \A a \in Addresses : \A h \in hits'[a] :
            h \in hits[a] \/ (said = "pass" /\ a = b /\ h = <<r, clock>>)
    BY <1>0, <1>1 DEF LimiterInv, Remembered, InWindow
  <2>3. ASSUME NEW a \in Addresses, NEW h \in hits'[a]
        PROVE  \E q \in From(a) : checks'[q].said = "pass" /\ h = <<q, checks'[q].at>>
    <3>1. CASE h \in hits[a]
      <4>1. PICK q \in From(a) : checks[q].said = "pass" /\ h = <<q, checks[q].at>>
        BY <3>1 DEF LimiterInv, Remembered
      <4>2. q # r /\ q \in Requests
        BY <1>1, <4>1 DEF From, None
      <4> QED BY <1>2, <4>1, <4>2
    <3>2. CASE said = "pass" /\ a = b /\ h = <<r, clock>>
      BY <1>1, <1>2, <3>2
    <3> QED BY <2>2, <2>3, <3>1, <3>2
  <2>4. ASSUME NEW a \in Addresses, NEW q \in PassedInWindow(From(a), clock)'
        PROVE  <<q, checks'[q].at>> \in hits'[a]
    <3>1. \/ q \in PassedInWindow(From(a), clock)
          \/ said = "pass" /\ a = b /\ q = r
      BY <1>1, <1>4, <2>4
    <3>2. CASE q \in PassedInWindow(From(a), clock)
      <4>1. /\ q # r /\ q \in Requests /\ checks[q].at > clock - Window
            /\ <<q, checks[q].at>> \in hits[a]
        BY <1>1, <3>2 DEF PassedInWindow, From, LimiterInv, Remembered, None
      <4>2. a = b => <<q, checks[q].at>> \in InWindow(b)
        BY <4>1 DEF InWindow
      <4> QED BY <1>0, <1>1, <1>2, <4>1, <4>2 DEF LimiterInv, Remembered
    <3>3. CASE said = "pass" /\ a = b /\ q = r
      BY <1>0, <1>1, <1>2, <3>3 DEF LimiterInv, Remembered
    <3> QED BY <3>1, <3>2, <3>3
  <2> QED BY <2>1, <2>3, <2>4 DEF Remembered, From
<1>6. WindowsFull'
  <2>1. Cardinality(InWindow(b)) = Cardinality(PassedInWindow(From(b), clock))
    BY <1>1, HitsCounted
  <2>2. \A a \in Addresses : \A t \in 0 .. clock :
            /\ IsFiniteSet(PassedInWindow(From(a), t))
            /\ Cardinality(PassedInWindow(From(a), t)) \in Nat
            /\ Cardinality(PassedInWindow(From(a), t)) <= RateLimit
    BY FS_CardinalityType DEF LimiterInv, WindowsFull
  <2>3. ASSUME NEW a \in Addresses, NEW t \in 0 .. clock
        PROVE  /\ IsFiniteSet(PassedInWindow(From(a), t)')
               /\ Cardinality(PassedInWindow(From(a), t)') <= RateLimit
    <3>1. CASE said = "pass" /\ b = a /\ t = clock
      <4>1. PassedInWindow(From(a), t)' = PassedInWindow(From(a), t) \cup {r}
        BY <1>4, <3>1
      <4>2. /\ IsFiniteSet(PassedInWindow(From(a), t) \cup {r})
            /\ Cardinality(PassedInWindow(From(a), t) \cup {r})
                   \in {Cardinality(PassedInWindow(From(a), t)),
                        Cardinality(PassedInWindow(From(a), t)) + 1}
        BY <2>2, FS_AddElement
      <4>3. Cardinality(PassedInWindow(From(a), t)) < RateLimit
        BY <1>0, <2>1, <3>1
      <4> QED BY <1>1, <2>2, <4>1, <4>2, <4>3
    <3>2. CASE ~(said = "pass" /\ b = a /\ t = clock)
      BY <1>1, <1>4, <2>2, <3>2
    <3> QED BY <3>1, <3>2
  <2>4. ASSUME NEW a \in Addresses, NEW q \in From(a), checks'[q].said = "refuse",
               NEW t, t = checks'[q].at
        PROVE  Cardinality(PassedInWindow(From(a), t)') >= RateLimit
    <3>1. CASE q = r
      <4>1. said = "refuse" /\ a = b /\ t = clock
        BY <1>2, <2>4, <3>1 DEF From
      <4>2. PassedInWindow(From(a), t)' = PassedInWindow(From(b), clock)
        BY <1>1, <1>4, <4>1
      <4>3. Cardinality(PassedInWindow(From(b), clock)) >= RateLimit
        BY <1>0, <1>1, <2>1, <2>2, <4>1
      <4> QED BY <4>2, <4>3
    <3>2. CASE q # r
      <4>1. checks[q].said = "refuse" /\ checks[q].at = t /\ t \in 0 .. clock
        BY <1>2, <2>4, <3>2 DEF From, LimiterInv, CheckedOnce, None
      <4>2. Cardinality(PassedInWindow(From(a), t)) >= RateLimit
        BY <2>4, <4>1 DEF LimiterInv, WindowsFull
      <4>3. PassedInWindow(From(a), t) \subseteq PassedInWindow(From(a), t)'
        BY <1>4, <4>1
      <4>4. /\ IsFiniteSet(PassedInWindow(From(a), t)')
            /\ Cardinality(PassedInWindow(From(a), t)) \in Nat
        BY <2>2, <2>3, <4>1
      <4>5. /\ Cardinality(PassedInWindow(From(a), t)') \in Nat
            /\ Cardinality(PassedInWindow(From(a), t)) <= Cardinality(PassedInWindow(From(a), t)')
        BY <4>3, <4>4, FS_Subset, FS_CardinalityType
      <4> QED BY <1>1, <4>2, <4>4, <4>5
    <3> QED BY <3>1, <3>2
  <2>5. \A a \in Addresses : \A q \in From(a) : checks'[q].said = "refuse" =>
            Cardinality(PassedInWindow(From(a), checks[q].at)') >= RateLimit
    BY <2>4
  <2> QED BY <2>3, <2>5 DEF WindowsFull, From
<1> QED BY <1>3, <1>5, <1>6 DEF LimiterInv

\* When time passes, the window only loses requests.
LEMMA TickKeeps ==
    ASSUME LimiterInv, Tick
    PROVE  LimiterInv'
<1>1. clock \in Nat /\ clock' = clock + 1 /\ UNCHANGED <<hits, checks, work>>
  BY DEF Tick, requestVars, limiterVars, LimiterInv, CheckedOnce
<1>2. CheckedOnce'
  BY <1>1 DEF LimiterInv, CheckedOnce
<1>3. \A a \in Addresses : \A t : PassedInWindow(From(a), t)' = PassedInWindow(From(a), t)
  BY <1>1 DEF PassedInWindow, From
<1>4. \A a \in Addresses :
          PassedInWindow(From(a), clock + 1) \subseteq PassedInWindow(From(a), clock)
  BY <1>1, HttpAssumption DEF PassedInWindow, From, LimiterInv, CheckedOnce, None
<1>5. Remembered'
  <2>1. \A a \in Addresses : \A q \in PassedInWindow(From(a), clock + 1) :
            <<q, checks[q].at>> \in hits[a]
    BY <1>4 DEF LimiterInv, Remembered
  <2>2. \A a \in Addresses :
            PassedInWindow(From(a), clock)' = PassedInWindow(From(a), clock + 1)
    BY <1>1 DEF PassedInWindow, From
  <2> QED BY <1>1, <2>1, <2>2 DEF LimiterInv, Remembered, From
<1>6. WindowsFull'
  <2>1. ASSUME NEW a \in Addresses, NEW t \in 0 .. clock + 1
        PROVE  /\ IsFiniteSet(PassedInWindow(From(a), t))
               /\ Cardinality(PassedInWindow(From(a), t)) <= RateLimit
    <3>1. CASE t \in 0 .. clock
      BY <3>1 DEF LimiterInv, WindowsFull
    <3>2. CASE t = clock + 1
      <4>1. /\ IsFiniteSet(PassedInWindow(From(a), clock))
            /\ Cardinality(PassedInWindow(From(a), clock)) <= RateLimit
        BY <1>1 DEF LimiterInv, WindowsFull
      <4>2. /\ IsFiniteSet(PassedInWindow(From(a), t))
            /\ Cardinality(PassedInWindow(From(a), t)) <= Cardinality(PassedInWindow(From(a), clock))
        BY <1>4, <3>2, <4>1, FS_Subset
      <4> QED BY <4>1, <4>2, FS_CardinalityType, HttpAssumption
    <3> QED BY <1>1, <3>1, <3>2
  <2>2. \A a \in Addresses : \A r \in From(a) : checks[r].said = "refuse" =>
            Cardinality(PassedInWindow(From(a), checks[r].at)) >= RateLimit
    BY DEF LimiterInv, WindowsFull
  <2>3. \A a \in Addresses : \A r : PassedInWindow(From(a), checks[r].at)' = PassedInWindow(From(a), checks[r].at)
    BY <1>1 DEF PassedInWindow, From
  <2> QED BY <1>1, <1>3, <2>1, <2>2, <2>3 DEF WindowsFull, From
<1> QED BY <1>2, <1>5, <1>6 DEF LimiterInv

\* A step that does not check leaves the limiter alone.
LEMMA OthersKeep ==
    ASSUME LimiterInv, UNCHANGED <<hits, checks, clock>>,
           \A r \in Requests : work'[r] = None => work[r] = None
    PROVE  LimiterInv'
  BY DEF LimiterInv, CheckedOnce, Remembered, WindowsFull, PassedInWindow, From

LEMMA LimiterInvInit == HttpInit => LimiterInv
<1> SUFFICES ASSUME HttpInit PROVE LimiterInv
  OBVIOUS
<1>1. CheckedOnce
  BY DEF HttpInit, CheckedOnce
<1>2. \A R, t : R \subseteq Requests => PassedInWindow(R, t) = {}
  BY DEF HttpInit, PassedInWindow, None
<1>3. Remembered
  BY <1>2 DEF HttpInit, Remembered, From
<1>4. WindowsFull
  <2>1. \A a \in Addresses : \A t : PassedInWindow(From(a), t) = {}
    BY <1>2 DEF From
  <2>2. \A a \in Addresses : \A r \in From(a) : checks[r].said # "refuse"
    BY DEF HttpInit, From, None
  <2> QED BY <2>1, <2>2, FS_EmptySet, HttpAssumption DEF WindowsFull
<1> QED BY <1>1, <1>3, <1>4 DEF LimiterInv

LEMMA LimiterInvNext == HttpInv /\ LimiterInv /\ [HttpNext]_httpVars => LimiterInv'
<1> SUFFICES ASSUME HttpInv, LimiterInv, [HttpNext]_httpVars PROVE LimiterInv'
  OBVIOUS
<1>0. work = [r \in Requests |-> work[r]]
  BY DEF HttpInv, Shapes
<1>1. ASSUME NEW r \in Requests, Arrive(r) PROVE LimiterInv'
  <2>1. work[r] = None /\ UNCHANGED clock
    BY <1>1 DEF Arrive
  <2>2. work' \in {[work EXCEPT ![r] = "settled"], [work EXCEPT ![r] = "body"]}
    BY <1>1 DEF Arrive, TurnAway, Validate, Settle
  <2>3. work'[r] # None /\ \A q \in Requests \ {r} : work'[q] = work[q]
    BY <1>0, <2>2 DEF None
  <2>4. CASE LimiterPasses(r) \/ LimiterRefuses(r)
    BY <2>1, <2>3, <2>4, CheckKeeps
  <2>5. CASE UNCHANGED limiterVars
    BY <2>1, <2>3, <2>5, OthersKeep DEF limiterVars
  <2> QED BY <1>1, <2>4, <2>5 DEF Arrive, TurnAway, Validate
<1>2. ASSUME NEW r \in Requests,
             \/ Open(r) \/ BodyRead(r) \/ ToolEnds(r) \/ HandlerReturns(r)
             \/ Finish(r) \/ Disconnect(r)
      PROVE  LimiterInv'
  <2>1. UNCHANGED <<hits, checks, clock>>
    BY <1>2 DEF Open, BodyRead, ToolEnds, HandlerReturns, Finish, Disconnect, limiterVars
  <2>2. \/ UNCHANGED work
        \/ work' \in {[work EXCEPT ![r] = "settled"], [work EXCEPT ![r] = "handling"]}
    BY <1>2 DEF Open, BodyRead, ToolEnds, HandlerReturns, Finish, Disconnect, Settle
  <2>3. \A q \in Requests : work'[q] = None => work[q] = None
    BY <1>0, <2>2 DEF None
  <2> QED BY <2>1, <2>3, OthersKeep
<1>3. CASE Tick
  BY <1>3, TickKeeps
<1>4. CASE Closed \/ (\E s \in Signals : Signal(s) \/ Drained(s)) \/ UNCHANGED httpVars
  <2>1. UNCHANGED <<hits, checks, clock, work>>
    BY <1>4 DEF Closed, Signal, Drained, httpVars, requestVars, limiterVars
  <2> QED BY <2>1, OthersKeep
<1> QED BY <1>1, <1>2, <1>3, <1>4 DEF HttpNext

\* The limiter is exact over every window of every address, however many
\* requests arrive: at most RateLimit pass, and one is refused only when so many
\* have passed.
THEOREM WindowAlwaysExact == HttpSpec => []WindowExact
<1>1. LimiterInv => WindowExact
  BY DEF LimiterInv, WindowsFull, From, WindowExact
<1>2. HttpInit => HttpInv /\ LimiterInv
  BY HttpInvInit, LimiterInvInit
<1>3. HttpInv /\ LimiterInv /\ [HttpNext]_httpVars => (HttpInv /\ LimiterInv)'
  BY HttpInvNext, LimiterInvNext
<1> QED BY <1>1, <1>2, <1>3, PTL DEF HttpSpec
=============================================================================
