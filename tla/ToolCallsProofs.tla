--------------------------- MODULE ToolCallsProofs ---------------------------
(***************************************************************************)
(* Theorems about ToolCalls, for any requests, tokens, tools, statuses and *)
(* durations.                                                              *)
(***************************************************************************)
EXTENDS ToolCalls, SequenceTheorems, TLAPS

Phases == {"start", "allowlist", "tool", "done"}
Fetches == [sent : 0 .. MaxClock, served : (0 .. MaxClock) \cup {None}, tools : SUBSET Tools]
Ends == {"ok", "auth_error", "quota_exceeded", "upstream_error", "unexpected_error"}
Reports == [kind : {"start", "end"}, status : Ends \cup {None},
            upstream : Statuses \cup {None}]

\* How the server was started, which no step changes.
Started ==
    /\ transport \in {"stdio", "http"}
    /\ env \in [API_KEY : Found, AZS_API_KEY : Found, dev : BOOLEAN]

\* What every step reads is of its type; a request that waits for an allowlist
\* has a client with a token.
Typed ==
    /\ Started
    /\ clock \in 0 .. MaxClock
    /\ ToolCallsTypeOK
    /\ fetch \in [Requests -> Fetches]
    /\ since \in [Calls -> SUBSET Tools]
    /\ events \in [Calls -> Seq(Reports)]
    /\ transport = "http" => session = None
    /\ session # None => token[session] \in Tokens
    /\ \A r \in Requests : pc[r] = "allowlist" =>
          Client(r) \in Requests /\ token[Client(r)] \in Tokens

\* No fetch outlasts its timer, so no cached list was evaluated long before it
\* arrived.
Timely ==
    /\ \A r \in Requests :
          /\ pc[r] = "allowlist" => fetch[r].sent <= clock /\ clock <= fetch[r].sent + Timeout
          /\ fetch[r].served # None => fetch[r].sent <= fetch[r].served /\ fetch[r].served <= clock
    /\ \A r \in Requests : cache[r] # None =>
          /\ cache[r].served <= cache[r].at /\ cache[r].at <= clock
          /\ cache[r].at <= cache[r].served + Timeout

\* What a call's events and its upstream may be at each phase.
Reported(c) ==
    /\ pc[c] = "start" => events[c] = <<>> /\ token[c] = None
    /\ pc[c] \in {"allowlist", "tool"} => events[c] = <<StartEvent>>
    /\ pc[c] \in {"start", "allowlist"} => upstream[c] = None
    /\ pc[c] # "done" => replies[c] < MaxReplies

\* A client of a call has no cached list, its account could use what the
\* fetched one offers, and its token is one the environment allows.
Fresh(c) ==
    /\ cache[c] = None
    /\ token[c] \in Tokens =>
          /\ Kind[token[c]] = "system" => env.dev
          /\ pc[c] = "allowlist" => plans[token[c]] \subseteq since[c]
    /\ pc[c] = "allowlist" /\ fetch[c].served # None => fetch[c].tools \subseteq since[c]
    /\ pc[c] = "tool" => tool[c] \in since[c] /\ token[c] \in Tokens

Inv ==
    /\ Typed
    /\ Timely
    /\ \A c \in Calls : Reported(c) /\ Fresh(c)

-----------------------------------------------------------------------------
(* Lemmas about the parts actions share. *)

\* One request moves on; what the variables its answer goes to hold has its
\* type, and the other requests stay where they are.
Moves(r) ==
    /\ pc' \in [Requests -> Phases]
    /\ answer' \in [Requests -> {None, "ok", "none", "error"}]
    /\ shown' \in [Lists -> (0 .. MaxClock) \cup {None}]
    /\ events' \in [Calls -> Seq(Reports)]
    /\ \A c \in Calls : Len(events'[c]) <= 2
    /\ \A q \in Requests \ {r} : pc'[q] = pc[q] /\ answer'[q] = answer[q]
    /\ \A c \in Calls \ {r} : events'[c] = events[c]

\* What is said of a call may be appended to, and stays within two events.
Begun(r, sofar) == r \in Calls => sofar = <<StartEvent>>

\* Sequences of one and of two elements.
LEMMA PairTyped ==
    ASSUME NEW S, NEW a \in S, NEW b \in S
    PROVE  /\ <<a>> \in Seq(S) /\ Len(<<a>>) = 1
           /\ Append(<<a>>, b) = <<a, b>>
           /\ <<a, b>> \in Seq(S) /\ Len(<<a, b>>) = 2
<1>1. <<a>> \in Seq(S) /\ Len(<<a>>) = 1
  OBVIOUS
<1>2. <<a, b>> \in Seq(S) /\ Len(<<a, b>>) = 2
  OBVIOUS
<1>3. Append(<<a>>, b) = <<a, b>>
  <2>1. /\ Append(<<a>>, b) \in Seq(S) /\ Len(Append(<<a>>, b)) = 2
        /\ Append(<<a>>, b)[1] = a /\ Append(<<a>>, b)[2] = b
    BY <1>1, AppendProperties
  <2>2. \A i \in 1 .. 2 : Append(<<a>>, b)[i] = <<a, b>>[i]
    BY <2>1
  <2>. QED
    BY <1>2, <2>1, <2>2, SeqEqual
<1>. QED
  BY <1>1, <1>2, <1>3

\* The reports of a call, begun and ended.
LEMMA EventsTyped ==
    ASSUME NEW status \in Ends, NEW up \in Statuses \cup {None}
    PROVE  /\ StartEvent \in Reports
           /\ <<StartEvent>> \in Seq(Reports)
           /\ Len(<<StartEvent>>) = 1
           /\ Append(<<StartEvent>>, Event("end", status, up)) \in Seq(Reports)
           /\ Append(<<StartEvent>>, Event("end", status, up))
                = <<StartEvent, Event("end", status, up)>>
           /\ <<StartEvent, Event("end", status, up)>> \in Seq(Reports)
           /\ Len(<<StartEvent, Event("end", status, up)>>) = 2
<1>1. StartEvent \in Reports /\ Event("end", status, up) \in Reports
  BY DEF StartEvent, Event, Reports
<1>. QED
  BY <1>1, PairTyped

\* Whatever is thrown gets one of five statuses.
LEMMA ClassifyTyped ==
    ASSUME NEW thrown
    PROVE  Classify(thrown) \in Ends
BY DEF Classify, Ends

\* A call that has begun ends with its second event.
LEMMA EndMoves ==
    ASSUME Typed, NEW c \in Calls, NEW thrown, NEW up \in Statuses \cup {None},
           End(c, <<StartEvent>>, thrown, up), UNCHANGED shown
    PROVE  /\ Moves(c)
           /\ pc'[c] = "done"
           /\ answer'[c] = IF thrown = None THEN "ok" ELSE "error"
           /\ events'[c] = <<StartEvent, Event("end", Classify(thrown), up)>>
<1>. DEFINE ended == <<StartEvent, Event("end", Classify(thrown), up)>>
<1>1. ended \in Seq(Reports) /\ Len(ended) <= 2
  <2>1. ended \in Seq(Reports) /\ Len(ended) = 2
    BY ClassifyTyped, EventsTyped
  <2>. QED
    BY <2>1
<1>2. events' = [events EXCEPT ![c] = ended]
  BY ClassifyTyped, EventsTyped DEF End
<1>. HIDE DEF ended
<1>3. c \in Requests
  BY DEF Requests
<1>4. events' \in [Calls -> Seq(Reports)] /\ \A d \in Calls : Len(events'[d]) <= 2
  <2>1. events \in [Calls -> Seq(Reports)] /\ \A d \in Calls : Len(events[d]) <= 2
    BY DEF Typed, ToolCallsTypeOK
  <2>2. events' \in [Calls -> Seq(Reports)]
    BY <1>1, <1>2, <2>1
  <2>3. \A d \in Calls : events'[d] = ended \/ events'[d] = events[d]
    BY <1>2, <2>1
  <2>4. ASSUME NEW d \in Calls PROVE Len(events'[d]) <= 2
    <3>1. CASE events'[d] = ended
      BY <1>1, <3>1
    <3>2. CASE events'[d] = events[d]
      BY <2>1, <3>2
    <3>. QED
      BY <2>3, <3>1, <3>2
  <2>. QED
    BY <2>2, <2>4
<1>5. /\ pc' = [pc EXCEPT ![c] = "done"]
      /\ answer' = [answer EXCEPT ![c] = IF thrown = None THEN "ok" ELSE "error"]
  BY DEF End, Reply
<1>6. pc' \in [Requests -> Phases] /\ pc'[c] = "done" /\ \A q \in Requests \ {c} : pc'[q] = pc[q]
  BY <1>3, <1>5 DEF Typed, ToolCallsTypeOK, Phases
<1>7. /\ answer' \in [Requests -> {None, "ok", "none", "error"}]
      /\ answer'[c] = IF thrown = None THEN "ok" ELSE "error"
      /\ \A q \in Requests \ {c} : answer'[q] = answer[q]
  BY <1>3, <1>5 DEF Typed, ToolCallsTypeOK
<1>8. events'[c] = ended /\ \A d \in Calls \ {c} : events'[d] = events[d]
  BY <1>2 DEF Typed
<1>. QED
  BY <1>4, <1>6, <1>7, <1>8 DEF Moves, Typed, ToolCallsTypeOK, ended

\* A list is answered, or a call is.
LEMMA UseMoves ==
    ASSUME Typed, NEW r \in Requests, NEW sofar, Begun(r, sofar),
           NEW list \in Allowlists, list.served <= clock, Use(r, sofar, list)
    PROVE  /\ Moves(r)
           /\ r \in Lists => shown' = [shown EXCEPT ![r] = clock - list.served]
           /\ r \in Calls =>
                 /\ UNCHANGED shown
                 /\ \/ /\ tool[r] \in list.tools
                       /\ pc'[r] = "tool" /\ events'[r] = <<StartEvent>>
                    \/ /\ pc'[r] = "done" /\ answer'[r] = "error"
                       /\ events'[r] = <<StartEvent, Event("end", "unexpected_error", None)>>
<1>1. CASE r \in Lists
  <2>1. r \notin Calls
    BY <1>1, ToolCallsAssumption
  <2>2. clock - list.served \in 0 .. MaxClock
    BY ToolCallsAssumption DEF Typed, Allowlists
  <2>3. /\ pc' = [pc EXCEPT ![r] = "done"] /\ answer' = [answer EXCEPT ![r] = "ok"]
        /\ shown' = [shown EXCEPT ![r] = clock - list.served] /\ events' = events
    BY <1>1 DEF Use, Reply
  <2>4. shown' \in [Lists -> (0 .. MaxClock) \cup {None}]
    BY <1>1, <2>2, <2>3 DEF Typed, ToolCallsTypeOK
  <2>. QED
    BY <1>1, <2>1, <2>3, <2>4 DEF Moves, Typed, ToolCallsTypeOK, Phases
<1>2. CASE r \in Calls
  <2>1. r \notin Lists /\ sofar = <<StartEvent>>
    BY <1>2, ToolCallsAssumption DEF Begun
  <2>2. CASE tool[r] \in list.tools
    <3>1. /\ pc' = [pc EXCEPT ![r] = "tool"] /\ UNCHANGED <<answer, shown>>
          /\ events' = [events EXCEPT ![r] = <<StartEvent>>]
      BY <2>1, <2>2 DEF Use
    <3>2. <<StartEvent>> \in Seq(Reports) /\ Len(<<StartEvent>>) = 1
      BY EventsTyped DEF Ends
    <3>3. /\ events' \in [Calls -> Seq(Reports)] /\ \A d \in Calls : Len(events'[d]) <= 2
          /\ events'[r] = <<StartEvent>> /\ \A d \in Calls \ {r} : events'[d] = events[d]
      BY <1>2, <3>1, <3>2 DEF Typed, ToolCallsTypeOK
    <3>. QED
      BY <2>1, <2>2, <3>1, <3>3 DEF Moves, Typed, ToolCallsTypeOK, Phases
  <2>3. CASE tool[r] \notin list.tools
    <3>1. End(r, <<StartEvent>>, Plain, None) /\ UNCHANGED shown
      BY <2>1, <2>3 DEF Use
    <3>2. Plain # None /\ Classify(Plain) = "unexpected_error"
      BY RepliesAssumption DEF Plain, Classify
    <3>. QED
      BY <1>2, <2>1, <3>1, <3>2, EndMoves
  <2>. QED
    BY <2>2, <2>3
<1>. QED
  BY <1>1, <1>2 DEF Requests

\* A list is answered "none", or a call ends unexpectedly.
LEMMA DoWithoutMoves ==
    ASSUME Typed, NEW r \in Requests, NEW sofar, Begun(r, sofar), DoWithout(r, sofar)
    PROVE  /\ Moves(r)
           /\ pc'[r] = "done"
           /\ r \in Lists => shown' = [shown EXCEPT ![r] = None]
           /\ r \in Calls =>
                 /\ UNCHANGED shown
                 /\ answer'[r] = "error"
                 /\ events'[r] = <<StartEvent, Event("end", "unexpected_error", None)>>
<1>1. CASE r \in Lists
  <2>1. r \notin Calls
    BY <1>1, ToolCallsAssumption
  <2>2. /\ pc' = [pc EXCEPT ![r] = "done"] /\ answer' = [answer EXCEPT ![r] = "none"]
        /\ shown' = [shown EXCEPT ![r] = None] /\ events' = events
    BY <1>1 DEF DoWithout, Reply
  <2>3. shown' \in [Lists -> (0 .. MaxClock) \cup {None}]
    BY <1>1, <2>2 DEF Typed, ToolCallsTypeOK
  <2>. QED
    BY <1>1, <2>1, <2>2, <2>3 DEF Moves, Typed, ToolCallsTypeOK, Phases
<1>2. CASE r \in Calls
  <2>1. r \notin Lists /\ sofar = <<StartEvent>>
    BY <1>2, ToolCallsAssumption DEF Begun
  <2>2. End(r, <<StartEvent>>, Plain, None) /\ UNCHANGED shown
    BY <2>1 DEF DoWithout
  <2>3. Plain # None /\ Classify(Plain) = "unexpected_error"
    BY RepliesAssumption DEF Plain, Classify
  <2>. QED
    BY <1>2, <2>1, <2>2, <2>3, EndMoves
<1>. QED
  BY <1>1, <1>2 DEF Requests

\* The request is answered from the cache or starts to wait for a fetch.
LEMMA GetMoves ==
    ASSUME Typed, Timely, NEW r \in Requests, NEW k \in Requests,
           NEW sofar, Begun(r, sofar), GetAllowlist(r, k, sofar)
    PROVE  /\ Moves(r)
           /\ cache' \in [Requests -> Allowlists \cup {None}]
           /\ \A q \in Requests : cache'[q] = cache[q] \/ cache'[q] = None
           /\ fetch' \in [Requests -> Fetches]
           /\ \A q \in Requests \ {r} : fetch'[q] = fetch[q]
           /\ \/ /\ pc'[r] = "allowlist"
                 /\ fetch'[r] = [sent |-> clock, served |-> None, tools |-> {}]
                 /\ r \in Calls => events'[r] = <<StartEvent>>
                 /\ UNCHANGED shown
              \/ /\ pc'[r] # "allowlist"
                 /\ UNCHANGED fetch
                 /\ r \in Calls =>
                       /\ UNCHANGED shown
                       /\ \/ /\ pc'[r] = "tool" /\ events'[r] = <<StartEvent>>
                             /\ cache[k] # None /\ tool[r] \in cache[k].tools
                          \/ /\ pc'[r] = "done" /\ answer'[r] = "error"
                             /\ events'[r] = <<StartEvent, Event("end", "unexpected_error", None)>>
                 /\ r \in Lists =>
                       \/ shown' = [shown EXCEPT ![r] = None]
                       \/ /\ cache[k] # None
                          /\ clock - cache[k].at <= Ttl
                          /\ shown' = [shown EXCEPT ![r] = clock - cache[k].served]
<1>1. r \in Calls \/ r \in Lists
  BY DEF Requests
<1>2. CASE \E list \in Entry(k) : Use(r, sofar, list) /\ UNCHANGED <<cache, fetch>>
  <2>1. /\ cache[k] # None /\ clock - cache[k].at <= Ttl
        /\ Use(r, sofar, cache[k]) /\ UNCHANGED <<cache, fetch>>
    BY <1>2 DEF Entry, Cached
  <2>2. cache[k] \in Allowlists /\ cache[k].served <= clock
    <3>1. cache[k] \in Allowlists
      BY <2>1 DEF Typed, ToolCallsTypeOK
    <3>2. cache[k].served \in Nat /\ cache[k].at \in Nat /\ clock \in Nat
      BY <3>1, ToolCallsAssumption DEF Allowlists, Typed
    <3>. QED
      BY <2>1, <3>1, <3>2 DEF Timely
  <2>3. pc'[r] # "allowlist"
    BY <1>1, <2>1, <2>2, UseMoves DEF Use, Reply, Typed, ToolCallsTypeOK
  <2>. QED
    BY <2>1, <2>2, <2>3, UseMoves DEF Typed, ToolCallsTypeOK
<1>3. CASE /\ cache' = [cache EXCEPT ![k] = None]
           /\ DoWithout(r, sofar) /\ UNCHANGED fetch
  BY <1>3, DoWithoutMoves DEF Typed, ToolCallsTypeOK
<1>4. CASE /\ cache' = [cache EXCEPT ![k] = None]
           /\ pc' = [pc EXCEPT ![r] = "allowlist"]
           /\ fetch' = [fetch EXCEPT ![r] = [sent |-> clock, served |-> None, tools |-> {}]]
           /\ events' = IF r \in Lists THEN events ELSE [events EXCEPT ![r] = sofar]
           /\ UNCHANGED <<answer, shown>>
  <2>1. [sent |-> clock, served |-> None, tools |-> {}] \in Fetches
    BY DEF Fetches, Typed
  <2>2. <<StartEvent>> \in Seq(Reports) /\ Len(<<StartEvent>>) <= 2
    BY EventsTyped DEF Ends
  <2>3. /\ events' \in [Calls -> Seq(Reports)] /\ \A d \in Calls : Len(events'[d]) <= 2
        /\ \A d \in Calls \ {r} : events'[d] = events[d]
        /\ r \in Calls => events'[r] = <<StartEvent>>
    <3>1. CASE r \in Lists
      <4>1. r \notin Calls
        BY <3>1, ToolCallsAssumption
      <4>. QED
        BY <1>4, <3>1, <4>1 DEF Typed, ToolCallsTypeOK
    <3>2. CASE r \in Calls
      <4>1. sofar = <<StartEvent>> /\ r \notin Lists
        BY <3>2, ToolCallsAssumption DEF Begun
      <4>. QED
        BY <1>4, <2>2, <3>2, <4>1 DEF Typed, ToolCallsTypeOK
    <3>. QED
      BY <1>1, <3>1, <3>2
  <2>4. /\ pc' \in [Requests -> Phases] /\ pc'[r] = "allowlist"
        /\ \A q \in Requests \ {r} : pc'[q] = pc[q]
    BY <1>4 DEF Typed, ToolCallsTypeOK, Phases
  <2>5. /\ fetch' \in [Requests -> Fetches]
        /\ fetch'[r] = [sent |-> clock, served |-> None, tools |-> {}]
        /\ \A q \in Requests \ {r} : fetch'[q] = fetch[q]
    BY <1>4, <2>1 DEF Typed
  <2>6. Moves(r)
    BY <1>4, <2>3, <2>4 DEF Moves, Typed, ToolCallsTypeOK
  <2>7. /\ cache' \in [Requests -> Allowlists \cup {None}]
        /\ \A q \in Requests : cache'[q] = cache[q] \/ cache'[q] = None
    BY <1>4 DEF Typed, ToolCallsTypeOK
  <2>. QED
    BY <1>4, <2>3, <2>4, <2>5, <2>6, <2>7
<1>. QED
  BY <1>2, <1>3, <1>4 DEF GetAllowlist

\* An identity that was found is a token the environment allows.
LEMMA IdentityAllowed ==
    ASSUME Typed, NEW t \in Identities, t # None
    PROVE  t \in Tokens /\ (Kind[t] = "system" => env.dev)
<1>1. /\ env.API_KEY \in Found /\ env.AZS_API_KEY \in Found /\ stored \in Found
      /\ env.dev \in BOOLEAN
  BY DEF Typed, Started, ToolCallsTypeOK, StoredTokens, Found
<1>. QED
  BY <1>1, ToolCallsAssumption DEF Identities, resolveIdentity, requireAllowedIdentity, Found

-----------------------------------------------------------------------------
(* Every action preserves the invariant. *)

\* The handler of a call: one upstream request ends, or the handler throws.
ToolSteps(c) == ToolReplies(c) \/ ToolUnanswered(c) \/ ToolThrows(c)

\* What the three steps of a handler may lead to.
LEMMA ToolMoves ==
    ASSUME Inv, NEW c \in Calls, ToolSteps(c)
    PROVE  /\ pc[c] = "tool"
           /\ Moves(c)
           /\ upstream' \in [Calls -> Statuses \cup {None}]
           /\ \A d \in Calls \ {c} : upstream'[d] = upstream[d]
           /\ replies' \in [Calls -> 0 .. MaxReplies]
           /\ pc'[c] = "done" \/ replies'[c] < MaxReplies
           /\ \A d \in Calls \ {c} : replies'[d] = replies[d]
           /\ UNCHANGED <<world, clients, since, shown>>
           /\ \/ pc'[c] = "tool" /\ events'[c] = events[c]
              \/ \E thrown :
                    /\ pc'[c] = "done"
                    /\ answer'[c] = IF thrown = None THEN "ok" ELSE "error"
                    /\ events'[c] = <<StartEvent, Event("end", Classify(thrown), upstream'[c])>>
                    /\ Classify(thrown) = "auth_error" => upstream'[c] \notin {None, 200}
<1>1. pc[c] = "tool" /\ events[c] = <<StartEvent>> /\ upstream[c] \in Statuses \cup {None}
  BY DEF ToolSteps, ToolReplies, ToolUnanswered, ToolThrows, Inv, Reported, Typed, ToolCallsTypeOK
<1>2. Plain # None /\ NetworkError # None
  BY RepliesAssumption DEF Plain, NetworkError
<1>3. Classify(None) # "auth_error" /\ Classify(Plain) # "auth_error" /\ Classify(NetworkError) # "auth_error"
  BY RepliesAssumption DEF Classify, Plain, NetworkError
<1>4. replies \in [Calls -> 0 .. MaxReplies] /\ MaxReplies \in Nat
  BY ToolCallsAssumption DEF Inv, Typed, ToolCallsTypeOK
<1>5. /\ upstream' \in [Calls -> Statuses \cup {None}]
      /\ \A d \in Calls \ {c} : upstream'[d] = upstream[d]
  <2>1. upstream' = upstream \/ \E status \in Statuses : upstream' = [upstream EXCEPT ![c] = status]
    BY DEF ToolSteps, ToolReplies, ToolUnanswered, ToolThrows
  <2>2. upstream \in [Calls -> Statuses \cup {None}]
    BY DEF Inv, Typed, ToolCallsTypeOK
  <2>. QED
    BY <2>1, <2>2
<1>6. UNCHANGED <<world, clients, since, shown>>
  BY DEF ToolSteps, ToolReplies, ToolUnanswered, ToolThrows
<1>7. \/ UNCHANGED <<pc, answer, events>>
      \/ \E thrown :
            /\ End(c, <<StartEvent>>, thrown, upstream'[c])
            /\ Classify(thrown) = "auth_error" => upstream'[c] \notin {None, 200}
  <2>1. CASE ToolReplies(c)
    <3>1. PICK status \in Statuses :
              /\ upstream' = [upstream EXCEPT ![c] = status]
              /\ \/ UNCHANGED <<pc, answer, events>>
                 \/ End(c, events[c], None, status)
                 \/ \E code \in Codes :
                       /\ status # 200
                       /\ End(c, events[c], [status |-> status, code |-> code], status)
                 \/ status = 200 /\ End(c, events[c], NetworkError, status)
      BY <2>1 DEF ToolReplies
    <3>2. upstream'[c] = status /\ status # None
      BY <3>1, RepliesAssumption DEF Inv, Typed, ToolCallsTypeOK
    <3>3. ASSUME NEW code \in Codes, status # 200,
                 End(c, events[c], [status |-> status, code |-> code], status)
          PROVE  \E thrown :
                    /\ End(c, <<StartEvent>>, thrown, upstream'[c])
                    /\ Classify(thrown) = "auth_error" => upstream'[c] \notin {None, 200}
      BY <1>1, <3>2, <3>3
    <3>4. ASSUME NEW thrown, Classify(thrown) # "auth_error", End(c, events[c], thrown, status)
          PROVE  \E error :
                    /\ End(c, <<StartEvent>>, error, upstream'[c])
                    /\ Classify(error) = "auth_error" => upstream'[c] \notin {None, 200}
      BY <1>1, <3>2, <3>4
    <3>. QED
      BY <1>3, <3>1, <3>3, <3>4
  <2>2. CASE ToolUnanswered(c)
    <3>1. upstream'[c] = upstream[c]
      BY <2>2 DEF ToolUnanswered
    <3>. QED
      BY <1>1, <1>3, <2>2, <3>1 DEF ToolUnanswered
  <2>3. CASE ToolThrows(c)
    <3>1. upstream'[c] = upstream[c]
      BY <2>3 DEF ToolThrows
    <3>. QED
      BY <1>1, <1>3, <2>3, <3>1 DEF ToolThrows
  <2>. QED
    BY <2>1, <2>2, <2>3 DEF ToolSteps
<1>8. /\ replies' \in [Calls -> 0 .. MaxReplies]
      /\ pc'[c] = "done" \/ replies'[c] < MaxReplies
      /\ \A d \in Calls \ {c} : replies'[d] = replies[d]
  <2>1. replies[c] < MaxReplies
    BY <1>1 DEF Inv, Reported
  <2>2. CASE ToolThrows(c)
    <3>1. pc' = [pc EXCEPT ![c] = "done"] /\ replies' = replies
      BY <2>2 DEF ToolThrows, End, Reply
    <3>. QED
      BY <1>4, <2>1, <3>1
  <2>3. CASE ToolReplies(c) \/ ToolUnanswered(c)
    <3>1. /\ replies' = [replies EXCEPT ![c] = @ + 1]
          /\ replies'[c] < MaxReplies \/ pc' = [pc EXCEPT ![c] = "done"]
      BY <2>3 DEF ToolReplies, ToolUnanswered, End, Reply
    <3>2. pc \in [Requests -> Phases] /\ c \in Requests
      BY DEF Inv, Typed, ToolCallsTypeOK, Phases, Requests
    <3>. QED
      BY <1>4, <2>1, <3>1, <3>2
  <2>. QED
    BY <2>2, <2>3 DEF ToolSteps
<1>9. CASE UNCHANGED <<pc, answer, events>>
  BY <1>1, <1>5, <1>6, <1>8, <1>9 DEF Moves, Inv, Typed, ToolCallsTypeOK, Phases
<1>10. ASSUME NEW thrown, End(c, <<StartEvent>>, thrown, upstream'[c]),
              Classify(thrown) = "auth_error" => upstream'[c] \notin {None, 200}
       PROVE  /\ Moves(c)
              /\ pc'[c] = "done"
              /\ answer'[c] = IF thrown = None THEN "ok" ELSE "error"
              /\ events'[c] = <<StartEvent, Event("end", Classify(thrown), upstream'[c])>>
              /\ Classify(thrown) = "auth_error" => upstream'[c] \notin {None, 200}
  BY <1>5, <1>6, <1>10, EndMoves DEF Inv
<1>. QED
  BY <1>1, <1>5, <1>6, <1>7, <1>8, <1>9, <1>10

\* A handler that goes on or ends keeps the invariant.
LEMMA ToolInv ==
    ASSUME Inv, NEW c \in Calls, ToolSteps(c)
    PROVE  Inv'
<1>1. /\ Moves(c) /\ pc[c] = "tool" /\ pc'[c] \in {"tool", "done"}
      /\ UNCHANGED <<transport, env, stored, plans, clock, session, token, cache, fetch,
                     since, shown>>
  BY ToolMoves DEF world, clients
<1>2. \A r \in Requests : pc'[r] = "allowlist" => pc[r] = "allowlist"
  BY <1>1 DEF Moves
<1>3. Typed'
  <2>1. ToolCallsTypeOK'
    BY <1>1, ToolMoves DEF Moves, Inv, Typed, ToolCallsTypeOK, Phases
  <2>2. events' \in [Calls -> Seq(Reports)]
    BY <1>1 DEF Moves
  <2>3. \A r \in Requests : Client(r)' = Client(r)
    BY <1>1 DEF Client
  <2>. QED
    BY <1>1, <1>2, <2>1, <2>2, <2>3 DEF Inv, Typed, Started
<1>4. Timely'
  BY <1>1, <1>2 DEF Inv, Timely
<1>5. ASSUME NEW d \in Calls PROVE Reported(d)' /\ Fresh(d)'
  <2>1. CASE d = c
    BY <1>1, <2>1, ToolMoves DEF Inv, Reported, Fresh
  <2>2. CASE d # c
    <3>1. /\ pc'[d] = pc[d] /\ events'[d] = events[d]
          /\ upstream'[d] = upstream[d] /\ replies'[d] = replies[d]
      BY <1>1, <2>2, ToolMoves DEF Moves, Requests
    <3>. QED
      BY <1>1, <3>1 DEF Inv, Reported, Fresh
  <2>. QED
    BY <2>1, <2>2
<1>. QED
  BY <1>3, <1>4, <1>5 DEF Inv

\* What the upstream offers is what the account can use now.
LEMMA ServedInv ==
    ASSUME Inv, NEW r \in Requests, Served(r)
    PROVE  Inv'
<1>1. /\ pc[r] = "allowlist" /\ fetch[r].served = None
      /\ fetch' = [fetch EXCEPT ![r] = [sent |-> fetch[r].sent, served |-> clock,
                                        tools |-> plans[token[Client(r)]]]]
      /\ UNCHANGED <<transport, env, stored, plans, clock, session, token, cache, upstream,
                     replies, events, since, pc, answer, shown>>
  BY DEF Served, world, callVars
<1>2. /\ fetch[r] \in Fetches /\ fetch \in [Requests -> Fetches]
      /\ Client(r) \in Requests /\ token[Client(r)] \in Tokens
      /\ clock \in 0 .. MaxClock /\ plans \in [Tokens -> SUBSET Tools]
  BY <1>1 DEF Inv, Typed, ToolCallsTypeOK
<1>3. /\ fetch' \in [Requests -> Fetches]
      /\ fetch'[r] = [sent |-> fetch[r].sent, served |-> clock,
                      tools |-> plans[token[Client(r)]]]
      /\ \A q \in Requests \ {r} : fetch'[q] = fetch[q]
  BY <1>1, <1>2 DEF Fetches
<1>4. Typed'
  <2>1. ToolCallsTypeOK'
    BY <1>1 DEF Inv, Typed, ToolCallsTypeOK
  <2>2. \A q \in Requests : Client(q)' = Client(q)
    BY <1>1 DEF Client
  <2>. QED
    BY <1>1, <1>3, <2>1, <2>2 DEF Inv, Typed, Started
<1>5. Timely'
  BY <1>1, <1>2, <1>3 DEF Inv, Timely, Fetches
<1>6. ASSUME NEW d \in Calls PROVE Reported(d)' /\ Fresh(d)'
  <2>1. Reported(d)'
    BY <1>1 DEF Inv, Reported
  <2>2. CASE d = r
    <3>1. Client(d) = d
      BY ToolCallsAssumption DEF Client
    <3>. QED
      BY <1>1, <1>2, <1>3, <2>1, <2>2, <3>1 DEF Inv, Fresh
  <2>3. CASE d # r
    BY <1>1, <1>3, <2>1, <2>3 DEF Inv, Fresh, Requests
  <2>. QED
    BY <2>2, <2>3
<1>. QED
  BY <1>4, <1>5, <1>6 DEF Inv

\* The request that waited has its allowlist, or never will.
FetchEnds(r) == AllowlistArrives(r) \/ AllowlistFails(r)

\* What the end of a fetch may lead to, for a call and for a list.
LEMMA FetchMoves ==
    ASSUME Inv, NEW r \in Requests, FetchEnds(r)
    PROVE  /\ pc[r] = "allowlist" /\ pc'[r] \in {"tool", "done"}
           /\ Moves(r)
           /\ fetch' = [fetch EXCEPT ![r] = NoFetch]
           /\ \/ UNCHANGED cache
              \/ /\ session \in Lists
                 /\ fetch[r].served # None
                 /\ cache' = [cache EXCEPT ![session] =
                       [tools |-> fetch[r].tools, served |-> fetch[r].served, at |-> clock]]
           /\ UNCHANGED <<world, session, token, upstream, replies, since>>
           /\ r \in Calls =>
                 /\ UNCHANGED shown
                 /\ \/ /\ pc'[r] = "tool" /\ events'[r] = <<StartEvent>>
                       /\ fetch[r].served # None /\ tool[r] \in fetch[r].tools
                    \/ /\ pc'[r] = "done" /\ answer'[r] = "error"
                       /\ events'[r] = <<StartEvent, Event("end", "unexpected_error", None)>>
           /\ r \in Lists =>
                 \/ shown' = [shown EXCEPT ![r] = None]
                 \/ /\ fetch[r].served # None
                    /\ shown' = [shown EXCEPT ![r] = clock - fetch[r].served]
<1>1. Begun(r, Sofar(r)) /\ pc[r] = "allowlist"
  <2>1. pc[r] = "allowlist"
    BY DEF FetchEnds, AllowlistArrives, AllowlistFails
  <2>. QED
    BY <2>1, ToolCallsAssumption DEF Begun, Sofar, Inv, Reported
<1>2. fetch[r] \in Fetches /\ Typed
  BY DEF Inv, Typed
<1>3. CASE AllowlistArrives(r)
  <2>. DEFINE list == [tools |-> fetch[r].tools, served |-> fetch[r].served, at |-> clock]
  <2>1. /\ fetch[r].served # None /\ Use(r, Sofar(r), list)
        /\ cache' = IF Client(r) = session THEN [cache EXCEPT ![session] = list] ELSE cache
        /\ fetch' = [fetch EXCEPT ![r] = NoFetch]
        /\ UNCHANGED <<world, session, token, upstream, replies, since>>
    BY <1>3 DEF AllowlistArrives
  <2>2. list \in Allowlists /\ list.served <= clock
    BY <1>2, <2>1 DEF Allowlists, Fetches, Typed, Inv, Timely
  <2>3. Client(r) = session => session \in Lists
    BY <1>1, ToolCallsAssumption DEF Inv, Typed, ToolCallsTypeOK
  <2>4. pc'[r] \in {"tool", "done"}
    BY <2>1 DEF Use, End, Reply, Inv, Typed, ToolCallsTypeOK
  <2>5. list.tools = fetch[r].tools /\ list.served = fetch[r].served
    OBVIOUS
  <2>. HIDE DEF list
  <2>6. /\ Moves(r)
        /\ r \in Lists => shown' = [shown EXCEPT ![r] = clock - list.served]
        /\ r \in Calls =>
              /\ UNCHANGED shown
              /\ \/ /\ tool[r] \in list.tools
                    /\ pc'[r] = "tool" /\ events'[r] = <<StartEvent>>
                 \/ /\ pc'[r] = "done" /\ answer'[r] = "error"
                    /\ events'[r] = <<StartEvent, Event("end", "unexpected_error", None)>>
    BY <1>1, <1>2, <2>1, <2>2, UseMoves
  <2>7. UNCHANGED cache \/ (session \in Lists /\ cache' = [cache EXCEPT ![session] = list])
    BY <2>1, <2>3
  <2>. QED
    BY <1>1, <2>1, <2>4, <2>5, <2>6, <2>7 DEF list
<1>4. CASE AllowlistFails(r)
  <2>1. /\ DoWithout(r, Sofar(r))
        /\ fetch' = [fetch EXCEPT ![r] = NoFetch]
        /\ UNCHANGED <<world, session, token, cache, upstream, replies, since>>
    BY <1>4 DEF AllowlistFails
  <2>. QED
    BY <1>1, <1>2, <2>1, DoWithoutMoves
<1>. QED
  BY <1>3, <1>4 DEF FetchEnds

\* The end of a fetch keeps the invariant; its timer bounds its age.
LEMMA FetchInv ==
    ASSUME Inv, NEW r \in Requests, FetchEnds(r)
    PROVE  Inv'
<1>1. /\ Moves(r) /\ pc[r] = "allowlist" /\ pc'[r] \in {"tool", "done"}
      /\ UNCHANGED <<transport, env, stored, plans, clock, session, token, upstream,
                     replies, since>>
  BY FetchMoves DEF world
<1>2. \A q \in Requests : pc'[q] = "allowlist" => pc[q] = "allowlist" /\ q # r
  BY <1>1 DEF Moves
<1>3. /\ fetch' \in [Requests -> Fetches]
      /\ fetch'[r].served = None
      /\ \A q \in Requests \ {r} : fetch'[q] = fetch[q]
  <2>1. NoFetch \in Fetches /\ NoFetch.served = None
    BY ToolCallsAssumption DEF NoFetch, Fetches
  <2>. QED
    BY <2>1, FetchMoves DEF Inv, Typed
<1>4. /\ cache' \in [Requests -> Allowlists \cup {None}]
      /\ \A c \in Calls : cache'[c] = cache[c]
      /\ \A q \in Requests : \/ cache'[q] = cache[q]
                             \/ /\ fetch[r].served # None
                                /\ cache'[q].at = clock /\ cache'[q].served = fetch[r].served
  <2>. DEFINE list == [tools |-> fetch[r].tools, served |-> fetch[r].served, at |-> clock]
  <2>1. fetch[r].served # None => list \in Allowlists
    BY DEF Allowlists, Fetches, Inv, Typed
  <2>2. list.at = clock /\ list.served = fetch[r].served
    OBVIOUS
  <2>3. UNCHANGED cache \/ ( /\ session \in Lists /\ fetch[r].served # None
                             /\ cache' = [cache EXCEPT ![session] = list] )
    BY FetchMoves
  <2>. HIDE DEF list
  <2>4. cache \in [Requests -> Allowlists \cup {None}]
    BY DEF Inv, Typed, ToolCallsTypeOK
  <2>. QED
    BY <2>1, <2>2, <2>3, <2>4, ToolCallsAssumption DEF Requests
<1>5. Typed'
  <2>1. ToolCallsTypeOK'
    BY <1>1, <1>4 DEF Moves, Inv, Typed, ToolCallsTypeOK, Phases
  <2>2. events' \in [Calls -> Seq(Reports)]
    BY <1>1 DEF Moves
  <2>3. \A q \in Requests : Client(q)' = Client(q)
    BY <1>1 DEF Client
  <2>. QED
    BY <1>1, <1>2, <1>3, <2>1, <2>2, <2>3 DEF Inv, Typed, Started
<1>6. Timely'
  <2>1. ASSUME fetch[r].served # None
        PROVE  fetch[r].served <= clock /\ clock <= fetch[r].served + Timeout
    <3>1. fetch[r] \in Fetches /\ clock \in Nat /\ Timeout \in Nat
      BY ToolCallsAssumption DEF Inv, Typed
    <3>2. fetch[r].sent \in Nat /\ fetch[r].served \in Nat
      BY <2>1, <3>1, ToolCallsAssumption DEF Fetches
    <3>. QED
      BY <1>1, <2>1, <3>1, <3>2 DEF Inv, Timely
  <2>2. clock \in Nat
    BY ToolCallsAssumption DEF Inv, Typed
  <2>. QED
    BY <1>1, <1>2, <1>3, <1>4, <2>1, <2>2 DEF Inv, Timely
<1>7. ASSUME NEW d \in Calls PROVE Reported(d)' /\ Fresh(d)'
  <2>1. CASE d = r
    <3>1. \/ /\ pc'[d] = "tool" /\ events'[d] = <<StartEvent>>
             /\ fetch[d].served # None /\ tool[d] \in fetch[d].tools
          \/ pc'[d] = "done"
      BY <2>1, FetchMoves
    <3>2. Client(d) = d /\ token[d] \in Tokens
      BY <1>1, <2>1, ToolCallsAssumption DEF Client, Inv, Typed
    <3>3. Reported(d)'
      BY <1>1, <2>1, <3>1 DEF Inv, Reported
    <3>. QED
      BY <1>1, <1>4, <2>1, <3>1, <3>2, <3>3 DEF Inv, Fresh
  <2>2. CASE d # r
    <3>1. pc'[d] = pc[d] /\ events'[d] = events[d] /\ fetch'[d] = fetch[d]
      BY <1>1, <1>3, <2>2 DEF Moves, Requests
    <3>. QED
      BY <1>1, <1>4, <3>1 DEF Inv, Reported, Fresh
  <2>. QED
    BY <2>1, <2>2
<1>. QED
  BY <1>5, <1>6, <1>7 DEF Inv

\* What StartCall may lead to: an unreported failure, a reported one, or a call
\* with a client that waits for its allowlist.
LEMMA StartMoves ==
    ASSUME Inv, NEW c \in Calls, StartCall(c)
    PROVE  /\ pc[c] = "start"
           /\ Moves(c)
           /\ UNCHANGED <<world, session, upstream, replies, shown>>
           /\ cache' \in [Requests -> Allowlists \cup {None}]
           /\ \A q \in Requests : cache'[q] = cache[q] \/ cache'[q] = None
           /\ fetch' \in [Requests -> Fetches]
           /\ \A q \in Requests \ {c} : fetch'[q] = fetch[q]
           /\ \/ /\ pc'[c] = "done" /\ answer'[c] = "error"
                 /\ UNCHANGED <<token, since, fetch>>
                 /\ \/ events'[c] = <<>>
                    \/ events'[c] = <<StartEvent, Event("end", "auth_error", None)>>
              \/ \E t \in Tokens :
                    /\ Kind[t] = "system" => env.dev
                    /\ token' = [token EXCEPT ![c] = t]
                    /\ since' = [since EXCEPT ![c] = plans[t]]
                    /\ \/ /\ pc'[c] = "allowlist"
                          /\ fetch'[c] = [sent |-> clock, served |-> None, tools |-> {}]
                          /\ events'[c] = <<StartEvent>>
                       \/ /\ pc'[c] = "done" /\ answer'[c] = "error"
                          /\ UNCHANGED fetch
                          /\ events'[c] =
                                <<StartEvent, Event("end", "unexpected_error", None)>>
<1>1. /\ pc[c] = "start" /\ UNCHANGED <<world, session, upstream, replies>>
      /\ c \in Requests /\ c \notin Lists /\ cache[c] = None /\ events[c] = <<>>
      /\ Typed /\ Timely
  BY ToolCallsAssumption DEF StartCall, Inv, Reported, Fresh, Requests
<1>2. PICK t \in Identities :
        \/ /\ t = None
           /\ events' = [events EXCEPT ![c] = <<StartEvent, Event("end", "auth_error", None)>>]
           /\ Reply(c, "error")
           /\ UNCHANGED <<token, cache, fetch, since, shown>>
        \/ /\ t # None
           /\ Reply(c, "error")
           /\ UNCHANGED <<token, cache, fetch, since, events, shown>>
        \/ /\ t # None
           /\ token' = [token EXCEPT ![c] = t]
           /\ since' = [since EXCEPT ![c] = plans[t]]
           /\ GetAllowlist(c, c, <<StartEvent>>)
  BY DEF StartCall
<1>3. ASSUME Reply(c, "error")
      PROVE  /\ pc' \in [Requests -> Phases] /\ pc'[c] = "done" /\ answer'[c] = "error"
             /\ answer' \in [Requests -> {None, "ok", "none", "error"}]
             /\ \A q \in Requests \ {c} : pc'[q] = pc[q] /\ answer'[q] = answer[q]
  BY <1>1, <1>3 DEF Reply, Typed, ToolCallsTypeOK, Phases
<1>4. CASE /\ events' = [events EXCEPT ![c] = <<StartEvent, Event("end", "auth_error", None)>>]
           /\ Reply(c, "error")
           /\ UNCHANGED <<token, cache, fetch, since, shown>>
  <2>. DEFINE report == <<StartEvent, Event("end", "auth_error", None)>>
  <2>1. report \in Seq(Reports) /\ Len(report) = 2
    BY EventsTyped DEF Ends
  <2>2. events' = [events EXCEPT ![c] = report] /\ Len(report) <= 2
    BY <1>4, <2>1
  <2>. HIDE DEF report
  <2>3. /\ events' \in [Calls -> Seq(Reports)] /\ events'[c] = report
        /\ \A d \in Calls \ {c} : events'[d] = events[d]
    BY <1>1, <2>1, <2>2 DEF Typed
  <2>4. ASSUME NEW d \in Calls PROVE Len(events'[d]) <= 2
    <3>1. CASE events'[d] = report
      BY <2>2, <3>1
    <3>2. CASE events'[d] = events[d]
      BY <1>1, <3>2 DEF Typed, ToolCallsTypeOK
    <3>. QED
      BY <2>3, <3>1, <3>2
  <2>5. Moves(c)
    BY <1>1, <1>3, <1>4, <2>3, <2>4 DEF Moves, Typed, ToolCallsTypeOK
  <2>. QED
    BY <1>1, <1>3, <1>4, <2>3, <2>5 DEF Typed, ToolCallsTypeOK, report
<1>5. CASE /\ Reply(c, "error")
           /\ UNCHANGED <<token, cache, fetch, since, events, shown>>
  <2>1. Moves(c)
    BY <1>1, <1>3, <1>5 DEF Moves, Typed, ToolCallsTypeOK
  <2>. QED
    BY <1>1, <1>3, <1>5, <2>1 DEF Typed, ToolCallsTypeOK
<1>6. CASE /\ t # None
           /\ token' = [token EXCEPT ![c] = t]
           /\ since' = [since EXCEPT ![c] = plans[t]]
           /\ GetAllowlist(c, c, <<StartEvent>>)
  <2>1. t \in Tokens /\ (Kind[t] = "system" => env.dev)
    BY <1>1, <1>6, IdentityAllowed
  <2>2. Begun(c, <<StartEvent>>)
    BY DEF Begun
  <2>. QED
    BY <1>1, <1>6, <2>1, <2>2, GetMoves
<1>. QED
  BY <1>2, <1>4, <1>5, <1>6

\* A call that starts keeps the invariant.
LEMMA StartInv ==
    ASSUME Inv, NEW c \in Calls, StartCall(c)
    PROVE  Inv'
<1>1. /\ Moves(c) /\ c \in Requests /\ c \notin Lists
      /\ UNCHANGED <<transport, env, stored, plans, clock, session, upstream, replies, shown>>
      /\ cache' \in [Requests -> Allowlists \cup {None}]
      /\ \A q \in Requests : cache'[q] = cache[q] \/ cache'[q] = None
      /\ fetch' \in [Requests -> Fetches]
      /\ \A q \in Requests \ {c} : fetch'[q] = fetch[q]
      /\ \A q \in Requests \ {c} : pc'[q] = pc[q]
      /\ \A d \in Calls \ {c} : events'[d] = events[d]
  BY StartMoves, ToolCallsAssumption DEF world, Requests, Moves
<1>2. /\ token' \in [Requests -> Found] /\ since' \in [Calls -> SUBSET Tools]
      /\ \A q \in Requests \ {c} : token'[q] = token[q]
      /\ \A d \in Calls \ {c} : since'[d] = since[d]
      /\ token'[c] = None \/
            /\ token'[c] \in Tokens /\ since'[c] = plans[token'[c]]
            /\ Kind[token'[c]] = "system" => env.dev
      /\ pc'[c] = "allowlist" => token'[c] \in Tokens
  <2>1. token \in [Requests -> Found] /\ since \in [Calls -> SUBSET Tools] /\ token[c] = None
        /\ plans \in [Tokens -> SUBSET Tools]
    BY StartMoves DEF Inv, Typed, ToolCallsTypeOK, Reported
  <2>2. \/ UNCHANGED <<token, since>> /\ pc'[c] # "allowlist"
        \/ \E t \in Tokens :
              /\ Kind[t] = "system" => env.dev
              /\ token' = [token EXCEPT ![c] = t]
              /\ since' = [since EXCEPT ![c] = plans[t]]
    BY StartMoves
  <2>. QED
    BY <1>1, <2>1, <2>2 DEF Found
<1>3. /\ pc'[c] = "allowlist" \/ pc'[c] = "done"
      /\ pc'[c] = "allowlist" =>
            /\ fetch'[c] = [sent |-> clock, served |-> None, tools |-> {}]
            /\ events'[c] = <<StartEvent>>
      /\ pc'[c] = "done" => fetch' = fetch
  BY StartMoves
<1>4. Typed'
  <2>1. ToolCallsTypeOK'
    BY <1>1, <1>2 DEF Moves, Inv, Typed, ToolCallsTypeOK, Phases
  <2>2. events' \in [Calls -> Seq(Reports)]
    BY <1>1 DEF Moves
  <2>3. session' # None => token'[session'] \in Tokens
    BY <1>1, <1>2 DEF Inv, Typed, ToolCallsTypeOK, Requests
  <2>4. ASSUME NEW q \in Requests, pc'[q] = "allowlist"
        PROVE  Client(q)' \in Requests /\ token'[Client(q)'] \in Tokens
    <3>1. CASE q = c
      BY <1>1, <1>2, <2>4, <3>1 DEF Client
    <3>2. CASE q # c
      <4>1. Client(q)' = Client(q) /\ Client(q) # c
        BY <1>1, <3>2, ToolCallsAssumption DEF Client, Inv, Typed, ToolCallsTypeOK
      <4>. QED
        BY <1>1, <1>2, <2>4, <3>2, <4>1 DEF Inv, Typed
    <3>. QED
      BY <3>1, <3>2
  <2>. QED
    BY <1>1, <1>2, <2>1, <2>2, <2>3, <2>4 DEF Inv, Typed, Started
<1>5. Timely'
  <2>1. clock \in Nat /\ Timeout \in Nat
    BY ToolCallsAssumption DEF Inv, Typed
  <2>. QED
    BY <1>1, <1>3, <2>1 DEF Inv, Timely
<1>6. ASSUME NEW d \in Calls PROVE Reported(d)' /\ Fresh(d)'
  <2>1. CASE d = c
    <3>1. upstream[c] = None /\ replies[c] < MaxReplies /\ cache'[c] = None
      BY <1>1, StartMoves DEF Inv, Reported, Fresh
    <3>. QED
      BY <1>1, <1>2, <1>3, <2>1, <3>1, ToolCallsAssumption DEF Reported, Fresh
  <2>2. CASE d # c
    <3>1. /\ pc'[d] = pc[d] /\ events'[d] = events[d] /\ fetch'[d] = fetch[d]
          /\ token'[d] = token[d] /\ since'[d] = since[d]
          /\ cache'[d] = cache[d] \/ cache'[d] = None
      BY <1>1, <1>2, <2>2 DEF Requests
    <3>. QED
      BY <1>1, <3>1 DEF Inv, Reported, Fresh
  <2>. QED
    BY <2>1, <2>2
<1>. QED
  BY <1>4, <1>5, <1>6 DEF Inv

\* A list changes no token but its own client's, which it makes when it begins,
\* and no more of the calls than it reads.
LEMMA ListMoves ==
    ASSUME Inv, NEW l \in Lists, StartList(l)
    PROVE  /\ pc[l] \in {"start", "done"}
           /\ Moves(l)
           /\ UNCHANGED <<world, upstream, replies, since>>
           /\ cache' \in [Requests -> Allowlists \cup {None}]
           /\ \A q \in Requests : cache'[q] = cache[q] \/ cache'[q] = None
           /\ fetch' \in [Requests -> Fetches]
           /\ \A q \in Requests \ {l} : fetch'[q] = fetch[q]
           /\ \/ /\ pc'[l] = "allowlist"
                 /\ fetch'[l] = [sent |-> clock, served |-> None, tools |-> {}]
              \/ pc'[l] # "allowlist" /\ UNCHANGED fetch
           /\ token' \in [Requests -> Found]
           /\ \A q \in Requests \ {l} : token'[q] = token[q]
           /\ \/ UNCHANGED <<session, token>> /\ (session # None \/ pc'[l] # "allowlist")
              \/ /\ token'[l] \in Tokens
                 /\ \/ session = None /\ transport = "stdio" /\ session' = l
                    \/ session' = session /\ transport = "http"
           /\ \/ UNCHANGED shown
              \/ shown' = [shown EXCEPT ![l] = None]
              \/ \E k \in Requests :
                    /\ cache[k] # None
                    /\ clock - cache[k].at <= Ttl
                    /\ shown' = [shown EXCEPT ![l] = clock - cache[k].served]
<1>1. /\ l \in Requests /\ l \notin Calls /\ Typed /\ Timely
      /\ Begun(l, <<>>) /\ l # None
      /\ session # None => session \in Requests
  BY ToolCallsAssumption DEF Requests, Begun, Inv, Typed, ToolCallsTypeOK
<1>2. pc[l] \in {"start", "done"} /\ UNCHANGED <<world, upstream, replies, since>>
  BY DEF StartList
<1>3. \/ \E t \in Identities :
            /\ session = None \/ transport = "http"
            /\ t # None
            /\ token' = [token EXCEPT ![l] = t]
            /\ session' = IF transport = "stdio" THEN l ELSE session
            /\ GetAllowlist(l, l, <<>>)
      \/ /\ Reply(l, "error")
         /\ UNCHANGED <<session, token, cache, fetch, events, shown>>
      \/ /\ session # None
         /\ UNCHANGED <<session, token>>
         /\ GetAllowlist(l, session, <<>>)
  BY DEF StartList
<1>4. ASSUME NEW k \in Requests, GetAllowlist(l, k, <<>>)
      PROVE  /\ Moves(l)
             /\ cache' \in [Requests -> Allowlists \cup {None}]
             /\ \A q \in Requests : cache'[q] = cache[q] \/ cache'[q] = None
             /\ fetch' \in [Requests -> Fetches]
             /\ \A q \in Requests \ {l} : fetch'[q] = fetch[q]
             /\ \/ /\ pc'[l] = "allowlist"
                   /\ fetch'[l] = [sent |-> clock, served |-> None, tools |-> {}]
                \/ pc'[l] # "allowlist" /\ UNCHANGED fetch
             /\ \/ UNCHANGED shown
                \/ shown' = [shown EXCEPT ![l] = None]
                \/ /\ cache[k] # None
                   /\ clock - cache[k].at <= Ttl
                   /\ shown' = [shown EXCEPT ![l] = clock - cache[k].served]
  BY <1>1, <1>4, GetMoves
<1>5. ASSUME NEW t \in Identities,
             session = None \/ transport = "http",
             t # None,
             token' = [token EXCEPT ![l] = t],
             session' = IF transport = "stdio" THEN l ELSE session,
             GetAllowlist(l, l, <<>>)
      PROVE  /\ token' \in [Requests -> Found]
             /\ \A q \in Requests \ {l} : token'[q] = token[q]
             /\ token'[l] \in Tokens
             /\ \/ session = None /\ transport = "stdio" /\ session' = l
                \/ session' = session /\ transport = "http"
  <2>1. t \in Tokens
    BY <1>1, <1>5, IdentityAllowed
  <2>2. transport \in {"stdio", "http"} /\ token \in [Requests -> Found]
    BY <1>1 DEF Typed, Started, ToolCallsTypeOK
  <2>. QED
    BY <1>1, <1>5, <2>1, <2>2 DEF Found
<1>6. CASE \E t \in Identities :
              /\ session = None \/ transport = "http"
              /\ t # None
              /\ token' = [token EXCEPT ![l] = t]
              /\ session' = IF transport = "stdio" THEN l ELSE session
              /\ GetAllowlist(l, l, <<>>)
  BY <1>1, <1>2, <1>4, <1>5, <1>6
<1>7. CASE /\ Reply(l, "error")
           /\ UNCHANGED <<session, token, cache, fetch, events, shown>>
  <2>1. pc' = [pc EXCEPT ![l] = "done"] /\ answer' = [answer EXCEPT ![l] = "error"]
    BY <1>7 DEF Reply
  <2>2. Moves(l) /\ pc'[l] # "allowlist"
    BY <1>1, <1>7, <2>1 DEF Moves, Typed, ToolCallsTypeOK, Phases
  <2>. QED
    BY <1>1, <1>2, <1>7, <2>2 DEF Typed, ToolCallsTypeOK
<1>8. CASE /\ session # None
           /\ UNCHANGED <<session, token>>
           /\ GetAllowlist(l, session, <<>>)
  <2>1. token' \in [Requests -> Found] /\ \A q \in Requests \ {l} : token'[q] = token[q]
    BY <1>1, <1>8 DEF Typed, ToolCallsTypeOK
  <2>. QED
    BY <1>1, <1>2, <1>4, <1>8, <2>1
<1>. QED
  BY <1>3, <1>6, <1>7, <1>8

\* A list keeps the invariant, though it may replace the session.
LEMMA ListInv ==
    ASSUME Inv, NEW l \in Lists, StartList(l)
    PROVE  Inv'
<1>1. /\ Moves(l) /\ l \in Requests /\ l \notin Calls /\ l # None
      /\ UNCHANGED <<transport, env, stored, plans, clock, upstream, replies, since>>
      /\ cache' \in [Requests -> Allowlists \cup {None}]
      /\ \A q \in Requests : cache'[q] = cache[q] \/ cache'[q] = None
      /\ fetch' \in [Requests -> Fetches]
      /\ \A q \in Requests \ {l} : fetch'[q] = fetch[q]
      /\ pc'[l] = "allowlist" =>
            fetch'[l] = [sent |-> clock, served |-> None, tools |-> {}]
      /\ pc'[l] # "allowlist" => fetch' = fetch
      /\ \A q \in Requests \ {l} : pc'[q] = pc[q]
      /\ \A d \in Calls : events'[d] = events[d]
  <2>1. /\ Moves(l)
        /\ UNCHANGED <<world, upstream, replies, since>>
    BY ListMoves
  <2>2. l \in Requests /\ l \notin Calls /\ l # None
    BY ToolCallsAssumption DEF Requests
  <2>3. /\ UNCHANGED <<transport, env, stored, plans, clock, upstream, replies, since>>
    BY <2>1 DEF world
  <2>4. /\ \A q \in Requests \ {l} : pc'[q] = pc[q]
        /\ \A d \in Calls : events'[d] = events[d]
    BY <2>1, <2>2 DEF Moves
  <2>5. /\ cache' \in [Requests -> Allowlists \cup {None}]
        /\ \A q \in Requests : cache'[q] = cache[q] \/ cache'[q] = None
        /\ fetch' \in [Requests -> Fetches]
        /\ \A q \in Requests \ {l} : fetch'[q] = fetch[q]
        /\ pc'[l] = "allowlist" =>
              fetch'[l] = [sent |-> clock, served |-> None, tools |-> {}]
        /\ pc'[l] # "allowlist" => fetch' = fetch
    BY ListMoves
  <2>. QED
    BY <2>1, <2>2, <2>3, <2>4, <2>5
<1>2. /\ token' \in [Requests -> Found]
      /\ \A q \in Requests \ {l} : token'[q] = token[q]
      /\ \/ UNCHANGED <<session, token>> /\ (session # None \/ pc'[l] # "allowlist")
         \/ /\ token'[l] \in Tokens
            /\ \/ session = None /\ transport = "stdio" /\ session' = l
               \/ session' = session /\ transport = "http"
  BY ListMoves
<1>3. Typed'
  <2>1. ToolCallsTypeOK'
    BY <1>1, <1>2 DEF Moves, Inv, Typed, ToolCallsTypeOK, Phases
  <2>2. events' \in [Calls -> Seq(Reports)]
    BY <1>1 DEF Moves
  <2>3. /\ transport = "http" => session' = None
        /\ session' # None => token'[session'] \in Tokens
    BY <1>1, <1>2, ToolCallsAssumption DEF Inv, Typed, Started, ToolCallsTypeOK, Requests
  <2>4. ASSUME NEW q \in Requests, pc'[q] = "allowlist"
        PROVE  Client(q)' \in Requests /\ token'[Client(q)'] \in Tokens
    <3>1. CASE UNCHANGED <<session, token>> /\ (session # None \/ pc'[l] # "allowlist")
      <4>1. Client(q)' = Client(q)
        BY <1>1, <3>1 DEF Client
      <4>2. CASE q # l
        BY <1>1, <2>4, <3>1, <4>1, <4>2 DEF Inv, Typed
      <4>3. CASE q = l
        <5>1. session # None /\ token[session] \in Tokens /\ session \in Lists /\ transport = "stdio"
          BY <2>4, <3>1, <4>3 DEF Inv, Typed, Started, ToolCallsTypeOK
        <5>2. Client(q) = session
          BY <4>3, <5>1 DEF Client
        <5>. QED
          BY <3>1, <4>1, <5>1, <5>2 DEF Requests
      <4>. QED
        BY <4>2, <4>3
    <3>2. CASE token'[l] \in Tokens /\ session = None /\ transport = "stdio" /\ session' = l
      <4>1. CASE q \in Lists
        BY <1>1, <3>2, <4>1 DEF Client
      <4>2. CASE q \notin Lists
        <5>1. Client(q)' = q /\ Client(q) = q /\ q # l
          BY <4>2 DEF Client
        <5>. QED
          BY <1>1, <1>2, <2>4, <5>1 DEF Inv, Typed
      <4>. QED
        BY <4>1, <4>2
    <3>3. CASE token'[l] \in Tokens /\ session' = session /\ transport = "http"
      <4>1. Client(q)' = q /\ Client(q) = q
        BY <1>1, <3>3 DEF Client
      <4>. QED
        BY <1>1, <1>2, <2>4, <3>3, <4>1 DEF Inv, Typed
    <3>. QED
      BY <1>2, <3>1, <3>2, <3>3
  <2>. QED
    BY <1>1, <1>2, <2>1, <2>2, <2>3, <2>4 DEF Inv, Typed, Started
<1>4. Timely'
  <2>1. clock \in Nat /\ Timeout \in Nat
    BY ToolCallsAssumption DEF Inv, Typed
  <2>. QED
    BY <1>1, <2>1 DEF Inv, Timely
<1>5. ASSUME NEW d \in Calls PROVE Reported(d)' /\ Fresh(d)'
  <2>1. /\ d \in Requests /\ d # l
    BY <1>1 DEF Requests
  <2>2. /\ pc'[d] = pc[d] /\ events'[d] = events[d] /\ fetch'[d] = fetch[d]
        /\ token'[d] = token[d]
        /\ cache'[d] = cache[d] \/ cache'[d] = None
    BY <1>1, <1>2, <2>1
  <2>3. Reported(d) /\ Fresh(d)
    BY DEF Inv
  <2>4. Reported(d)'
    BY <1>1, <2>2, <2>3 DEF Reported
  <2>5. Fresh(d)'
    BY <1>1, <2>2, <2>3 DEF Fresh
  <2>. QED
    BY <2>4, <2>5
<1>. QED
  BY <1>3, <1>4, <1>5 DEF Inv

\* Logins, logouts, plans and time.
LEMMA WorldInv ==
    ASSUME Inv, Switch \/ Replan \/ Tick
    PROVE  Inv'
<1>1. UNCHANGED <<transport, env, clients, upstream, replies, events, pc, answer, shown>>
  BY DEF Switch, Replan, Tick, callVars
<1>2. \A q \in Requests : Client(q)' = Client(q)
  BY <1>1 DEF Client, clients
<1>3. CASE Switch
  BY <1>1, <1>2, <1>3
     DEF Switch, clients, callVars, Inv, Typed, Started, ToolCallsTypeOK, Timely, Reported, Fresh
<1>4. CASE Tick
  <2>1. clock' = clock + 1 /\ clock' \in 0 .. MaxClock
    BY <1>4, ToolCallsAssumption DEF Tick, Inv, Typed
  <2>2. UNCHANGED <<transport, env, stored, plans, session, token, cache, fetch, upstream,
                    replies, events, since, pc, answer, shown>>
    BY <1>4 DEF Tick, clients, callVars
  <2>3. Typed'
    BY <1>2, <2>1, <2>2 DEF Inv, Typed, Started, ToolCallsTypeOK
  <2>4. Timely'
    <3>1. clock \in Nat /\ Timeout \in Nat
      BY ToolCallsAssumption DEF Inv, Typed
    <3>2. \A r \in Requests : fetch[r] \in Fetches /\ cache[r] \in Allowlists \cup {None}
      BY DEF Inv, Typed, ToolCallsTypeOK
    <3>. QED
      BY <1>4, <2>1, <2>2, <3>1, <3>2, ToolCallsAssumption
         DEF Tick, Inv, Timely, Fetches, Allowlists
  <2>. QED
    BY <2>2, <2>3, <2>4 DEF Inv, Reported, Fresh
<1>5. CASE Replan
  <2>1. PICK t \in Tokens, offered \in SUBSET Tools :
          /\ plans' = [plans EXCEPT ![t] = offered]
          /\ since' = [c \in Calls |-> IF token[c] = t THEN since[c] \cup offered ELSE since[c]]
    BY <1>5 DEF Replan
  <2>2. UNCHANGED <<transport, env, stored, clock, session, token, cache, fetch, upstream,
                    replies, events, pc, answer, shown>>
    BY <1>5 DEF Replan, clients
  <2>3. plans' \in [Tokens -> SUBSET Tools] /\ since' \in [Calls -> SUBSET Tools]
    BY <2>1 DEF Inv, Typed, ToolCallsTypeOK
  <2>4. Typed'
    BY <1>2, <2>2, <2>3 DEF Inv, Typed, Started, ToolCallsTypeOK
  <2>5. Timely'
    BY <2>2 DEF Inv, Timely
  <2>6. ASSUME NEW c \in Calls PROVE Reported(c)' /\ Fresh(c)'
    <3>1. since[c] \subseteq since'[c]
      BY <2>1
    <3>2. token[c] \in Tokens /\ plans[token[c]] \subseteq since[c]
            => plans'[token[c]] \subseteq since'[c]
      BY <2>1 DEF Inv, Typed, ToolCallsTypeOK
    <3>. QED
      BY <2>2, <3>1, <3>2 DEF Inv, Reported, Fresh
  <2>. QED
    BY <2>4, <2>5, <2>6 DEF Inv
<1>. QED
  BY <1>3, <1>4, <1>5

\* The server starts in a state the invariant describes.
LEMMA InvInit == ToolCallsInit => Inv
<1>. SUFFICES ASSUME ToolCallsInit PROVE Inv
  OBVIOUS
<1>1. Started
  BY ToolCallsAssumption DEF ToolCallsInit, Started
<1>2. NoFetch \in Fetches
  BY ToolCallsAssumption DEF NoFetch, Fetches
<1>3. ToolCallsTypeOK
  <2>1. Len(<<>>) <= 2 /\ 0 \in 0 .. MaxReplies /\ {} \in SUBSET Tools
    BY ToolCallsAssumption
  <2>2. \A c \in Calls : Len(events[c]) <= 2
    BY <2>1 DEF ToolCallsInit
  <2>3. /\ token \in [Requests -> Found] /\ pc \in [Requests -> Phases]
        /\ cache \in [Requests -> Allowlists \cup {None}]
        /\ answer \in [Requests -> {None, "ok", "none", "error"}]
    BY DEF ToolCallsInit, Found, Phases
  <2>4. /\ upstream \in [Calls -> Statuses \cup {None}]
        /\ replies \in [Calls -> 0 .. MaxReplies]
        /\ shown \in [Lists -> (0 .. MaxClock) \cup {None}]
    BY <2>1 DEF ToolCallsInit
  <2>. QED
    BY <2>2, <2>3, <2>4 DEF ToolCallsInit, ToolCallsTypeOK, Phases
<1>4. Typed
  BY <1>1, <1>2, <1>3, ToolCallsAssumption DEF ToolCallsInit, Typed
<1>5. Timely /\ \A c \in Calls : Reported(c) /\ Fresh(c)
  BY ToolCallsAssumption DEF ToolCallsInit, Timely, Reported, Fresh, NoFetch, Requests
<1>. QED
  BY <1>4, <1>5 DEF Inv

\* Every step keeps the invariant.
LEMMA InvNext == Inv /\ [ToolCallsNext]_toolVars => Inv'
<1>. SUFFICES ASSUME Inv, [ToolCallsNext]_toolVars PROVE Inv'
  OBVIOUS
<1>1. CASE UNCHANGED toolVars
  BY <1>1 DEF toolVars, world, clients, callVars, Inv, Typed, Started, ToolCallsTypeOK,
              Timely, Reported, Fresh, Client
<1>2. ASSUME NEW c \in Calls, StartCall(c) PROVE Inv'
  BY <1>2, StartInv
<1>3. ASSUME NEW c \in Calls, ToolSteps(c) PROVE Inv'
  BY <1>3, ToolInv
<1>4. ASSUME NEW l \in Lists, StartList(l) PROVE Inv'
  BY <1>4, ListInv
<1>5. ASSUME NEW r \in Requests, Served(r) PROVE Inv'
  BY <1>5, ServedInv
<1>6. ASSUME NEW r \in Requests, FetchEnds(r) PROVE Inv'
  BY <1>6, FetchInv
<1>7. CASE Switch \/ Replan \/ Tick
  BY <1>7, WorldInv
<1>. QED
  BY <1>1, <1>2, <1>3, <1>4, <1>5, <1>6, <1>7 DEF ToolCallsNext, ToolSteps, FetchEnds

\* The inductive invariant holds throughout.
LEMMA InvAlways == ToolCallsSpec => []Inv
BY InvInit, InvNext, PTL DEF ToolCallsSpec

-----------------------------------------------------------------------------
(* Theorems. *)

\* Every variable of the tool pipeline keeps its type, and no call emits a
\* third event, whatever middleware.ts and allowlist.ts interleave.
THEOREM ToolCallsTypeCorrect == ToolCallsSpec => []ToolCallsTypeOK
<1>1. Inv => ToolCallsTypeOK
  BY DEF Inv, Typed
<1>. QED
  BY <1>1, InvAlways, PTL

\* assertToolAllowed of middleware.ts lets a tool run only if its account could
\* use it at some time since the call began, and a system token only in dev.
THEOREM AlwaysFreshlyAllowed == ToolCallsSpec => []FreshlyAllowed
<1>1. Inv => FreshlyAllowed
  BY DEF Inv, Fresh, FreshlyAllowed
<1>. QED
  BY <1>1, InvAlways, PTL

\* What a finished call left behind.
Told(c) == pc[c] = "done" =>
    \/ events[c] = <<>> /\ answer[c] = "error" /\ token[c] = None
    \/ \E status \in Ends, up \in Statuses \cup {None} :
          /\ events[c] = <<StartEvent, Event("end", status, up)>>
          /\ status = "ok" <=> answer[c] = "ok"
          /\ status \in {"ok", "upstream_error", "quota_exceeded"} => tool[c] \in since[c]
          /\ status = "auth_error" => token[c] = None \/ up \notin {None, 200}

\* A step of another request leaves the account of a call true.
LEMMA StaysTold ==
    ASSUME NEW c \in Calls, Told(c), since[c] \subseteq since'[c],
           pc'[c] = pc[c], events'[c] = events[c], answer'[c] = answer[c],
           token'[c] = token[c]
    PROVE  Told(c)'
BY DEF Told

\* The end event of a finished call, taken from its sequence.
LEMMA EndRead ==
    ASSUME NEW status, NEW up
    PROVE  LET report == <<StartEvent, Event("end", status, up)>> IN
           /\ report # <<>> /\ Len(report) = 2 /\ report = <<StartEvent, report[2]>>
           /\ report[2].kind = "end" /\ report[2].status = status
           /\ report[2].upstream = up
<1>. DEFINE end == Event("end", status, up)
<1>1. end.kind = "end" /\ end.status = status /\ end.upstream = up
  BY DEF Event
<1>. HIDE DEF end
<1>2. LET report == <<StartEvent, end>> IN
      report # <<>> /\ Len(report) = 2 /\ report[2] = end
  OBVIOUS
<1>. QED
  BY <1>1, <1>2 DEF end

\* What finished calls left behind is what the property asks of them.
LEMMA ToldImplies == Inv /\ (\A c \in Calls : Told(c)) => ReportedTruthfully
<1>. SUFFICES ASSUME Inv, NEW c \in Calls, Told(c)
              PROVE  /\ pc[c] \in {"allowlist", "tool"} => events[c] = <<StartEvent>>
                     /\ pc[c] = "done" /\ events[c] = <<>> =>
                           answer[c] = "error" /\ token[c] = None
                     /\ pc[c] = "done" /\ events[c] # <<>> =>
                           Len(events[c]) = 2 /\ LET e == events[c][2] IN
                           /\ events[c] = <<StartEvent, e>> /\ e.kind = "end"
                           /\ e.status = "ok" <=> answer[c] = "ok"
                           /\ e.status \in {"ok", "upstream_error", "quota_exceeded"} =>
                                 tool[c] \in since[c]
                           /\ e.status = "auth_error" =>
                                 token[c] = None \/ e.upstream \notin {None, 200}
  BY DEF ReportedTruthfully
<1>1. pc[c] \in {"allowlist", "tool"} => events[c] = <<StartEvent>>
  BY DEF Inv, Reported
<1>2. CASE events[c] = <<>> /\ answer[c] = "error" /\ token[c] = None
  BY <1>1, <1>2
<1>3. CASE pc[c] # "done"
  BY <1>1, <1>3
<1>4. ASSUME NEW status \in Ends, NEW up \in Statuses \cup {None}, pc[c] = "done",
             events[c] = <<StartEvent, Event("end", status, up)>>,
             status = "ok" <=> answer[c] = "ok",
             status \in {"ok", "upstream_error", "quota_exceeded"} => tool[c] \in since[c],
             status = "auth_error" => token[c] = None \/ up \notin {None, 200}
      PROVE  /\ events[c] # <<>> /\ Len(events[c]) = 2
             /\ events[c] = <<StartEvent, events[c][2]>> /\ events[c][2].kind = "end"
             /\ events[c][2].status = "ok" <=> answer[c] = "ok"
             /\ events[c][2].status \in {"ok", "upstream_error", "quota_exceeded"} =>
                   tool[c] \in since[c]
             /\ events[c][2].status = "auth_error" =>
                   token[c] = None \/ events[c][2].upstream \notin {None, 200}
  <2>1. /\ events[c] # <<>> /\ Len(events[c]) = 2
        /\ events[c] = <<StartEvent, events[c][2]>> /\ events[c][2].kind = "end"
        /\ events[c][2].status = status /\ events[c][2].upstream = up
    <3>. DEFINE report == <<StartEvent, Event("end", status, up)>>
    <3>1. /\ report # <<>> /\ Len(report) = 2 /\ report = <<StartEvent, report[2]>>
          /\ report[2].kind = "end" /\ report[2].status = status
          /\ report[2].upstream = up
      BY EndRead
    <3>2. events[c] = report
      BY <1>4
    <3>. HIDE DEF report
    <3>. QED
      BY <3>1, <3>2
  <2>. QED
    BY <1>4, <2>1
<1>. QED
  BY <1>1, <1>2, <1>3, <1>4 DEF Told

\* Every step leaves the account of every call true.
LEMMA ToldNext ==
    ASSUME Inv, [ToolCallsNext]_toolVars, NEW c \in Calls, Told(c)
    PROVE  Told(c)'
<1>0. since[c] \in SUBSET Tools /\ c \in Requests
  BY DEF Inv, Typed, Requests
<1>1. CASE UNCHANGED toolVars
  BY <1>1, StaysTold DEF toolVars, clients, callVars
<1>2. ASSUME NEW d \in Calls, StartCall(d) PROVE Told(c)'
  <2>1. CASE c = d
    <3>1. CASE pc'[c] # "done"
      BY <3>1 DEF Told
    <3>2. CASE UNCHANGED <<token, since, fetch>> /\ events'[c] = <<>> /\ answer'[c] = "error"
      <4>1. token'[c] = None
        BY <1>2, <2>1, <3>2, StartMoves DEF Inv, Reported
      <4>. QED
        BY <3>2, <4>1 DEF Told
    <3>3. CASE /\ UNCHANGED <<token, since, fetch>> /\ answer'[c] = "error"
               /\ events'[c] = <<StartEvent, Event("end", "auth_error", None)>>
      <4>1. token'[c] = None
        BY <1>2, <2>1, <3>3, StartMoves DEF Inv, Reported
      <4>2. "auth_error" \in Ends
        BY DEF Ends
      <4>. QED
        BY <3>3, <4>1, <4>2 DEF Told
    <3>4. CASE /\ answer'[c] = "error"
               /\ events'[c] = <<StartEvent, Event("end", "unexpected_error", None)>>
      <4>1. "unexpected_error" \in Ends
        BY DEF Ends
      <4>. QED
        BY <3>4, <4>1 DEF Told
    <3>. QED
      BY <1>2, <2>1, <3>1, <3>2, <3>3, <3>4, StartMoves
  <2>2. CASE c # d
    <3>1. Moves(d) /\ (\/ UNCHANGED <<token, since>>
                       \/ \E t \in Tokens : /\ token' = [token EXCEPT ![d] = t]
                                            /\ since' = [since EXCEPT ![d] = plans[t]])
      BY <1>2, StartMoves
    <3>2. token'[c] = token[c] /\ since'[c] = since[c]
      BY <1>0, <2>2, <3>1 DEF Inv, Typed, ToolCallsTypeOK
    <3>3. pc'[c] = pc[c] /\ events'[c] = events[c] /\ answer'[c] = answer[c]
      BY <1>0, <2>2, <3>1 DEF Moves
    <3>. QED
      BY <3>2, <3>3, StaysTold
  <2>. QED
    BY <2>1, <2>2
<1>3. ASSUME NEW d \in Calls, ToolSteps(d) PROVE Told(c)'
  <2>1. Moves(d) /\ UNCHANGED <<world, clients, since, shown>> /\ pc[d] = "tool"
    BY <1>3, ToolMoves
  <2>2. CASE c = d
    <3>1. CASE pc'[c] = "tool"
      BY <3>1 DEF Told
    <3>2. ASSUME NEW thrown,
                 answer'[c] = (IF thrown = None THEN "ok" ELSE "error"),
                 events'[c] = <<StartEvent, Event("end", Classify(thrown), upstream'[c])>>,
                 Classify(thrown) = "auth_error" => upstream'[c] \notin {None, 200}
          PROVE  Told(c)'
      <4>1. Classify(thrown) \in Ends /\ upstream'[c] \in Statuses \cup {None}
        BY <1>3, ClassifyTyped, ToolMoves
      <4>2. Classify(thrown) = "ok" <=> answer'[c] = "ok"
        BY <3>2 DEF Classify
      <4>3. tool[c] \in since'[c]
        BY <2>1, <2>2 DEF Inv, Fresh
      <4>. QED
        BY <3>2, <4>1, <4>2, <4>3 DEF Told
    <3>. QED
      BY <1>3, <2>2, <3>1, <3>2, ToolMoves
  <2>3. CASE c # d
    <3>1. pc'[c] = pc[c] /\ events'[c] = events[c] /\ answer'[c] = answer[c]
      BY <1>0, <2>1, <2>3 DEF Moves
    <3>2. token'[c] = token[c] /\ since'[c] = since[c]
      BY <2>1 DEF clients
    <3>. QED
      BY <3>1, <3>2, StaysTold
  <2>. QED
    BY <2>2, <2>3
<1>4. ASSUME NEW l \in Lists, StartList(l) PROVE Told(c)'
  <2>1. c # l
    BY <1>4, ToolCallsAssumption
  <2>2. Moves(l) /\ UNCHANGED since /\ \A q \in Requests \ {l} : token'[q] = token[q]
    BY <1>4, ListMoves
  <2>3. pc'[c] = pc[c] /\ events'[c] = events[c] /\ answer'[c] = answer[c]
    BY <1>0, <2>1, <2>2 DEF Moves
  <2>. QED
    BY <1>0, <2>1, <2>2, <2>3, StaysTold
<1>5. ASSUME NEW r \in Requests, Served(r) PROVE Told(c)'
  BY <1>5, StaysTold DEF Served, callVars
<1>6. ASSUME NEW r \in Requests, FetchEnds(r) PROVE Told(c)'
  <2>1. Moves(r) /\ UNCHANGED <<world, session, token, upstream, replies, since>>
    BY <1>6, FetchMoves
  <2>2. CASE c = r
    <3>1. CASE pc'[c] = "tool"
      BY <3>1 DEF Told
    <3>2. CASE /\ answer'[c] = "error"
               /\ events'[c] = <<StartEvent, Event("end", "unexpected_error", None)>>
      <4>1. "unexpected_error" \in Ends
        BY DEF Ends
      <4>. QED
        BY <3>2, <4>1 DEF Told
    <3>. QED
      BY <1>6, <2>2, <3>1, <3>2, FetchMoves
  <2>3. CASE c # r
    <3>1. pc'[c] = pc[c] /\ events'[c] = events[c] /\ answer'[c] = answer[c]
      BY <1>0, <2>1, <2>3 DEF Moves
    <3>. QED
      BY <2>1, <3>1, StaysTold
  <2>. QED
    BY <2>2, <2>3
<1>7. CASE Switch \/ Replan \/ Tick
  <2>1. UNCHANGED <<token, events, pc, answer>>
    BY <1>7 DEF Switch, Replan, Tick, clients, callVars
  <2>2. since[c] \subseteq since'[c]
    BY <1>7 DEF Switch, Replan, Tick, callVars
  <2>. QED
    BY <2>1, <2>2, StaysTold
<1>. QED
  BY <1>1, <1>2, <1>3, <1>4, <1>5, <1>6, <1>7 DEF ToolCallsNext, ToolSteps, FetchEnds

\* emitObservability of middleware.ts reports every call that got a client by
\* one start and one end event, and the end event tells how the call ended.
THEOREM AlwaysReportedTruthfully == ToolCallsSpec => []ReportedTruthfully
<1>. DEFINE TruthInv == Inv /\ \A c \in Calls : Told(c)
<1>1. ToolCallsInit => TruthInv
  <2>1. ToolCallsInit => \A c \in Calls : Told(c)
    BY DEF ToolCallsInit, Told, Requests
  <2>. QED
    BY <2>1, InvInit
<1>2. TruthInv /\ [ToolCallsNext]_toolVars => TruthInv'
  BY InvNext, ToldNext
<1>3. TruthInv => ReportedTruthfully
  BY ToldImplies
<1>. QED
  BY <1>1, <1>2, <1>3, PTL DEF ToolCallsSpec

\* A list answered without an allowlist or from a recent one.
LEMMA StaysRecent ==
    ASSUME Inv, ListedRecently, NEW r \in Lists, NEW age,
           shown' = [shown EXCEPT ![r] = age],
           age = None \/ age <= Ttl + Timeout
    PROVE  ListedRecently'
BY DEF Inv, Typed, ToolCallsTypeOK, ListedRecently

\* Every step shows a recent allowlist, or none.
LEMMA RecentNext ==
    ASSUME Inv, ListedRecently, [ToolCallsNext]_toolVars
    PROVE  ListedRecently'
<1>0. CASE UNCHANGED shown
  BY <1>0 DEF ListedRecently
<1>1. Ttl \in Nat /\ Timeout \in Nat /\ clock \in Nat
  BY ToolCallsAssumption DEF Inv, Typed
<1>2. ASSUME NEW l \in Lists, StartList(l) PROVE ListedRecently'
  <2>1. CASE shown' = [shown EXCEPT ![l] = None]
    BY <2>1, StaysRecent
  <2>2. ASSUME NEW k \in Requests, cache[k] # None, clock - cache[k].at <= Ttl,
               shown' = [shown EXCEPT ![l] = clock - cache[k].served]
        PROVE  ListedRecently'
    <3>1. cache[k].served \in Nat /\ cache[k].at \in Nat
      BY <2>2, ToolCallsAssumption DEF Inv, Typed, ToolCallsTypeOK, Allowlists
    <3>2. cache[k].at <= cache[k].served + Timeout
      BY <2>2 DEF Inv, Timely
    <3>3. clock - cache[k].served <= Ttl + Timeout
      BY <1>1, <2>2, <3>1, <3>2
    <3>. QED
      BY <2>2, <3>3, StaysRecent
  <2>. QED
    BY <1>0, <1>2, <2>1, <2>2, ListMoves
<1>3. ASSUME NEW r \in Requests, FetchEnds(r) PROVE ListedRecently'
  <2>1. CASE r \in Calls
    BY <1>0, <1>3, <2>1, FetchMoves
  <2>2. CASE r \in Lists /\ shown' = [shown EXCEPT ![r] = None]
    BY <2>2, StaysRecent
  <2>3. CASE /\ r \in Lists /\ fetch[r].served # None
             /\ shown' = [shown EXCEPT ![r] = clock - fetch[r].served]
    <3>1. fetch[r].served \in Nat /\ fetch[r].sent \in Nat
      BY <2>3, ToolCallsAssumption DEF Inv, Typed, Fetches
    <3>2. clock <= fetch[r].sent + Timeout /\ fetch[r].sent <= fetch[r].served
      BY <1>3, <2>3, FetchMoves DEF Inv, Timely
    <3>3. clock - fetch[r].served <= Ttl + Timeout
      BY <1>1, <3>1, <3>2
    <3>. QED
      BY <2>3, <3>3, StaysRecent
  <2>. QED
    BY <1>3, <2>1, <2>2, <2>3, FetchMoves DEF Requests
<1>4. ASSUME NEW c \in Calls, StartCall(c) \/ ToolSteps(c) PROVE UNCHANGED shown
  BY <1>4, StartMoves, ToolMoves
<1>5. ASSUME NEW r \in Requests, Served(r) PROVE UNCHANGED shown
  BY <1>5 DEF Served
<1>6. CASE UNCHANGED toolVars \/ Switch \/ Replan \/ Tick
  BY <1>0, <1>6 DEF toolVars, Switch, Replan, Tick
<1>. QED
  BY <1>0, <1>2, <1>3, <1>4, <1>5, <1>6 DEF ToolCallsNext, ToolSteps, FetchEnds

\* However cached, slow and overtaken by changes the allowlist is, a tools/list
\* of index.ts shows one the upstream gave at most Ttl + Timeout ago.
THEOREM AlwaysListedRecently == ToolCallsSpec => []ListedRecently
<1>1. ToolCallsInit => Inv /\ ListedRecently
  <2>1. ToolCallsInit => ListedRecently
    BY DEF ToolCallsInit, ListedRecently
  <2>. QED
    BY <2>1, InvInit
<1>2. Inv /\ ListedRecently /\ [ToolCallsNext]_toolVars => (Inv /\ ListedRecently)'
  BY InvNext, RecentNext
<1>. QED
  BY <1>1, <1>2, PTL DEF ToolCallsSpec
=============================================================================
