# TLA+ models of `alphazede/developers`

The repository holds two products that share nothing but a release process:

* **bran** (`src/bran`, Rust): reads a repository tree, builds a bounded, citable
  knowledge graph of it, compiles it into packets, views and exports, and can
  delegate a bounded question to an agent. It also repairs managed Markdown files.
* **az-sports-dev** (`src/az-sports-dev`, TypeScript): an MCP server that turns
  tool calls into authenticated calls of one upstream API, with a CLI that logs
  in and out, and a thin API client.

This directory models the parts of both that keep state, interleave or fail.
Section 1 is the inventory, section 2 the plan, section 3 says how each module
corresponds to the code, section 4 what the runs check, section 5 what is proved,
section 6 what is left out.

Run everything from this directory:

    tlc -workers 2 -config Repair.cfg MCRepair
    tlapm RetrievalProofs.tla

---

## 1. Inventory

### 1.1 bran

| Component | State it keeps | Operations | Made correct by |
|---|---|---|---|
| Result store (`agent/result_store.rs`) | entries by content address, age index, byte total, insertion counter | `put`, `put_batch`, `get`, `remove`, `clear` | indexes agree; capacities hold; oldest is evicted first; a batch is all or nothing; what was acknowledged can be fetched |
| Agent runtime (`agent/coordinator.rs`) | registries and the host's switch; the local variables of one `invoke` | `invoke` | no port is reached before every gate; only text with a passing SQZ receipt leaves; a receipt is returned, and a complete one is backed by the store |
| SQZ adapter (`adapters/sqz.rs`) | none | `process`, receipt checks | a receipt is bound to the digests and ranges of its input |
| Delegate, synthetic port | none | validation of an envelope; a test double the CLI runs | a denied request executes nothing |
| Repair (`repair/mod.rs`) | none of its own: the target file, its backup, its staged file | `propose`, `apply` | the base is never lost; only a reviewed file is displaced; the result says what happened |
| Scan (`scan`) | a snapshot its caller keeps: entries, observed bytes, inputs, totals, diagnostics | `scan`, `scan_changed`, `graph_input`, `affected_graph_nodes` | what an incremental scan carries on still holds; totals are exact; what changed is reported, with its neighbours |
| Source metadata (`metadata`) | none | `parse` | precedence of declared facts over defaults; limits reported |
| Graph, query (`graph`) | a canonical graph; the queue of one walk | `find`, `consumers`, `impact`, `trail`, `reachability`, `zombies` | a bounded answer says whether it is complete; what is called unreachable is |
| Packet (`packet`) | the loop that selects | `assemble` | limits hold; required evidence is in; what is omitted did not fit; "not truncated" means complete |
| View (`view`) | none | `validate`, `compile` | order, limits, truncation |
| Export (`export`) | none | assign paths | collision-free paths |
| Bundle, profile, schema | none | derive, validate | verdicts of the two profiles |
| CLI (`bran-cli`) | none; one process per command on one repository | `-p`, `query`, `packet`, `check`, `maintain`, `agents`, `doctor`, `tui`, `smoke` | one execution per valid prompt; only what was reviewed is applied; success means the profile passes |
| Terminal app (`bran-tui`) | onboarding step, draft, cached resolution, suggestions; the settings file | key and line events, apply, load | what is shown is what the draft resolves to; what was reported as saved is found again; an apply ends |
| Release tools (`tools/ci`) | none between runs | batch checks | - |

Interaction: the runtime owns a result store and calls five ports in order
(authentication, SQZ on the prompt, provider, SQZ on the answer, store). The CLI
calls `propose` again and then `apply`, so that the snapshot it applies is fresh,
and validates the tree with a scan of its own. `query` and `packet` scan, build the
graph, compile a view of it and assemble a packet. The terminal app runs inside the
CLI's event loop, which saves the settings before it takes the next event.

Hard in bran: `invoke` calls parties that may answer anything; `put_batch` has to
undo a half-done batch; `apply` makes eight file-system calls, each of which may
fail or be the last one the process makes, on a file other programs write; a scan
reads a tree that is edited while it runs, and the next one trusts what it kept; the
bounds of five breadth-first loops each have to be reported exactly when they bite.

### 1.2 az-sports-dev

| Component | State it keeps | Operations | Made correct by |
|---|---|---|---|
| Token store (`token-store.ts`) | two files: token and client id | `writeToken`, `deleteToken`, `readToken` | readers see whole values; success is durable; a deleted token is erased |
| Login (`cli/login.ts`) | loopback listener, one promise, `consumed` | `runLogin`, callback handler | one callback succeeds; exit status is honest; the wait ends |
| HTTP transport (`transport/http.ts`, `request-validation.ts`, `serve` in `index.ts`) | in-flight promises, active SDK transports, the limiter's hits | request handler, response events, shutdown | no slot, transport or event leaks; the limiter is exact; shutdown drains, and ends unless a client dawdles for ever |
| Tool pipeline (`tools/middleware.ts`, `allowlist.ts`, `client.ts`) | identity and allowlist caches | one tool call | order of the layers; a cache is not used stale; every call is reported once |
| Observability (`observability.ts`) | a buffer per emitter | `emit`, `flush` | nothing is sent twice or silently dropped |
| Tools, formatting | none | one upstream call each | - |
| Other commands | none | read-only | - |
| API client, OpenAPI description | none | `fetch` wrapper; generated data | - |

Interaction: `login` and `logout` are separate processes over the same files and
take no lock. An HTTP request passes the transport's phases, then the MCP SDK
runs the tool, whose middleware emits two events into the request's emitter; the
response's `finish` and `close` flush it. A signal closes the listener and awaits
the promises of the open handlers.

Hard in az-sports-dev: system calls of unlocked processes overlap; power may be
lost between a rename and a flush; a callback may arrive while the browser
command is still awaited; a client may leave at any await of its handler; two
signals may arrive.

`PROJECT.json` lists each hazard at its line, with the properties aimed at it.

---

## 2. Plan

Written, in this order: `ResultStoreOps`, `ContentStore`, `ResultStore` (the state
everything of the agent side ends in), `AgentRuntime` (which composes with it),
`Repair`, `TokenStore`, `Login`, `HttpServer`, `ToolCalls`; then `Settings` and
`Terminal`; `Traversal`, `View`, `Packet` and `Retrieval`, which composes them;
`Ignore`, `SourceMetadata`, `Scan` and `ScanGraph`; `Check` and `Commands`. Proofs
are about the result store and the agent runtime, repair and scan, tool calls, retrieval,
login and the token store, the terminal app, the HTTP transport and the command line.

Next, most important first:

1. The half of liveness that is a theorem about steps: for each of `WaitEnds`, `RequestEnds`,
   `ApplyEnds` and `ShutdownEnds`, a measure that no step raises and the fair ones lower.
2. **SQZ adapter** as a module between `AgentRuntime` and the outer port.
3. **Export** paths, and the construction of the graph, which is an assumption now.
4. The buffers of the file and upstream emitters, composed with `ToolCalls`.
5. Release tools, if at all.

---

## 3. Modules and code

### `ResultStoreOps`, `ResultStore`, `ContentStore`

`ResultStoreOps` holds `MemoryResultStore` as a record (`entries`, `age_order`,
`total_bytes`, `next_order`) and its single-call operations as operators on it;
`ResultStore` gives them state. `age_order` is the set of the `BTreeMap`'s
(tick, order, id) keys under its order (`Older`). The two eviction loops are
described by what they remove: `ExpiredPrefix`, and `CapacityVictims`, the
smallest initial segment of the index whose removal makes room (`VictimsExist`
proves that there is one). `put_batch` is not one step: it clones the store
(`trial`), puts one payload per step (`batch`) and swaps the clone in at the end,
so the properties see the states in between and the refinement has something to
prove. `Digest` need not be injective, so the collision branch is reachable.
`MaxOrder` is the largest insertion number (the code's `u64::MAX`), so the
overflow exit is reached.

`ContentStore` is what callers rely on: a set of payloads by address; a write
makes all of its payloads fetchable or changes nothing; anything may be dropped
at any time (expiry, eviction). It knows nothing of ticks, indexes or batches.

### `AgentRuntime`

`AgentRuntime::invoke` composed with `ResultStore`. `Steps` is its order: nine gates,
then five ports. A gate is a step (`Gate`) that refuses or goes on, and so is each port
call, whose answer is any value of its Rust type: `ResolveAuth`, `SqzInput`,
`InvokeProvider`, `SqzOutput`, then the store's own steps and `Finish`. `inv`
holds the local variables, `receipt` the returned value; `called` and `latencies`,
`inv.before` and `inv.req` are history, kept for the properties. A digest inside a
receipt is modelled by the text it is the digest of. Only the answer passes the
output screening: the provider's citations are encoded with the accepted text, and its
artifacts go to the store beside it (`coordinator.rs:502-526`). Every SQZ receipt has a
latency, and one of over 2^64 nanoseconds makes the constructor of the receipt refuse
(`LatencyFits`), on every exit that carries it. Between invocations the host puts,
batches, gets, removes and clears (`HostStep`).
`max_output_bytes` is the SQZ port's to enforce and therefore any text may come
back. Two exits of the code cannot be reached through its constructors and are
absent: a stored id other than the computed one, and more than 64 artifacts.

### `Repair`

`propose` and `apply` as a process per attempt, one file-system call per step:
look for a link, read, validate, stage, check the staged name, the two renames, validate
the installed file, then delete the backup or roll back. Every call may fail
(`MaxFaults` in all, process deaths included) and takes the exit the code takes
for it; the check for a link takes a failed call for a no. `Edit` is any other program
writing, removing or linking the target, between any two of these steps: the code takes
no lock. `unseen` is history: what came under the target name, from an `Edit` or another
attempt, since an apply looked for a link and before it returned. `Quiet` says that
nothing did. The validator answers arbitrarily. A read through a link that appeared
after the check finds any file or none. Staged and backup names carry the process id and a
counter and are therefore one per attempt. `Identity` is not injective. Loss of power is not
modelled (`apply` flushes nothing). The CLI's relabelling of `DigestMismatch` to
`stale_source` when only the source differs is outside the core and left out.

### `TokenStore`

One step per system call of `SecureFile.write` (create and write, `fsync`,
`rename`, directory `fsync`, verify) and `SecureFile.delete` (open, overwrite,
`fsync`, `unlink`), for the token and then for the client id. `data` and `link`
are what processes see, `disk` and `diskLink` what a power loss leaves for
certain; the kernel may have written back any part, so `PowerLoss` keeps either.
`at` is where a process is, `Begin` its first step, `Nobody` the author of a file that
is not there.
A call that throws and a process that is killed leave the same state (the
program has no clean-up at these points that others can see), so both are
`Fail`. `solo` and `stands` are history: which command ran alone and was the
last to succeed. Checks of owner, mode and links only refuse and are left out;
so is the litter a staged file leaves.

### `Login`

JavaScript runs an event's handler and all continuations it wakes before the
next event, so an action is one event: the browser command returns or fails, a
callback arrives, the timer fires, the token response is in, the tier is shown.
The promise the handler settles is `code`. Until `withTimeout` is reached nobody
handles its rejection, so a refused callback while the browser command is still
running is an unhandled rejection, which ends the process (`exit = "crash"`). So does
a request target that `new URL` cannot parse (`Malformed`), wherever `runLogin` waits: it
throws in the handler, and nobody catches it.

### `HttpServer`

`serve --http` with events sent upstream. Per request: its connection (`conn`),
what its handler's promise awaits (`work`), the tool call the SDK runs (`tool`),
whether the response is written (`answered`) and where its two events are
(`event`). `inFlight`, `active` and `hits` are `#inFlight`,
`#activeSdkTransports` and `#requestsByKey`, the last as a set of (request, time)
pairs: the code appends and drops from the front, and since its clock does not go back
the array is in that order anyway. Everything up to the next await is
one step: `Arrive` (cap, phases, limiter, declared length), `BodyRead`,
`ToolEnds`, `HandlerReturns`; `Finish` and `Disconnect` are the response's
events. The rules for path, method, binding and headers are one nondeterministic
refusal before the limiter, those for authorization and length one after it.
The MCP SDK is external: its promise may settle before or after the response is
written. `Open` is a connection on which nothing has come yet; it may stay so. Connections kept alive take requests even after `close()`. A flush
starts a POST that nobody awaits, hence `"posted"` and not "delivered". `Signal`
starts a shutdown; `close()` of a listener that is already closing reports an
error to its callback when `close` is emitted, and that shutdown's `catch` calls
`process.exit(1)`. `checks` is history: what the limiter told each request.

### `ToolCalls`

What the MCP server does with one request, from the middleware to the answer: the
identity is resolved (`Identities`), a client is made, the allowlist is looked up
or fetched (`GetAllowlist`, `AllowlistArrives`, `AllowlistFails`), the tool sends
its upstream requests (`ToolReplies`, `ToolUnanswered`, `ToolThrows`) and `End`
emits the closing event and maps an error to a result. `StartList` is
`tools/list`, which over stdio keeps its client in `session`. A client is named
after the request that made it. The upstream's evaluation of an allowlist request
(`Served`) is a step of its own, so a plan may change (`Replan`) before and after
it; `Switch` is a login or logout. `since` is history: what a call's account could
use at some time since the call began. The events of the handler's parallel
requests are taken in any order, and a handler may ignore a failed one.
Middleware that neither decides nor waits (trace ids, hashes, headers) is left out.

### `Settings`, `Terminal`

`Settings` is `settings.rs` without files: the steps, the features a user may
switch, what a request resolves to on a machine (`Resolve`), and the encoding and
decoding of the settings file. `Terminal` is one session after another: `Enter`
takes the marked suggestion or a typed line into the current step, `Tab`,
`UpOrDown`, `Escape` and `Back` do what the keys do, and from `Apply` the save runs
by file-system call: `Mkdir`, `OpenTemp` (which tries the next suffix while the name
is taken), `WriteTemp`, `SyncTemp`, `Rename`, `Unlink`. The app is idle meanwhile,
because the host saves before it takes the next event. `Kill` ends a session
anywhere, `PowerLoss` also brings back an older file or leaves an unsynced one torn,
`ForeignWrite` is another program. Sessions share a process id, as in a container,
so a killed one leaves temporary names in the way of the next (`Init` may begin so).
`acked` is history: what the last session reported as applied. The guardrail enums,
provenance of facts, status texts, voice, `DiagnosticStore`, resizing and rendering
are left out.

### `Traversal`, `View`, `Packet`, `Retrieval`

`impact`, the two walks of `reachability`, `trail` and the dependency closure of a
packet are the same breadth-first loop with other seeds, directions, edge kinds,
bounds and goals; in `Traversal` these are fields of `walk`, and a step is one
iteration of the outer loop (`Pop`) or of the inner one (`Relax`). `View` is
`ViewCompiler` as functions: filters by recursion over the constant `Filters`, a
stable sort, two limits. An order is applied by `Arranged`: the i-th element is the one
with i - 1 elements before it. (The community modules sort through `SortSeq`, of which
the prover has no definition.) `Packet` is `PacketAssembler::assemble`: the closure, the
checks on the caller's evidence, then one candidate a step. `Retrieval` composes
them: a behaviour is one question to one graph, from `find` to the packet round trip
of `bran doctor`. Graphs are constants that satisfy what `KnowledgeGraph::build`
checks (`GraphAssumption`); identities are numbers in the order of the strings, texts
are numbers with a relation `Holds` for "contains". The view's limit of items bounds what
the view selects; each dependency the closure admits makes room for one more
(`packet/mod.rs:516-525`), and the closure itself is refused depths and nodes over the
hard limits. The validation of a view covers the keys of its source, sort, grouping, fields
and filter.

### `Ignore`, `SourceMetadata`, `Scan`, `ScanGraph`

`Ignore` is the matcher of `.okfignore`, over paths that are sequences of parts and
slashes. `SourceMetadata` is the parser's decisions once the text is lexed: which
facts are declared, which defaults apply, which limit cuts. `Scan` is a repository
others edit, the scanner, and the caller that keeps the last snapshot and reports
the paths it saw change. A scan reads the rules (`CompareInputs` decides whether the
old snapshot can be kept), then walks (`Collect`, `WalkDirectory`, `WalkEntry`) or
takes the reported paths one by one (`ApplyPath`), with the tree edited between any
two steps. Either way a file takes three: its name is looked up and resolved, the file it
leads to is read (`ReadFile`), and the name is looked up once more (`KeepFile`). Links
are followed as the system does (`Leads`, `NodeAt`): `symlink_metadata` does not follow the
last component, but it does follow every directory before it, and a link may leave the root
(`Outside`), which is `RootEscape`. The caller sees changes through links too (`Seen`).
Of the rules and the configuration a snapshot keeps digests (`Digest`, one for each field of
`ScanInputFingerprint`, not injective); `exact` and `made` are history: the inputs they
are digests of. What is still to come is a set, `todo` or `left`, taken in the order of the
code: depth first and by name (`ComesFirst`), or by path. A sum of sizes is the number
of the bytes (`Total`), which needs no recursion. A scan ends in `Finish`,
`SnapshotTooLarge` or a refusal. `ScanGraph` adds the graph input of a snapshot, with the
limits of a node's fields and the note of what was omitted, which may itself be refused
(`NoteRefused`), and the nodes a change affects. A directory has size 0; Git state, drive
paths and backslashes in rules, and collisions of `stable_node_id` are left out.

### `Check`, `Commands`

`Check` is the bundle derived from the documents and the verdicts of `okf-v0.1` and
`bran-strict`. `Commands` runs one process after another on a repository others edit
in between: `dispatch`, the flags that are refused outright, the option loop of `-p`
one option a step, and each other command with every exit. `digests` are those
`maintain propose` printed; a line names one as `latest`, so that it may be of
another draft or stale. What `RepairCoordinator` does by file-system call is
`Repair`'s; here an apply is one step, and `interrupted` stands for its I/O failures,
which may leave the old document, the new one or neither under the name. A query or
packet is found or not (`Retrieval` has the answers). Whether a scan can be made and a
target be reached, for reasons the documents do not show, is a choice (`scans`, `reaches`), as is
how a terminal session ends; a document over the limit of a scan makes it fail
(`Scannable`), and a prompt over the limit of a request makes that one (`Oversized`).
More than 32 tools are left out.

---

## 4. Runs

Every property of a passing run has a mutant of the code (beside the definition it
changes, with a comment saying what is wrong with it) that violates it under the same configuration.

| Run | Shows | Bounds, and why they are enough |
|---|---|---|
| `result_store` | indexes agree, capacities hold, acknowledged payloads can be fetched, eviction is oldest-first, the store implements `ContentStore` | two entries, four bytes, items of three, ticks 0..2, age 2, insertion numbers to 3. Payloads: three that fit in pairs, so that the third evicts by the entry limit; one that evicts by the byte limit; one refused as empty, one as too large, one colliding. Three puts reach every pair of (entries, bytes) limits and the exhausted counter |
| `agent_runtime` | no port is called before the last gate, the provider, the caller and the store get only texts whose own receipt passed, complete receipts are backed, incomplete ones change nothing, and only a latency keeps a receipt from being built | a request admissible by each of two profiles and one request per reason for refusal; an acceptable SQZ receipt per text, one per reason to reject and one whose latency is out of range; answers with and without citations, one that fits beside the artifact and one over the item limit; a host that stores the same payloads by every operation |
| `repair` | the base stays recoverable, what is displaced was reviewed or came after the look for a link, results are exact, nothing is left over | two attempts, two edits between any two of their steps, two failures or deaths: each attempt can be overtaken by the other and by an edit, and its roll-back can fail as well |
| `token_store` | names lead to whole values, a login or logout that succeeded alone stays in effect, also through a power loss | two logins and two logouts in every overlap, one failing call or kill, one power loss. A further process would only repeat one of these between the same calls |
| `login` | one success page whose token is the stored one, honest exit, the wait ends | three good, two refused, one stray callback and a malformed one |
| `http_server` | slots, transports and events do not leak, the limiter is exact, the shutdown waits for the handlers, and only a client that dawdles for ever keeps it from ending | three requests from one address against a cap of two and a limit of two per window of two ticks, clock to 2: the third request meets a full cap, a full window, and a window its predecessors have just left |
| `tool_calls` | no list from before a call decides it, its two events tell the truth, shown lists are recent, every request is answered | one call beside a client that lists again and again; two users and a token of some other program; the environments in which identity resolution takes each of its exits; one change of the stored token, one of a plan, clock to 2 with a cache of 0 and a timeout of 1, so an entry can be younger, as old as and older than allowed |
| `terminal` | the resolution on the screen is that of the draft whichever way the user came, a reported save survives kills and is never half a file, an apply ends | every typed line of an alphabet that reaches each branch of each step, one apply, one fault (kill, power loss or foreign write), two temporary names of which one or both may be taken at the start: so both the next name and the exhausted names occur |
| `retrieval` | walks are sound and say exactly when they left something out, zombies and trails are right, packets keep their limits, justify omissions, and are complete when they say so | 145 graphs of four nodes: every subset of six edges that makes a chain, a shortcut, a cycle, a conflict and a missing target, under three casts of roles. Depths 1 and 4, lengths 1 to 4, so that each bound alone and none at all is hit; four limit triples for packets |
| `scan` | what a snapshot carries on is what a full scan would find below no link, totals are exact, every change is reported and the neighbours of changes are covered | a document, a directory with a source file, a link to the directory, two edits, two scans, two configurations that differ only in their defaults and two sets of rules, each pair with one digest; limits of three files and four bytes, `MaxLinks` 2. Two texts share identity and length, one is not UTF-8, one is too large, one cannot be read; a file, a directory and a link take each other's place between the steps of a scan, and one link leaves the root. Two edits suffice for each window: one before and one after a step. |
| `commands` | a prompt runs once exactly when its line is of the grammar, only reviewed drafts are applied, an apply that succeeds passes | every `-p` line of up to three of four words, longer ones by option and value, each branch of the other commands; two targets, two drafts, two edits |

One run shows a statement of the repository's tests fail, and supports a finding:
`scan_anchored`, whose `.okfignore` has the rule `/d` for a directory. A full scan
matches the directory on its way and has nothing below it; an incremental scan asks
about `d/b` alone, which the rule does not match, and adds it. The main run keeps to
rules on which the two agree, and so `CarriedIsCurrent` can be claimed there.

### Statements the code does not meet, kept without a run of their own

Each of these is a definition in a module with the text it quotes; checked under the
configuration named here, TLC finds it violated.

| Definition | Configuration | What happens |
|---|---|---|
| `Repair!AtomicStagedWrite` | `Repair.cfg` | the target is renamed away before the staged file takes its name; in between, and after a death there, the name holds nothing |
| `TokenStore!UnlinkErases` | `TokenStore.cfg` | `delete` overwrites the file it opened and unlinks by name; a login that renames in between loses a token that was not overwritten |
| `HttpServer!CleanShutdown` | `HttpServer.cfg` with two `Signals` | a second signal makes the process exit with failure while the first shutdown has its drain before it |
| `HttpServer!PerToken` | `HttpServer.cfg` | the limiter's key is the remote address |
| `Retrieval!PacketAnswersQuery` | `Retrieval.cfg` | `do_packet` supplies evidence for all nodes, so a query that selects fewer is refused as `UnrelatedEvidence` |
| `Commands!OkfFloor` | `Commands.cfg` with `Edits <- FloorEdits` | the frontmatter lexer calls a block list malformed, so a concept that has a type fails the floor |
| `Scan!IncrementalIsFull` | `Scan.cfg` | a caller that reports `l/b.rs`, below a link to the directory `d`, gets an entry for it; a full scan follows no link and has none. The tests assert that both have the same entries (`scan/mod.rs:934`) |

Others are exceptions that a property states in the open, because without them it fails:

* `Repair!DisplacesOnlyReviewed` excepts what came under the name after an apply had
  begun to look (`unseen`). The comparison "catches same-length edits (and any content
  change)" (`repair/mod.rs`) only of what was there when it read: an edit after it is moved
  to the backup unnoticed, and a passing validation deletes it. `BaseRecoverable` and
  `ResultsExact` except the same.
* `AgentRuntime!ReceiptUnlessLatency`: the error of a receipt invariant "should be
  unreachable" (`coordinator.rs:197-199`), and is reached when an SQZ port reports a latency
  of over 2^64 nanoseconds (`receipt.rs:262-269`). If the output's does, the store has been
  written and no receipt names what it holds.
* `Packet!PacketWithinLimits`: "effective item and byte ceilings cannot relax the persisted
  view limits" (`packet/mod.rs:260`), yet each admitted dependency adds one to the view's
  items (516-525), and a test wants it so (1081-1105). The view's bytes are kept.
* `Scan!Collision`: an equal identity "always requires a byte-for-byte reparse before it
  can be treated as the same content" (`digest.rs:5-7`), which holds for the sources of
  entries (`ReportExact` needs no exception there), but the inputs of a scan are compared by
  their identities alone (`scan/mod.rs:208`).

Smaller ones that no definition states: a `tags` list of one element becomes a string
and fails strict validation as no sequence; whether a file that shrinks below the
total limit passes depends on the order of the paths in the evidence, since the limit
is compared before all removals are applied; a full scan may exceed
`max_total_bytes` by files that could not be read, and the incremental one after it
then fails; `bran query` does not say that its view was cut; a file with so many
semantic bytes that the note of its omitted facts does not fit makes `graph_input` fail for
the whole repository (`graph_input.rs:124-128`).

### Fairness

`ResultStore`, `AgentRuntime`, `Repair`, `TokenStore`, `Retrieval`, `Scan` and
`Commands` claim safety only and assume none: a process may stop anywhere.

`Terminal` assumes that a save under way goes on (`WF(Saving)`): it is a sequence of
system calls without a wait. Nothing is assumed of the user.

`Login` assumes that the timer fires (`WF(Timeout)`), the only wait the program
itself ends. Nothing bounds the browser command or the token request, so nothing
is claimed about their end.

`HttpServer` assumes: an upstream call ends (it is aborted after ten seconds), the
promise of the SDK settles, and the event loop runs what is ready. Nothing is
assumed of clients, and no timer is: `shutdown()` has no deadline (`http.ts:128`), and
the server sets no timeout for a connection, a body or a response. So
`ShutdownEnds` carries its condition in the open: the process ends unless some client
keeps its turn for ever (`Dawdles`: headers or body not sent, answer not taken).

`ToolCalls` assumes that abort timers fire (`WF` of `AllowlistFails` and of
`ToolUnanswered`): `fetchAllowlist` and `AzsClient.request` each arm one before
they wait. Nothing is assumed of the upstream.

Deadlock is checked in the runs over systems that never stop. `CHECK_DEADLOCK
FALSE` is set where commands end: token store, login, the server after its exit,
repair when its bounded attempts are over, a question that was answered, a terminal
that is closed, and a scanner whose bounded scans and edits are over.

---

## 5. Proofs

`AgentRuntimeProofs` (which has the result store's too), `RepositoryProofs` (repair and scan),
`ToolCallsProofs`, `RetrievalProofs`, `CredentialProofs` (login and token store),
`TerminalProofs`, `HttpProofs` and `CommandsProofs` prove, for every
value of the constants that satisfies the named assumptions, what the runs check on
small instances.

**Result store** (`LimitsAssumption`: limits are positive and a payload that fits
an item fits the store; `CallerAssumption`: payload sequences are over
`Contents`). The invariant is that both the store and the clone `put_batch` works
on are well formed: finite entries filed under their digests, one age key per
entry with unique insertion numbers below the counter, a byte total equal to the
sum of the sizes, and both limits. It is needed because `total_bytes` is
adjusted incrementally: that a removal subtracts exactly what the insertion
added follows only from the indexes agreeing. `VictimsExist` is the lemma the
code's comment takes for granted: a non-empty index whose total exceeds what the
new payload leaves room for always has a victim to give, so the loop makes room
and its `ArithmeticOverflow` exit is dead. From it: `TypeCorrect`,
`BookkeepingAlwaysExact` (from `IndexAlwaysExact` and `CapacityHolds`) and
`AckedAlwaysRetrievable`. `StoreImplementsContentStore` maps the store to the set of
payloads it holds and its reply to an answer of `ContentStore`, step by step. It needs
`CloneInv` besides: until a batch ends, its clone has nothing that is neither in the
store nor under an address the batch has returned, so what a commit adds is exactly
what it acknowledges. No assumption about collisions is needed, since a payload whose
address another one holds is refused. `EvictionAlwaysOldestFirst`, an action property,
needs `OldestInv` for batches: the clone has lost an initial segment of the store's
index (`LeavesYounger`). That this survives a further eviction is `LeavesYoungerAgain`:
what came in between has larger insertion numbers than all there was. Expiry is the
harder half, because ticks need not grow (`ExpiryLeavesYounger`).

**Agent runtime** (`RuntimeAssumption`: texts that are too large are texts, what is
encoded and what is an artifact is a payload, latencies and depths are numbers, and `None` is
neither a text nor the name of a profile or provider). `RuntimeInv` joins the store's
invariants with `CallInv`, which says what an invocation has in hand at each step: the gates
behind it did not refuse it and no port was called before the last of them, which texts were
screened, which latencies were heard of, and that up to the commit the store is the one the
invocation found, while the batch that runs, and later the reply, is this invocation's. The
store's steps are those of `ResultStore`, or begin a batch of any payloads
(`RuntimeUsesStore`), so its lemmas are used as they are. From it: `PortsAlwaysAdmitted`
(a refusal comes before any port because of the order of `Steps`, not because all gates
were one step) and `TextAlwaysScreened`, for every digest. `StoreAlwaysMatchesReceipt`
assumes `NoCollision`, that the digest tells payloads apart: its part about the store says
that the bytes under the answer's address are the answer's. Its last part shows that the
checks of `DelegationReceipt::new` can fail for a latency only, since each of the others
was made before the store was written.

**Repair** (`RepairAssumption`, which says nothing of when others may write).
`RepairTypeCorrect` and `NothingLeftOver` hold whatever others do. `RepairInv` has four parts.
`Secure(n)` is what an attempt can rely on in any case, among it where its staged file and its
backup are at each program counter, and that what it moved aside is what it had compared or
is in `unseen`. `Calm(n)` is what it can rely on while nothing is in its `unseen`: what the
target holds relative to what it read. `Whole`, what nobody loses while that is so of all
attempts, needs `Exclusive`: as long as it is `Quiet`, at most one attempt has written the target
and not returned, since its write is news to every other. `Calm` is what makes the
properties inductive: that a roll-back restores the base needs the knowledge that the backup
still is the base. From it: `BaseAlwaysRecoverable`, `OnlyReviewedDisplaced` and the action
property `ResultsAlwaysExact`.

**Scan** (`ScanAssumption`: the paths are below a root and closed under the directories
above them, `.okfignore` and what is outside are not among them, sizes and limits are natural
numbers), for any tree, links, rules, configurations and digests, and any number of edits
and scans. `ScanInv` says of every snapshot, known or half built, that it is `Sound`: its
counters are those of the bytes it observed, each entry is one of them with the size of its
source, and is the `Entry` of that path and source under one of the configurations in `made`;
that it is `Made`: all of these inputs have the digests it keeps; and, of a walk, that it is
`Apart`: it never comes to a path twice, although what it listed may be something else when it
gets there, so a full scan replaces nothing but a file's size by what was read of it, and
`Metered` holds, that the bytes the limit has counted are at least those of the entries.
`TotalSplit` carries `Total` over one file. From it: `CountsAlwaysExact`, and
`ReportAlwaysExact`, where a file that is reported reused has its old metadata because an
entry is determined by what is digested, and without a collision that has not changed.
`CarriedAlwaysCurrent` needs `CurrentInv` besides: a path below no link that the caller has
seen no change of since the scan began is `Settled`, in the half-built snapshot exactly as a
full scan would find it, or is still to come, itself or a directory above it, or is the
file in hand (`StandsAt`: what was resolved and read of it is what is there). It assumes
`AgreeingRules`, that rules ignore what is below the directories they ignore; without
it the theorem is false, which is the finding of `scan_anchored`. `DirectoryRulesAgree`
gives a condition on the text of the rules that is enough: each ends in a slash, or is a
name without one. `IncrementalFullWhenAgreeing` is the other side of
the finding: under `AgreeingRules`, in a tree without a linked path, the property it refutes holds.
`NeighborsAlwaysCovered` follows from the report:
it covers every file in which the snapshots differ (`ReportCovers`), and a graph can differ
only at such files and their neighbours (`GraphsCovered`). The case a reader may miss is an edge
of an unchanged file whose target comes or goes (`EdgeKept`): the file is then a neighbour of
the target in the graph that has it, which is why both graphs are asked.

**Tool calls** (`ToolCallsAssumption`: calls and lists are different requests,
`None` is neither a request nor a token, and the timeout is positive;
`RepliesAssumption`: 0 is no status, and `None` is neither a code nor an error).
The invariant `Inv` has three parts. `Typed` also says that a request which waits
for an allowlist has a client with a token. `Timely` relates each fetch and each
cached list to the clock: no wait outlasts its timer, so a list was cached at most
`Timeout` after the upstream evaluated it. `Reported(c)` and `Fresh(c)` say for
each call what its events are at each program counter, that its own client has no
cached list, and that what its fetch brings back was on offer after the call
began. `Fresh` is what makes `FreshlyAllowed` inductive: the guard that lets a
tool run looks at a list, and only the history of that list says when it was true.
From it: `ToolCallsTypeCorrect`, `AlwaysFreshlyAllowed`; with `Told(c)`, what a
finished call left behind, `AlwaysReportedTruthfully`; and with the property
itself, `AlwaysListedRecently`.

**Retrieval** (`GraphAssumption`: what the constructor of a graph checks;
`QuestionsAssumption`: bounds and lengths are unsigned numbers). `WalkInv` is about
any walk, whoever began it. The queue is in the order of depth, its elements at most
one deeper than the node in hand; an edge that leaves what was seen is in hand or
starts at a queued node, until something is left out; and from then on a bound is hit
and stays hit. The order of the queue is what makes this inductive: that a walk which
met its depth bound discovers nothing afterwards holds because nothing shallower is
still queued, and so the edge that was cut off still leads out at the end. For
`uncertain_path_to` the ranks of its seeds need the least element of a set of
numbers (`TaintedRanks`). `PackInv` says of the selection that what was omitted never
fits again: items and bytes only grow, and so does the token estimate
(`EstimateGrows`); and (`Admitting`) that the closure has admitted at most the nodes it may,
which is all that the view's items can grow by. From them: `WalksAlwaysSound`, `TruncationAlwaysExact`,
`PacketsWithinLimits` and `OmissionsJustified`.

`AnswersAlwaysExact` is about what the walks are for. `SearchInv` says of the forward
walks that their depths are those of the trace (`Traced`), that an edge out of what was
seen never gains more than one step (`Relaxed`, the usual argument for breadth-first
search, so depths are distances), that the node looked for is not passed over (`Looking`)
and that bounds as large as the number of nodes never cut (`Counted`). `Searching` relates
the walk to its question, among it that the second walk of `zombies` is begun only when
the first has left a set closed under Known edges (`NotKnown`), and `Listing` what is
already listed. Shortest trails compare the trace with the balls `Within`, by
induction on their radius; the prover cannot instantiate an induction theorem for a
predicate, so `InductionSet` states it for a set of numbers. That a recursive
function such as `Within` or the byte count of `Kept` obeys its equation needs that it
exists, which is proved with the same lemma.

`PacketsAlwaysComplete` needs that nothing is lost on the way: `ArrangedAll` (a strict
order arranges a finite set without loss), `KeptPrefix` (what the limits of a view leave
is a prefix, all of it unless it says truncated), and `Assembling`, which says of a packet
in the making that its seeds are the compiled view's and its nodes those of the closure.

**Login** (`LoginAssumption`: the three kinds of callback are disjoint, and `None` and
the words for outcomes are no callbacks). `LoginInv` says that `consumed` is set exactly
while the promise holds the code of the one callback that was shown the success page
(`ConsumedMeansCode`), where `runLogin` can be by promise and listener
(`PlaceByPromise`), that the store holds nothing but that code's token, and that a
refusal has ended the login. The property alone is not inductive: that a second good
callback is turned away needs the flag, and that a refused one cannot follow a stored
token needs the place. From it: `LoginAlwaysHonest`, for any number of callbacks.

**Token store** (`TokenAssumption`: logins and logouts are different processes, `Nobody`
is neither, bounds are numbers). A power loss shows what is on disk, so `TokenInv` says
the same of both copies: an inode that a name leads to, seen or on disk, or that a logout
has open, is no longer written to by its login, and is whole, or random where it was
opened (`ReachableReadable`); a staged file is whole before its name changes; and what
holds once a command has succeeded (`Standing`) is carried back through the calls of the
command that ran with no other beside it (`LoginAlone`, `LogoutAlone`). From it:
`CredentialsAlwaysHold` and `LogoutAlwaysErases`, for any number of processes, failures
and power losses.

**Terminal** (`TerminalAssumption`, `DefaultTokensAssumption`: bounds are numbers, the
ceiling and the number of temporary names are positive). `Current` is inductive because
only steps before the capability check change the draft, and every way to the review
passes that check; `StepNumbers` evaluates the order of the steps. `InHand` says what a
save has in hand at each call, `OnDisk` what readers find now and after a power loss.
That the draft in hand is the one in the temporary file holds because no event is
taken while a save goes on, and that what is read back is what was written because no
accepted line leaves a ceiling of 0 (`CeilingStaysPositive`). From them:
`AlwaysShownIsCurrent` and `AppliedAlwaysSurvives`.

**HTTP transport** (`HttpAssumption`; `Requests` may be infinite). `HttpInv`
strengthens `RequestsAccounted` by what a request that is not handled yet cannot have
(`NotYet`: no answer, tool call or event), by where an unsent event of an answered one
is (`Unsent`: its transport is still active), and by what a closed listener says of the
connections (`NoneLeft`), without which the drain could drop a transport in use. From
it: `RequestsAlwaysAccounted` and `AnsweredAlwaysReported`. `WindowAlwaysExact` has an
invariant of its own, because the property speaks of every window that ever was and the
limiter looks only at the current one: what it remembers of an address is exactly who
passed in the current window (`Remembered`), and past windows do not change, since a
request is checked once and time grows.

**Command line** (`CommandsAssumption`: a complete line of `maintain` names a target and
a draft, which is a document's bytes). `Dispatched` says that a process is at `maintain`
only with a line that passed the argument checks; `ApplyNamed` derives from them that an
apply has its target and draft, without which a forged digest argument could equal the
digest of nothing. `StrictContainsFloor`: what passes the strict profile passes
`okf-v0.1`, so validating one of them is enough. From them: `AlwaysReviewedOnly` and
`AlwaysAppliedPasses`. `PromptAlwaysRunsOnce` compares the loop of `do_headless_p_with`
with the grammar `Delegable`, which knows no loop. `InLoop` says that the arguments
before the one in hand are options and their values, none twice, that the parsed options
are theirs, and that a prompt is the last argument read; and each exit of the loop that
refuses breaks a conjunct of the grammar.

Only model-checked: every liveness property (fairness is out of the prover's reach).
Recursive functions over filters are
evaluated by TLC only: what they compute for every filter needs an induction over
data that the installed provers cannot do. The proofs need of a filter only which nodes
it matches.

---

## 6. Not modelled

* Lexing, formatting and serialization everywhere, prompt assembly, scrubbing
  of events, page layout, and the wording of errors.
* The SQZ adapter's own checks, export paths, the construction of a graph, and the
  emitters' buffers: planned, see section 2.
* The arithmetic of content identities and of stable node ids.
* The read-only commands, the tools (one upstream call and a layout each), the
  API client and the generated descriptions: no state.
* Release tools, schemas, fixtures and benchmarks.

A detail met on the way that is not a matter of behaviour over time: the
`--client=azs-desktop-mcp` of the package's README is not a value the client-id
pattern accepts.
