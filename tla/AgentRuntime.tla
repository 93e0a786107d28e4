---------------------------- MODULE AgentRuntime ----------------------------
(***************************************************************************)
(* AgentRuntime::invoke (bran/crates/bran-core/src/agent/coordinator.rs)   *)
(* composed with the result store it writes to.                            *)
(*                                                                         *)
(* An invocation is a program of Steps: the gates of the host and of the   *)
(* registries, then the ports (authentication, SQZ on the prompt, the      *)
(* provider, SQZ on the answer, the result store).  Each step is an        *)
(* action; each port answers with anything its Rust type allows.  `inv'    *)
(* holds the local variables of the running call, `receipt' the last value *)
(* returned.  Between invocations the host uses the store as it likes.     *)
(*                                                                         *)
(* A SHA-256 address inside an SQZ receipt is modelled by the text it is   *)
(* the digest of.                                                          *)
(***************************************************************************)
EXTENDS ResultStore

CONSTANTS
    Profiles,        \* registered profiles: [name -> [tools, provider, model]]
    Models,          \* registered models: [provider -> SUBSET model names]
    Levels,          \* the words ReasoningLevel::parse knows
    MutatingTools,   \* write, edit, shell, network
    MaxDepth,        \* AgentRuntimeConfig.max_delegation_depth
    Requests,        \* delegation requests
    Texts,           \* prompts and answers
    Oversize,        \* texts over ProviderRequest's 65536 bytes
    SqzReceipts,     \* receipts an SQZ port may return
    MaxLatency,      \* u64::MAX nanoseconds, the latency a receipt can carry
    Citations,       \* lists of citations
    Outputs,         \* provider outputs: [answer, citations, artifacts, evidence]
    Encoded,         \* encode_result: the payload <<answer, citations>> is stored as
    None

ASSUME RuntimeAssumption ==
    /\ MaxDepth \in 1 .. 8
    /\ MaxLatency \in Nat
    /\ \A req \in Requests : req.depth \in Nat
    /\ \A r \in SqzReceipts : r.latency \in Nat
    /\ Oversize \subseteq Texts
    /\ Encoded \in [Texts \X Citations -> Contents]
    /\ \A out \in Outputs : /\ out.answer \in Texts
                            /\ out.citations \in Citations
                            /\ out.artifacts \in Seq(Contents)
    /\ None \notin Texts \cup DOMAIN Profiles \cup DOMAIN Models
    /\ \A p \in DOMAIN Profiles :
          /\ Profiles[p].provider \in DOMAIN Models
          /\ Profiles[p].model \in Models[Profiles[p].provider]

VARIABLES enabled,    \* AgentRuntimeConfig.enabled
          inv,        \* the running invocation
          receipt,    \* what the last invocation returned
          called,     \* history: the ports the current or last invocation called
          latencies   \* history: the latencies its SQZ ports reported

runtimeVars == <<enabled, inv, receipt, called, latencies>>
allVars == <<vars, runtimeVars>>

Authorities == [explicit_offline : BOOLEAN, project_trusted : BOOLEAN,
                mutation_authorized : BOOLEAN]

Idle == [at |-> 0, lifecycle |-> "Configured", req |-> None, auth |-> None,
         now |-> 0, before |-> None, prompt |-> None, input |-> None,
         out |-> None, effective |-> None, inline |-> None, output |-> None]
NoReceipt == [outcome |-> "none"]

RuntimeInit ==
    /\ Init
    /\ enabled \in BOOLEAN
    /\ inv = Idle
    /\ receipt = NoReceipt
    /\ called = {}
    /\ latencies = {}

StepsPortsEarly ==  \* mutant: credentials are resolved before the models are known
    <<"AgentDisabled", "ExplicitOffline", "ProjectUntrusted", "DepthExceeded",
      "UnknownProfile", "DeniedTool", "MutationDenied", "auth",
      "UnknownProvider", "UnknownModel", "sqz_input", "provider", "sqz_output", "store">>

\* The order of invoke: nine gates, five ports.
Steps ==
    <<"AgentDisabled", "ExplicitOffline", "ProjectUntrusted", "DepthExceeded",
      "UnknownProfile", "DeniedTool", "MutationDenied", "UnknownProvider",
      "UnknownModel", "auth", "sqz_input", "provider", "sqz_output", "store">>

At(step) == inv.at # 0 /\ Steps[inv.at] = step

-----------------------------------------------------------------------------
(* The gates. *)

Gates == {"AgentDisabled", "ExplicitOffline", "ProjectUntrusted", "DepthExceeded",
          "UnknownProfile", "DeniedTool", "MutationDenied", "UnknownProvider",
          "UnknownModel"}

Selected(req) ==
    LET profile == Profiles[req.profile]
    IN  [provider |-> IF req.provider = None THEN profile.provider ELSE req.provider,
         model |-> IF req.model = None THEN profile.model ELSE req.model]

denied_tool(req) == ~(req.tools \subseteq Profiles[req.profile].tools)
mutation_requested(req) == req.tools \cap MutatingTools # {}

\* The condition under which a gate refuses.
Refuses(gate, req, auth) ==
    CASE gate = "AgentDisabled" -> ~enabled
      [] gate = "ExplicitOffline" -> auth.explicit_offline
      [] gate = "ProjectUntrusted" -> ~auth.project_trusted
      [] gate = "DepthExceeded" -> req.depth > MaxDepth
      [] gate = "UnknownProfile" -> req.profile \notin DOMAIN Profiles
      [] gate = "DeniedTool" -> denied_tool(req)
      [] gate = "MutationDenied" -> ~auth.mutation_authorized /\ mutation_requested(req)
      [] gate = "UnknownProvider" -> Selected(req).provider \notin DOMAIN Models
      [] gate = "UnknownModel" -> Selected(req).model \notin Models[Selected(req).provider]

\* Both tool gates fail with the same code.
Code(gate) == IF gate = "MutationDenied" THEN "DeniedTool" ELSE gate

-----------------------------------------------------------------------------
(* Receipts. *)

UnavailableEffective == [profile |-> None, provider |-> None, model |-> None,
                         reasoning |-> None]

\* provider_effective: what the provider claims, where it agrees with the
\* profile, the selected provider, that provider's registered models and the
\* known levels of reasoning.
Effective(req, evidence) ==
    LET provider == Selected(req).provider
    IN  [profile |-> IF evidence.profile = req.profile THEN evidence.profile ELSE None,
         provider |-> IF evidence.provider = provider THEN provider ELSE None,
         model |-> IF evidence.model \in Models[provider] THEN evidence.model ELSE None,
         reasoning |-> IF evidence.reasoning \in Levels THEN evidence.reasoning ELSE None]

accepted_sqz(r, text) ==
    /\ r.status \in {"Applied", "NotBeneficial"}
    /\ r.failure_reason = "none"
    /\ r.fidelity = "Passed"
    /\ r.dlp = "Passed"
    /\ r.findings = {}
    /\ r.sqz_id = text

\* DelegationReceipt::new writes latencies as 64-bit nanoseconds, and refuses
\* a receipt of any outcome whose SQZ receipts (`carried') have a longer one.
LatencyFits(carried) == \A r \in carried : r.latency <= MaxLatency

Incomplete(failure, effective, carried) ==
    /\ receipt' = IF LatencyFits(carried)
                  THEN [outcome |-> "Incomplete", failure |-> failure, effective |-> effective]
                  ELSE [outcome |-> "ReceiptInvariant"]
    /\ inv' = Idle

\* DelegationReceipt::new on the complete branch.
ReceiptAccepts(r) ==
    /\ LatencyFits({r.input, r.output})
    /\ accepted_sqz(r.input, r.input.sqz_id)
    /\ accepted_sqz(r.output, r.inline)
    /\ r.stored.result_id = Digest[Encoded[<<r.inline, r.citations>>]]

-----------------------------------------------------------------------------
(* The invocation. *)

Begin(req, auth, now) ==
    /\ inv = Idle
    /\ ~batch.active
    /\ inv' = [Idle EXCEPT !.at = 1, !.req = req, !.auth = auth, !.now = now, !.before = store]
    /\ receipt' = NoReceipt
    /\ called' = {}
    /\ latencies' = {}
    /\ UNCHANGED <<vars, enabled>>

Gate ==
    /\ \E gate \in Gates :
          /\ At(gate)
          /\ \/ /\ Refuses(gate, inv.req, inv.auth)
                /\ Incomplete(Code(gate), UnavailableEffective, {})
             \/ /\ ~Refuses(gate, inv.req, inv.auth)
                /\ inv' = [inv EXCEPT !.at = @ + 1]
                /\ UNCHANGED receipt
    /\ UNCHANGED <<vars, enabled, called, latencies>>

\* All gates passed: the port factory is called, then its first port.
ResolveAuth ==
    /\ At("auth")
    /\ \/ /\ inv' = [inv EXCEPT !.at = @ + 1]
          /\ UNCHANGED receipt
       \/ Incomplete("MissingAuth", UnavailableEffective, {})
    /\ called' = called \cup {"auth"}
    /\ UNCHANGED <<vars, enabled, latencies>>

\* An SQZ port fails, with or without a receipt, or returns a text and a receipt.
SqzFails(failure, effective, carried) ==
    \E r \in SUBSET SqzReceipts :
        /\ Cardinality(r) <= 1
        /\ latencies' = latencies \cup {x.latency : x \in r}
        /\ Incomplete(failure, effective, carried \cup r)

\* An error, an unacceptable receipt and a text the provider request rejects
\* all end the invocation before the provider is called.
SqzInput ==
    /\ At("sqz_input")
    /\ called' = called \cup {"sqz_input"}
    /\ \/ SqzFails("SqzInputFailed", UnavailableEffective, {})
       \/ \E text \in Texts, r \in SqzReceipts :
             /\ latencies' = latencies \cup {r.latency}
             /\ \/ /\ accepted_sqz(r, text) /\ text \notin Oversize
                   /\ inv' = [inv EXCEPT !.at = @ + 1, !.lifecycle = "Running",
                                         !.prompt = text, !.input = r]
                   /\ UNCHANGED receipt
                \/ /\ ~accepted_sqz(r, text) \/ text \in Oversize
                   /\ Incomplete("SqzInputFailed", UnavailableEffective, {r})
    /\ UNCHANGED <<vars, enabled>>

InvokeProvider ==
    /\ At("provider")
    /\ called' = called \cup {"provider"}
    /\ \/ \E out \in Outputs :
             /\ inv' = [inv EXCEPT !.at = @ + 1, !.lifecycle = "Validating", !.out = out,
                                   !.effective = Effective(inv.req, out.evidence)]
             /\ UNCHANGED receipt
       \/ \E failure \in {"Timeout", "Cancelled", "InvalidOutput",
                          "ProviderUnavailable", "ProviderFailed"} :
             Incomplete(failure, UnavailableEffective, {inv.input})
    /\ UNCHANGED <<vars, enabled, latencies>>

SqzOutputRaw ==  \* mutant: the provider's answer is stored, not the one SQZ returned
    /\ At("sqz_output")
    /\ called' = called \cup {"sqz_output"}
    /\ \/ \E text \in Texts, r \in SqzReceipts :
             /\ accepted_sqz(r, text)
             /\ latencies' = latencies \cup {r.latency}
             /\ inv' = [inv EXCEPT !.at = @ + 1, !.inline = text, !.output = r]
             /\ BatchBegin(<<Encoded[<<inv.out.answer, inv.out.citations>>]>> \o inv.out.artifacts,
                           inv.now)
             /\ UNCHANGED receipt
    /\ UNCHANGED enabled

\* Only the answer passes through SQZ.  With the provider's own citations the
\* accepted text is encoded and handed to put_batch, the artifacts after it.
SqzOutput ==
    /\ At("sqz_output")
    /\ called' = called \cup {"sqz_output"}
    /\ \/ \E failure \in {"InvalidOutput", "SqzOutputFailed"} :
             /\ SqzFails(failure, inv.effective, {inv.input})
             /\ UNCHANGED vars
       \/ \E text \in Texts, r \in SqzReceipts :
             /\ ~accepted_sqz(r, text)
             /\ latencies' = latencies \cup {r.latency}
             /\ Incomplete("SqzOutputFailed", inv.effective, {inv.input, r})
             /\ UNCHANGED vars
       \/ \E text \in Texts, r \in SqzReceipts :
             /\ accepted_sqz(r, text)
             /\ latencies' = latencies \cup {r.latency}
             /\ inv' = [inv EXCEPT !.at = @ + 1, !.inline = text, !.output = r]
             /\ BatchBegin(<<Encoded[<<text, inv.out.citations>>]>> \o inv.out.artifacts, inv.now)
             /\ UNCHANGED receipt
    /\ UNCHANGED enabled

StoreStep ==
    /\ At("store")
    /\ called' = called \cup {"store"}
    /\ BatchPut \/ BatchEnd
    /\ UNCHANGED <<enabled, inv, receipt, latencies>>

Elements(s) == {s[n] : n \in DOMAIN s}

Stored_ref == [result_id |-> Digest[Encoded[<<inv.inline, inv.out.citations>>]],
               artifact_ids |-> {Digest[c] : c \in Elements(inv.out.artifacts)}]

\* put_batch has returned.  Only now is the receipt built.
Finish ==
    /\ At("store")
    /\ ~batch.active
    /\ \/ /\ reply.kind = "refused_batch"
          /\ Incomplete("ResultStoreFailed", inv.effective, {inv.input, inv.output})
       \/ /\ reply.kind = "stored"
          /\ LET full == [outcome |-> "Complete", effective |-> inv.effective, now |-> inv.now,
                          input |-> inv.input, output |-> inv.output, inline |-> inv.inline,
                          citations |-> inv.out.citations, stored |-> Stored_ref]
             IN  receipt' = IF inv.lifecycle = "Validating" /\ ReceiptAccepts(full)
                            THEN full
                            ELSE [outcome |-> "ReceiptInvariant"]
          /\ inv' = Idle
    /\ UNCHANGED <<vars, enabled, called, latencies>>

\* The host uses the store between invocations, by any of its operations.
HostStep ==
    /\ inv = Idle
    /\ Next
    /\ UNCHANGED runtimeVars

RuntimeNext ==
    \/ \E req \in Requests, auth \in Authorities, now \in Ticks : Begin(req, auth, now)
    \/ Gate
    \/ ResolveAuth
    \/ SqzInput
    \/ InvokeProvider
    \/ SqzOutput
    \/ StoreStep
    \/ Finish
    \/ HostStep

RuntimeSpec == RuntimeInit /\ [][RuntimeNext]_allVars

-----------------------------------------------------------------------------
(* Properties. *)

Admissible(req, auth) ==
    /\ enabled /\ auth.project_trusted /\ ~auth.explicit_offline
    /\ req.depth <= MaxDepth
    /\ req.profile \in DOMAIN Profiles
    /\ req.tools \subseteq Profiles[req.profile].tools
    /\ req.tools \cap MutatingTools # {} => auth.mutation_authorized
    /\ Selected(req).provider \in DOMAIN Models
    /\ Selected(req).model \in Models[Selected(req).provider]

\* No port sees a request the host or the registries refuse: a port has been
\* called only for an enabled, trusted, online, shallow request of a known
\* profile, provider and model, whose tools the profile grants and whose
\* mutating tools the host authorized; and an invocation that ends with a
\* refusal, whichever it is, has called none on the way.
PortsOnlyWhenAdmitted ==
    /\ inv # Idle /\ called # {} => Admissible(inv.req, inv.auth)
    /\ receipt.outcome = "Incomplete" /\ receipt.failure \in Gates => called = {}

\* What the provider was asked is a text whose own SQZ receipt passed.
ProviderGetsScreened ==
    inv # Idle /\ "provider" \in called =>
        inv.prompt \notin Oversize /\ accepted_sqz(inv.input, inv.prompt)

\* What the caller reads is an answer whose own SQZ receipt passed.
CallerGetsScreened ==
    receipt.outcome = "Complete" => accepted_sqz(receipt.output, receipt.inline)

\* Whatever payload an invocation adds to the store is an answer that passed SQZ
\* in this invocation, with the provider's citations, or one of its artifacts;
\* these two alone go past the screening.
AddsScreened ==
    inv # Idle =>
        \A c \in Held(store') \ Held(store) :
            \/ \E text \in Texts : /\ accepted_sqz(inv.output, text)
                                  /\ c = Encoded[<<text, inv.out.citations>>]
            \/ c \in Elements(inv.out.artifacts)

StoreGetsScreened == [][AddsScreened]_allVars

\* "DLP-rejected output never reaches inline content or the result store": the
\* provider gets a screened prompt, the caller and the store a screened answer,
\* over the steps in which the answer of one port is carried to the next.
OnlyScreenedText ==
    /\ []ProviderGetsScreened
    /\ []CallerGetsScreened
    /\ StoreGetsScreened

\* A complete receipt is backed by the store: when it is returned, the
\* encoded answer and every artifact it names can be fetched.
CompleteIsBacked ==
    [][receipt'.outcome = "Complete" /\ receipt' # receipt =>
          /\ \A id \in {receipt'.stored.result_id} \cup receipt'.stored.artifact_ids :
                Retrievable(store', id, receipt'.now)
          /\ store'.entries[receipt'.stored.result_id].bytes
                 = Encoded[<<receipt'.inline, receipt'.citations>>]]_allVars

\* An invocation that returns an incomplete receipt leaves the store as it found it.
IncompleteLeavesStore ==
    [][inv # Idle /\ inv' = Idle /\ receipt'.outcome = "Incomplete" =>
          store' = inv.before]_allVars

\* "The only runtime error: a receipt invariant which should be unreachable": it
\* is reached only when an SQZ port reported a latency of over 2^64 nanoseconds.
ReceiptUnlessLatency ==
    receipt.outcome = "ReceiptInvariant" => \E l \in latencies : l > MaxLatency

\* The store is what the receipt says of it, complete or incomplete, and unless
\* an SQZ latency is out of range there is a receipt.
StoreMatchesReceipt ==
    CompleteIsBacked /\ IncompleteLeavesStore /\ []ReceiptUnlessLatency
=============================================================================
