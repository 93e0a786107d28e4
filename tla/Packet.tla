------------------------------- MODULE Packet -------------------------------
(***************************************************************************)
(* PacketAssembler::assemble (bran/crates/bran-core/src/packet/mod.rs):    *)
(* the dependency closure of a view's items (a walk of module Traversal),  *)
(* the checks on the caller's evidence, and the loop that takes candidates *)
(* in the order of precedence while they fit.  One iteration is one step.  *)
(*                                                                         *)
(* Evidence is a record [id, priority, authority, freshness, bytes,        *)
(* anchors]: bytes is the length of the encoded item, anchors says whether *)
(* it has preservation anchors and whether the content holds them.         *)
(***************************************************************************)
EXTENDS Traversal

VARIABLES order,   \* the PacketAssemblyRequest
          pack     \* the assembly: what is left, selected and omitted

packetVars == <<order, pack>>

PriorityRank == [Required |-> 0, Recommended |-> 1, Related |-> 2]
NoCeiling == 0 - 1

NoOrder == [seeds |-> {}, evidence |-> {}, maxItems |-> 0, maxBytes |-> 0, ceiling |-> NoCeiling,
            viewItems |-> 0, viewBytes |-> 0, viewTruncated |-> FALSE, maxDepth |-> 0, maxNodes |-> 0]
NoPack == [status |-> "none", error |-> "none", rest |-> {}, selected |-> {},
           omitted |-> {}, taken |-> 0, raw |-> 0, maxItems |-> 0, maxBytes |-> 0]

estimate_tokens(bytes) == (bytes + 3) \div 4
estimate_tokens_floor(bytes) == bytes \div 4

\* dependency_closure: the walk starts at the items of the view.
Closure(o) ==
    [Walk(o.seeds, ById) EXCEPT !.context = TRUE, !.maxDepth = o.maxDepth, !.maxItems = o.maxNodes]

BeginPacket(o) ==
    /\ pack.status = "none"
    /\ order' = o
    /\ IF o.seeds \subseteq graph.nodes
       THEN /\ pack' = [NoPack EXCEPT !.status = "closing"]
            /\ walk' = Closure(o)
       ELSE /\ pack' = [NoPack EXCEPT !.status = "failed", !.error = "ViewSeedNotInGraph"]
            /\ UNCHANGED walk
    /\ UNCHANGED graph

Given(o) == {e.id : e \in o.evidence}

\* index_evidence: the first refusal, in the order of the code.
EvidenceError(o, ids) ==
    IF \E e, f \in o.evidence : e # f /\ e.id = f.id THEN "DuplicateSelectedEvidence"
    ELSE IF ~(ids \subseteq Given(o)) THEN "MissingSelectedEvidence"
    ELSE IF ~(Given(o) \subseteq ids) THEN "UnrelatedEvidence"
    ELSE IF \E e \in o.evidence : e.priority = "Required" /\ e.anchors = "none"
         THEN "RequiredEvidenceMissingPreservationAnchors"
    ELSE IF \E e \in o.evidence : e.anchors = "broken" THEN "PreservationAnchorNotInEvidence"
    ELSE "none"

Least(a, b) == IF a < b THEN a ELSE b

\* effective_limits: the view's item limit grows by the admitted dependencies.
Index ==
    /\ pack.status = "closing" /\ walk.status = "exhausted"
    /\ LET error == EvidenceError(order, walk.seen)
       IN  pack' = IF error # "none"
                   THEN [pack EXCEPT !.status = "failed", !.error = error]
                   ELSE [pack EXCEPT !.status = "selecting", !.rest = order.evidence,
                            !.maxItems = Least(order.maxItems, order.viewItems + walk.found),
                            !.maxBytes = Least(order.maxBytes, order.viewBytes)]
    /\ UNCHANGED <<graph, walk, order>>

\* candidate_order
Precedes(a, b) ==
    LET pa == PriorityRank[a.priority]
        pb == PriorityRank[b.priority]
    IN  \/ pa < pb
        \/ pa = pb /\ a.authority > b.authority
        \/ pa = pb /\ a.authority = b.authority /\ a.freshness > b.freshness
        \/ pa = pb /\ a.authority = b.authority /\ a.freshness = b.freshness /\ a.id <= b.id

FitsByFloor(c) ==  \* mutant: the token estimate rounds down
    /\ pack.taken # pack.maxItems
    /\ pack.raw + c.bytes <= pack.maxBytes
    /\ order.ceiling # NoCeiling => estimate_tokens_floor(pack.raw + c.bytes) <= order.ceiling
Fits(c) ==
    /\ pack.taken # pack.maxItems
    /\ pack.raw + c.bytes <= pack.maxBytes
    /\ order.ceiling # NoCeiling => estimate_tokens(pack.raw + c.bytes) <= order.ceiling

SelectNextOrSkip(c) ==  \* mutant: required evidence is omitted like any other
    /\ pack.status = "selecting"
    /\ c \in pack.rest /\ \A d \in pack.rest : Precedes(c, d)
    /\ IF Fits(c)
       THEN pack' = [pack EXCEPT !.rest = @ \ {c}, !.selected = @ \cup {c},
                                 !.taken = @ + 1, !.raw = @ + c.bytes]
       ELSE pack' = [pack EXCEPT !.rest = @ \ {c}, !.omitted = @ \cup {c}]
    /\ UNCHANGED <<graph, walk, order>>
SelectNext(c) ==
    /\ pack.status = "selecting"
    /\ c \in pack.rest /\ \A d \in pack.rest : Precedes(c, d)
    /\ \/ /\ Fits(c)
          /\ pack' = [pack EXCEPT !.rest = @ \ {c}, !.selected = @ \cup {c},
                                  !.taken = @ + 1, !.raw = @ + c.bytes]
       \/ /\ ~Fits(c) /\ c.priority = "Required"
          /\ pack' = [pack EXCEPT !.status = "failed", !.error = "RequiredEvidenceDoesNotFit"]
       \/ /\ ~Fits(c) /\ c.priority # "Required"
          /\ pack' = [pack EXCEPT !.rest = @ \ {c}, !.omitted = @ \cup {c}]
    /\ UNCHANGED <<graph, walk, order>>

Deliver ==
    /\ pack.status = "selecting" /\ pack.rest = {}
    /\ pack' = [pack EXCEPT !.status = "delivered"]
    /\ UNCHANGED <<graph, walk, order>>

PacketTruncatedUnlessView == walk.truncated \/ pack.omitted # {}  \* mutant
\* The receipt's flag.
PacketTruncated == order.viewTruncated \/ walk.truncated \/ pack.omitted # {}

PacketNext ==
    \/ Index
    \/ \E c \in pack.rest : SelectNext(c)
    \/ Deliver

-----------------------------------------------------------------------------
(* Properties. *)

\* A packet never exceeds the caller's limits nor the view's bytes, whichever
\* of items, bytes and estimated tokens is the tightest.  The view's items
\* bound what the view selects: each dependency that the closure admits, and it
\* admits at most the nodes it is allowed, makes room for one more.
PacketWithinLimits ==
    pack.status = "delivered" =>
        /\ pack.taken <= order.maxItems
        /\ pack.taken <= order.viewItems + walk.found /\ walk.found <= order.maxNodes
        /\ pack.raw <= order.maxBytes /\ pack.raw <= order.viewBytes
        /\ order.ceiling # NoCeiling => estimate_tokens(pack.raw) <= order.ceiling

\* Nothing is lost on the way: a delivered packet holds all evidence that was
\* required, names the rest as omitted, and none of what it omitted would
\* still have fitted at the end.
OmissionJustified ==
    pack.status = "delivered" =>
        /\ pack.selected \cup pack.omitted = order.evidence
        /\ \A e \in order.evidence : e.priority = "Required" => e \in pack.selected
        /\ \A e \in pack.omitted : ~Fits(e)
=============================================================================
