--------------------------- MODULE MCAgentRuntime ---------------------------
(***************************************************************************)
(* One read-only and one writing profile, two providers, and requests that *)
(* differ from an admissible one in one respect each.  The store holds two *)
(* payloads of four bytes in all: an answer with citations (one byte) fits *)
(* beside the artifact (three bytes), one without (two bytes) does not,    *)
(* answer bulky is over the item limit.  The host stores the same payloads *)
(* one by one and a pair of them as a batch.                               *)
(***************************************************************************)
EXTENDS AgentRuntime

CONSTANTS t1, bulky, encoded1, cited1, encodedBulky, patch, id1, idCited, idBulky, idPatch

MCContents == {encoded1, cited1, encodedBulky, patch}
MCIds == {id1, idCited, idBulky, idPatch}
MCDigest == [c \in MCContents |-> CASE c = encoded1 -> id1
                                    [] c = cited1 -> idCited
                                    [] c = encodedBulky -> idBulky
                                    [] c = patch -> idPatch]
MCSize == [c \in MCContents |-> CASE c = cited1 -> 1
                                  [] c = encoded1 -> 2
                                  [] c = encodedBulky -> 5
                                  [] c = patch -> 3]
MCTicks == 0 .. 1
MCPayloads == {<<cited1, patch>>}

MCProfiles == [p \in {"reader", "writer"} |->
    IF p = "reader" THEN [tools |-> {"read"}, provider |-> "local", model |-> "small"]
    ELSE [tools |-> {"read", "write"}, provider |-> "local", model |-> "small"]]
MCModels == [v \in {"local", "remote"} |-> IF v = "local" THEN {"small"} ELSE {"large"}]
MCMutatingTools == {"write", "shell"}

Plain == [profile |-> "reader", tools |-> {"read"}, depth |-> 1, provider |-> None, model |-> None]
MCRequests ==
    {Plain,
     [Plain EXCEPT !.profile = "stranger"],
     [Plain EXCEPT !.depth = 3],
     [Plain EXCEPT !.tools = {"write"}],
     [Plain EXCEPT !.profile = "writer", !.tools = {"write"}],
     [Plain EXCEPT !.provider = "nowhere"],
     [Plain EXCEPT !.model = "large"],
     [Plain EXCEPT !.provider = "remote", !.model = "large"]}

MCTexts == {t1, bulky}
MCCitations == {"uncited", "cited"}
MCLevels == {"high"}
MCEncoded == [e \in MCTexts \X MCCitations |->
    IF e[1] = bulky THEN encodedBulky ELSE IF e[2] = "cited" THEN cited1 ELSE encoded1]
Passed(t) == [status |-> "Applied", failure_reason |-> "none", fidelity |-> "Passed",
              dlp |-> "Passed", findings |-> {}, sqz_id |-> t, latency |-> 0]
MCSqzReceipts ==
    {Passed(t) : t \in MCTexts} \cup
    {[Passed(t1) EXCEPT !.status = "Failed"],
     [Passed(t1) EXCEPT !.failure_reason = "PortUnavailable"],
     [Passed(t1) EXCEPT !.fidelity = "Missing"],
     [Passed(t1) EXCEPT !.dlp = "InputPassed"],
     [Passed(t1) EXCEPT !.findings = {"secret"}],
     [Passed(t1) EXCEPT !.sqz_id = None],
     [Passed(t1) EXCEPT !.latency = 1]}

Claim(p, v, m, r) == [profile |-> p, provider |-> v, model |-> m, reasoning |-> r]
MCOutputs ==
    {[answer |-> t1, citations |-> "cited", artifacts |-> <<patch, patch>>,
      evidence |-> Claim("reader", "local", "small", "high")],
     [answer |-> bulky, citations |-> "uncited", artifacts |-> <<patch>>,
      evidence |-> Claim("writer", "remote", "large", "boundless")]}
=============================================================================
