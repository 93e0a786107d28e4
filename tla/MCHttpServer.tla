---------------------------- MODULE MCHttpServer ----------------------------
EXTENDS HttpServer, TLC

CONSTANTS r1, r2, r3, here, t1, t2

\* One address, two users behind it.
FromAddress == [r \in Requests |-> here]
ByToken == (r1 :> t1) @@ (r2 :> t1) @@ (r3 :> t2)
=============================================================================
