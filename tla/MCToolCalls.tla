---------------------------- MODULE MCToolCalls ----------------------------
(***************************************************************************)
(* One call and one client asking for lists, the tokens of two users and a *)
(* token of some other program, which may be found in the environment or   *)
(* in a request.                                                           *)
(***************************************************************************)
EXTENDS ToolCalls

CONSTANTS c1, l1, odds, alice, bob, ambient

MCTool == [c \in Calls |-> odds]
MCKind == [t \in Tokens |-> IF t = ambient THEN "system" ELSE "user"]
MCEnvironments ==
    {[API_KEY |-> None, AZS_API_KEY |-> None, dev |-> FALSE],
     [API_KEY |-> ambient, AZS_API_KEY |-> None, dev |-> TRUE],
     [API_KEY |-> ambient, AZS_API_KEY |-> alice, dev |-> FALSE]}
=============================================================================
