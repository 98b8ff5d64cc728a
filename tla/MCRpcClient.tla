---------------------------- MODULE MCRpcClient ----------------------------
(* Bounded instance of RpcClient: a call with a deadline is answered up to *)
(* twice; one without is never answered and waits for Done.                *)
EXTENDS RpcClient
Replies == [c \in Calls |-> IF c \in Timed THEN 2 ELSE 0]
=============================================================================
