--------------------------- MODULE MCAgentRequests ---------------------------
(* All requests of one call, but for the message, which has its operation.  *)
EXTENDS AgentRequests
CONSTANTS TheCall, TheOperation
OneCall == [r \in Requests |-> IF r \in Messages THEN TheOperation ELSE TheCall]
=============================================================================
