------------------------------ MODULE MCOutbound ------------------------------
(* Instances of the outbound plane for TLC.                                 *)
EXTENDS OutboundProperties, TLC

CONSTANTS c1, c2, c3

\* two calls of clients, the second one after the first is dialed, or the callback
Apart ==
    /\ outbox[c3] = "none" \/ (row[c1] = "none" /\ row[c2] = "none")
    /\ row[c1] \in {"none", "queued"} => row[c2] = "none"
=============================================================================
