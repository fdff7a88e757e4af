----------------------------- MODULE MCRealtime -----------------------------
(* A call with two utterances, of every kind, plans of two actions and the  *)
(* completion of one job.                                                   *)
EXTENDS RealtimeProperties
=============================================================================
