------------------------------- MODULE MCVoice -------------------------------
(* Instances of the voice application's jobs for TLC.                       *)
EXTENDS VoiceProperties, TLC

CONSTANT j1
=============================================================================
