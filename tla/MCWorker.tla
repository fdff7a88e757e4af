------------------------------- MODULE MCWorker -------------------------------
(* Instances of the worker session broker for TLC.                          *)
EXTENDS WorkerProperties, TLC

CONSTANTS o1, c1, c2

SameOp == [c \in Callers |-> o1]
=============================================================================
