---------------------------- MODULE MCPanicControl ----------------------------
(* Instances of the emergency stop for TLC.                                  *)
EXTENDS PanicProperties, TLC

CONSTANTS c1
OneCall  == [t \in Tasks |-> c1]
Symmetry == Permutations(Requests)
=============================================================================
