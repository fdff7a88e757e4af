------------------------------ MODULE RootPlane ------------------------------
(***************************************************************************)
(* The privileged plane as the rest of the emergency stop sees it: work     *)
(* never begins behind the lock, and the lock is lifted only when nothing   *)
(* is left of the work.  PanicControl's variable root moves like this.      *)
(***************************************************************************)
VARIABLES locked, busy

Init == ~locked /\ ~busy

\* an action is claimed
Begin == ~locked /\ ~busy /\ busy' /\ UNCHANGED locked

\* nothing of it is left; what ends it may set the lock
End == busy /\ ~busy' /\ (UNCHANGED locked \/ locked')

\* a panic, or a recovery barrier
Lock == locked' /\ UNCHANGED busy

\* by the operator on the host
Unlock == locked /\ ~busy /\ ~locked' /\ UNCHANGED busy

Next == Begin \/ End \/ Lock \/ Unlock

Spec == Init /\ [][Next]_<<locked, busy>>
=============================================================================
