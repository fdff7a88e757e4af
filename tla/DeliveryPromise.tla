--------------------------- MODULE DeliveryPromise ---------------------------
(***************************************************************************)
(* What the controller promises about one durable request, without leases,  *)
(* heartbeats, processes or reconciliation: it is accepted, it may be       *)
(* committed once, only a commitment permits the one delivery, and it is    *)
(* closed once with a verdict that says no more than is so.                 *)
(***************************************************************************)
EXTENDS Naturals

VARIABLES
    status,     \* absent, pending, closed
    committed,  \* a durable intent exists
    permit,     \* a delivery may happen any moment
    delivered,  \* how often it did
    verdict     \* none, or what the closed request reports

vars == <<status, committed, permit, delivered, verdict>>

\* untouched: nothing was delivered and nothing will be
Verdicts == {"none", "done", "untouched", "open"}

Init ==
    /\ status = "absent"
    /\ committed = FALSE
    /\ permit = FALSE
    /\ delivered = 0
    /\ verdict = "none"

Accept ==
    /\ status = "absent"
    /\ status' = "pending"
    /\ UNCHANGED <<committed, permit, delivered, verdict>>

Commit ==
    /\ status = "pending"
    /\ ~committed
    /\ committed' = TRUE
    /\ permit' \in BOOLEAN
    /\ UNCHANGED <<status, delivered, verdict>>

Deliver ==
    /\ permit
    /\ permit' = FALSE
    /\ delivered' = delivered + 1
    /\ UNCHANGED <<status, committed, verdict>>

Lapse ==
    /\ permit
    /\ permit' = FALSE
    /\ UNCHANGED <<status, committed, delivered, verdict>>

\* A request canceled in advance is closed as it is accepted.
Close ==
    /\ status \in {"absent", "pending"}
    /\ status' = "closed"
    /\ \/ delivered = 1 /\ verdict' = "done"
       \/ ~committed /\ verdict' = "untouched"
       \/ verdict' = "open"
    /\ UNCHANGED <<committed, permit, delivered>>

Next == Accept \/ Commit \/ Deliver \/ Lapse \/ Close

Spec == Init /\ [][Next]_vars
=============================================================================
