--------------------------- MODULE WorkerProperties ---------------------------
(***************************************************************************)
(* What the worker session broker promises: one delivery at most, none once *)
(* a panic was answered quiesced, and success only for what was delivered.  *)
(***************************************************************************)
EXTENDS WorkerOperations

CONSTANT Watched   \* any operation: the one whose promise is looked at

ASSUME WatchedAssumption == Watched \in Ops

\* Types of the store, of the handlers and of the proxy's calls.
WorkerTypeOK ==
    /\ oper \in [Ops -> OperStates]
    /\ fence \in BOOLEAN
    /\ phase \in {"up", "closing", "down"}
    /\ lane \in Seq({"panic", "unlock"})
    /\ stage \in {"none", "providers", "root", "supervisors"}
    /\ handler \in [Callers -> Points]
    /\ aborted \in [Callers -> BOOLEAN]
    /\ looking \subseteq Callers
    /\ caller \in [Callers -> Verdicts \cup {"idle", "preparing", "prepared", "committing",
                                              "recovering", "asking"}]
    /\ delivered \in [Ops -> Nat]
    /\ calm \in BOOLEAN

Claimed(c)  == handler[c] \in {"resolving", "sending", "marked", "pasting", "watching"}
Crossed(c)  == handler[c] \in {"marked", "pasting", "watching"}
NoneCrossed == \A c \in Callers : ~Crossed(c)

\* A row has one run at most, and the run, the row and the pane agree.
OneRun == \A c, d \in Callers : Claimed(c) /\ Claimed(d) /\ CallOf[c] = CallOf[d] => c = d

RunFits(c) ==
    /\ Claimed(c) => oper[CallOf[c]] \notin {"absent", "prepared"}
    /\ Crossed(c) => oper[CallOf[c]] \in {"delivery_started", "outcome_unknown", "completed"}
    /\ handler[c] \in {"marked", "pasting"} => delivered[CallOf[c]] = 0
    /\ handler[c] = "watching" => delivered[CallOf[c]] = 1
    /\ phase = "down" => handler[c] = "none"

RowFits(o) ==
    /\ delivered[o] <= 1
    /\ oper[o] \in {"absent", "prepared", "commit_claimed", "failed_pre_delivery"}
          => delivered[o] = 0
    /\ oper[o] = "completed" => delivered[o] = 1

RunsFit == OneRun /\ (\A c \in Callers : RunFits(c)) /\ (\A o \in Ops : RowFits(o))

\* Behind the fence no row is active; where the control lane is at.
FenceFits ==
    /\ fence => \A o \in Ops : ~Active(o)
    /\ calm => fence /\ NoneCrossed
    /\ stage = "providers" => lane # <<>> /\ Head(lane) = "panic" /\ fence
    /\ stage \in {"root", "supervisors"} =>
          lane # <<>> /\ Head(lane) = "unlock" /\ (fence => NoneCrossed)
    /\ phase = "down" => lane = <<>> /\ stage = "none"

\* A call that returned a result was delivered, whichever of the commit, a
\* repeated commit or the recovery after a lost answer returned it.
HonestSuccess == \A c \in Callers : caller[c] = "ok" => delivered[CallOf[c]] = 1

\* Every step keeps the rows, the runs, the fence and the answers in agreement:
\* what the safety properties rest on.
WInv == WorkerTypeOK /\ RunsFit /\ FenceFits /\ HonestSuccess

\* A panic that was answered quiesced is the end of it: until an unlock nothing
\* reaches a pane, though a commit may have claimed its row before the panic and
\* be waiting where neither active nor activeRuns knows of it.
QuietAfterPanic == [][calm => delivered' = delivered]_vars

\* The broker's fence as the emergency stop sees it.
Busy  == (\E o \in Ops : Active(o)) \/ ~NoneCrossed
Plane == INSTANCE RootPlane WITH locked <- fence, busy <- Busy

\* Work begins only before the fence, and the fence is lifted only when no row
\* is active and no run can still reach a pane.
KeepsWorkerPlane == Plane!Spec

\* docs/WORKER-SESSION-BROKER.md: an ambiguous delivery is reconciled, and
\* outcome-unknown until evidence proves completion.  So a call that returned a
\* result has a completed row.
SuccessMeansCompleted ==
    \A c \in Callers : caller[c] = "ok" => oper[CallOf[c]] = "completed"

-----------------------------------------------------------------------------
(* Liveness.  The calls a handler awaits have deadlines, and so has send.    *)

WorkerFairness ==
    /\ WF_vars(Control) /\ WF_vars(Closed)
    /\ \A c \in Callers : WF_vars(Handle(c)) /\ WF_vars(Commit(c)) /\ WF_vars(GiveUp(c))

WorkerLiveSpec == WorkerSpec /\ WorkerFairness

\* A shutdown ends: the last panic runs, the handlers leave, and a crash is an
\* end too.
CloseEnds == phase = "closing" ~> phase = "down"

\* A send that began returns, whatever becomes of the broker.
SendsReturn ==
    \A c \in Callers : caller[c] = "preparing" ~> caller[c] \in Verdicts

\* Nothing waits for ever: neither the shutdown for its handlers nor a caller for
\* the broker.
NothingHangs == CloseEnds /\ SendsReturn

-----------------------------------------------------------------------------
(* The state of module DeliveryPromise for one operation.  A row in          *)
(* outcome_unknown is not closed: evidence may still complete it.            *)

OperStatus(o) == CASE oper[o] = "absent" -> "absent"
                   [] oper[o] \in {"completed", "failed_pre_delivery"} -> "closed"
                   [] OTHER -> "pending"
OperVerdict(o) == CASE oper[o] = "completed" -> "done"
                    [] oper[o] = "failed_pre_delivery" -> "untouched"
                    [] OTHER -> "none"
OperCommitted(o) == oper[o] \in {"delivery_started", "outcome_unknown", "completed"}
OperPermitted(o) == \E c \in Callers : CallOf[c] = o /\ MayPaste(c)

Promise == INSTANCE DeliveryPromise WITH
    status <- OperStatus(Watched),
    committed <- OperCommitted(Watched),
    permit <- OperPermitted(Watched),
    delivered <- delivered[Watched],
    verdict <- OperVerdict(Watched)

\* The broker keeps the abstract promise about an operation: its claims, its
\* fence, its restarts and its reconciliation are an acceptance, a commitment,
\* a delivery or a closure the promise allows.
KeepsOperationPromise == Promise!Spec
=============================================================================
