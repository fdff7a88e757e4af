--------------------------- MODULE WorkerOperations ---------------------------
(***************************************************************************)
(* Deliveries to worker-owned tmux sessions: the broker's handlers over its *)
(* durable operation store, its control lane, its shutdown and restart, and *)
(* the controller's proxy, which asks again only for evidence.              *)
(***************************************************************************)
EXTENDS Naturals, Sequences, FiniteSets

CONSTANTS Ops,       \* operation ids
          Callers,   \* calls of the proxy's send
          CallOf,    \* the operation of each
          MaxLane    \* bound: panic and unlock requests in the control lane

ASSUME WorkerAssumption == CallOf \in [Callers -> Ops] /\ MaxLane \in Nat

VARIABLES oper,       \* state in worker_session_operations, "absent" without a row
          fence,      \* panic_locked
          phase,      \* the broker's process
          lane,       \* controlLane
          stage,      \* where the head of the lane is at
          handler,    \* the preflight or commit handler of a caller
          aborted,    \* the AbortController of a run
          looking,    \* callers whose reconcile handler waits for evidence
          caller,     \* what send returned, or what it waits for
          delivered,  \* how often the message was submitted to the pane
          calm        \* a panic was answered quiesced, and no unlock since

brokerVars == <<phase, lane, stage>>
runVars    == <<handler, aborted, looking>>
vars == <<oper, fence, brokerVars, runVars, caller, delivered, calm>>

OperStates == {"absent", "prepared", "commit_claimed", "delivery_started",
               "completed", "failed_pre_delivery", "outcome_unknown"}
Active(o) == oper[o] \in {"prepared", "commit_claimed", "delivery_started"}
OperTerminal(o) == oper[o] \in {"completed", "failed_pre_delivery", "outcome_unknown"}

Points == {"none", "preparing", "reading", "resolving", "sending", "marked",
           "pasting", "watching"}
RunPoints == {"sending", "marked", "pasting", "watching"}   \* in active and activeRuns
NoRuns    == \A c \in Callers : handler[c] \notin RunPoints
\* the message may still reach the pane
MayPaste(c) == handler[c] = "pasting" \/ (handler[c] = "marked" /\ ~aborted[c])

Verdicts == {"ok", "refused", "unknown"}

WorkerInit ==
    /\ oper = [o \in Ops |-> "absent"]
    /\ fence = FALSE
    /\ phase = "up"
    /\ lane = <<>> /\ stage = "none"
    /\ handler = [c \in Callers |-> "none"]
    /\ aborted = [c \in Callers |-> FALSE]
    /\ looking = {}
    /\ caller = [c \in Callers |-> "idle"]
    /\ delivered = [o \in Ops |-> 0]
    /\ calm = FALSE

-----------------------------------------------------------------------------
(* The store's transactions, and the end of a handler.                      *)

\* _finish: a terminal row is returned as it is
Finish(o, s) == IF OperTerminal(o) THEN oper ELSE [oper EXCEPT ![o] = s]

\* the catch blocks: failPreDelivery, or outcomeUnknown
Failed(o) == CASE oper[o] = "commit_claimed"   -> [oper EXCEPT ![o] = "failed_pre_delivery"]
               [] oper[o] = "delivery_started" -> [oper EXCEPT ![o] = "outcome_unknown"]
               [] OTHER                        -> oper

\* store.panic
Fenced == [o \in Ops |-> CASE oper[o] \in {"prepared", "commit_claimed"} -> "failed_pre_delivery"
                           [] oper[o] = "delivery_started" -> "outcome_unknown"
                           [] OTHER -> oper[o]]

\* a caller that has stopped waiting gets nothing
Answer(c, v) == caller' = IF caller[c] = "committing" THEN [caller EXCEPT ![c] = v] ELSE caller

\* What the proxy makes of an error answer, given the row behind it: it asks
\* again after IN_PROGRESS and OUTCOME_UNKNOWN; of any other code the controller,
\* which has recorded its intent, makes an unknown outcome.  With a completed row
\* the code is that of the exception.
Errors(s) == CASE s \in {"commit_claimed", "delivery_started", "outcome_unknown"} -> {"recovering"}
               [] s = "completed" -> {"recovering", "unknown"}
               [] OTHER -> {"unknown"}

Leave(c) == /\ handler' = [handler EXCEPT ![c] = "none"]
            /\ aborted' = [aborted EXCEPT ![c] = FALSE]
            /\ UNCHANGED looking

MutationUnlocked == ~fence /\ lane = <<>>

-----------------------------------------------------------------------------
(* The preflight handler.                                                   *)

Preflight(c) ==
    /\ caller[c] = "idle"
    /\ \/ /\ phase = "up" /\ MutationUnlocked
          /\ handler' = [handler EXCEPT ![c] = "preparing"]
          /\ caller' = [caller EXCEPT ![c] = "preparing"]
       \/ /\ ~(phase = "up" /\ MutationUnlocked)
          /\ caller' = [caller EXCEPT ![c] = "refused"]
          /\ UNCHANGED handler
    /\ UNCHANGED <<oper, fence, brokerVars, aborted, looking, delivered, calm>>

\* store.prepare: a completed operation passes too, its commit is idempotent
Prepared(c) ==
    /\ handler[c] = "preparing"
    /\ phase = "up" /\ ~fence
    /\ oper[CallOf[c]] \in {"absent", "prepared", "completed"}
    /\ oper' = [oper EXCEPT ![CallOf[c]] = IF @ = "absent" THEN "prepared" ELSE @]
    /\ caller' = [caller EXCEPT ![c] = "prepared"]
    /\ Leave(c)
    /\ UNCHANGED <<fence, brokerVars, delivered, calm>>

\* draining, fenced, no admission, another target, or operationError(row)
PreflightFails(c) ==
    /\ handler[c] = "preparing"
    /\ caller' = [caller EXCEPT ![c] = "refused"]
    /\ Leave(c)
    /\ UNCHANGED <<oper, fence, brokerVars, delivered, calm>>

\* onBeforeSubmit records the intent; the commit is posted once
Commit(c) ==
    /\ caller[c] = "prepared"
    /\ \/ caller' = [caller EXCEPT ![c] = "refused"] /\ UNCHANGED handler
       \/ /\ phase = "up"
          /\ MutationUnlocked
          /\ caller' = [caller EXCEPT ![c] = "committing"]
          /\ handler' = [handler EXCEPT ![c] = "reading"]
       \/ /\ phase = "up" /\ ~MutationUnlocked
          /\ caller' = [caller EXCEPT ![c] = "unknown"] /\ UNCHANGED handler
       \/ /\ phase # "up"
          /\ caller' = [caller EXCEPT ![c] = "recovering"] /\ UNCHANGED handler
    /\ UNCHANGED <<oper, fence, brokerVars, aborted, looking, delivered, calm>>

-----------------------------------------------------------------------------
(* The commit handler.                                                      *)

\* after readJson, without an await: the row is read and claimed
Claim(c) ==
    /\ handler[c] = "reading"
    /\ oper[CallOf[c]] = "prepared"
    /\ ~fence
    /\ oper' = [oper EXCEPT ![CallOf[c]] = "commit_claimed"]
    /\ handler' = [handler EXCEPT ![c] = "resolving"]
    /\ UNCHANGED <<fence, brokerVars, aborted, looking, caller, delivered, calm>>

NotClaimed(c) ==
    /\ handler[c] = "reading"
    /\ fence \/ oper[CallOf[c]] # "prepared"
    /\ IF oper[CallOf[c]] = "completed" THEN Answer(c, "ok")
       ELSE \E v \in Errors(oper[CallOf[c]]) : Answer(c, v)
    /\ Leave(c)
    /\ UNCHANGED <<oper, fence, brokerVars, delivered, calm>>

\* assertDedicatedTarget is awaited before the run is in active or activeRuns
Resolved(c) ==
    /\ handler[c] = "resolving"
    /\ phase = "up"
    /\ handler' = [handler EXCEPT ![c] = "sending"]
    /\ UNCHANGED <<oper, fence, brokerVars, aborted, looking, caller, delivered, calm>>

NotResolved(c) ==
    /\ handler[c] = "resolving"
    /\ oper' = Failed(CallOf[c])
    /\ \/ Answer(c, "unknown")
       \/ phase = "closing" /\ Answer(c, "recovering")    \* a 503
    /\ Leave(c)
    /\ UNCHANGED <<fence, brokerVars, delivered, calm>>

\* bug: the boundary is written whatever the row says
MarkAnyway(c) ==
    /\ handler[c] = "sending"
    /\ oper' = [oper EXCEPT ![CallOf[c]] = "delivery_started"]
    /\ handler' = [handler EXCEPT ![c] = "marked"]
    /\ UNCHANGED <<fence, brokerVars, aborted, looking, caller, delivered, calm>>

\* send's hook: markDeliveryStarted, a compare-and-set
MarkDelivery(c) ==
    /\ handler[c] = "sending"
    /\ oper[CallOf[c]] = "commit_claimed"
    /\ oper' = [oper EXCEPT ![CallOf[c]] = "delivery_started"]
    /\ handler' = [handler EXCEPT ![c] = "marked"]
    /\ UNCHANGED <<fence, brokerVars, aborted, looking, caller, delivered, calm>>

\* the catch block after controller.send threw
Throw(c) ==
    /\ oper' = Failed(CallOf[c])
    /\ \E v \in Errors(Failed(CallOf[c])[CallOf[c]]) : Answer(c, v)
    /\ Leave(c)

SendFails(c) ==
    /\ handler[c] \in {"sending", "watching"}
    /\ Throw(c)
    /\ UNCHANGED <<fence, brokerVars, delivered, calm>>

\* the signal is looked at once more behind the durable boundary
CheckSignal(c) ==
    /\ handler[c] = "marked"
    /\ \/ aborted[c] /\ Throw(c)
       \/ /\ ~aborted[c]
          /\ handler' = [handler EXCEPT ![c] = "pasting"]
          /\ UNCHANGED <<oper, aborted, looking, caller>>
    /\ UNCHANGED <<fence, brokerVars, delivered, calm>>

Paste(c) ==
    /\ handler[c] = "pasting"
    /\ delivered' = [delivered EXCEPT ![CallOf[c]] = @ + 1]
    /\ handler' = [handler EXCEPT ![c] = "watching"]
    /\ UNCHANGED <<oper, fence, brokerVars, aborted, looking, caller, calm>>

\* _pasteAndSubmit throws: the message is in the pane or it is not
PasteFails(c) ==
    /\ handler[c] = "pasting"
    /\ \E n \in {0, 1} : delivered' = [delivered EXCEPT ![CallOf[c]] = @ + n]
    /\ Throw(c)
    /\ UNCHANGED <<fence, brokerVars, calm>>

\* send returned: the final response, or canceled_after_delivery.  The answer is
\* 200 whatever row store.complete returns.
Complete(c) ==
    /\ handler[c] = "watching"
    /\ oper' = Finish(CallOf[c], "completed")
    /\ Answer(c, "ok")
    /\ Leave(c)
    /\ UNCHANGED <<fence, brokerVars, delivered, calm>>

\* POST /v1/session/interrupt, for the operation's run
Interrupt(o) ==
    /\ phase = "up"
    /\ \E c \in Callers : CallOf[c] = o /\ handler[c] \in RunPoints /\ ~aborted[c]
    /\ aborted' = [c \in Callers |-> aborted[c] \/ (CallOf[c] = o /\ handler[c] \in RunPoints)]
    /\ UNCHANGED <<oper, fence, brokerVars, handler, looking, caller, delivered, calm>>

\* the connection closes; before the run exists nobody listens for it
Disconnect(c) ==
    /\ caller[c] = "committing"
    /\ caller' = [caller EXCEPT ![c] = "recovering"]
    /\ aborted' = [aborted EXCEPT ![c] = @ \/ handler[c] \in RunPoints]
    /\ UNCHANGED <<oper, fence, brokerVars, handler, looking, delivered, calm>>

-----------------------------------------------------------------------------
(* _recoverAmbiguousCommit and the reconcile handler.                       *)

\* bug: a prepared operation is reported as completed
AskTrusting(c) ==
    /\ caller[c] = "recovering"
    /\ LET s == oper[CallOf[c]] IN
       \/ /\ phase = "up" /\ s \in {"delivery_started", "outcome_unknown"}
          /\ looking' = looking \cup {c}
          /\ caller' = [caller EXCEPT ![c] = "asking"]
       \/ /\ phase = "up" /\ s = "commit_claimed" /\ UNCHANGED <<looking, caller>>
       \/ /\ phase = "up" /\ s \in {"completed", "prepared"}
          /\ caller' = [caller EXCEPT ![c] = "ok"] /\ UNCHANGED looking
       \/ /\ phase # "up" \/ s \in {"absent", "failed_pre_delivery"}
          /\ caller' = [caller EXCEPT ![c] = "unknown"] /\ UNCHANGED looking
    /\ UNCHANGED <<oper, fence, brokerVars, handler, aborted, delivered, calm>>

\* the row decides at once, or the handler goes on to look for evidence
Ask(c) ==
    /\ caller[c] = "recovering"
    /\ LET s == oper[CallOf[c]] IN
       \/ /\ phase = "up" /\ s \in {"delivery_started", "outcome_unknown"}
          /\ looking' = looking \cup {c}
          /\ caller' = [caller EXCEPT ![c] = "asking"]
       \/ /\ phase = "up" /\ s = "commit_claimed" /\ UNCHANGED <<looking, caller>>
       \/ /\ phase = "up" /\ s = "completed"
          /\ caller' = [caller EXCEPT ![c] = "ok"] /\ UNCHANGED looking
       \/ /\ phase # "up" \/ s \in {"absent", "prepared", "failed_pre_delivery"}
          /\ caller' = [caller EXCEPT ![c] = "unknown"] /\ UNCHANGED looking
    /\ UNCHANGED <<oper, fence, brokerVars, handler, aborted, delivered, calm>>

Reply(c, v) == /\ looking' = looking \ {c}
               /\ caller' = IF caller[c] = "asking" THEN [caller EXCEPT ![c] = v] ELSE caller

\* completeReconciled: marker, session and final response were found in the pane
Evidence(c) ==
    /\ c \in looking
    /\ delivered[CallOf[c]] > 0
    /\ oper[CallOf[c]] \in {"delivery_started", "outcome_unknown", "completed"}
    /\ oper' = [oper EXCEPT ![CallOf[c]] = "completed"]
    /\ Reply(c, "ok")
    /\ UNCHANGED <<fence, brokerVars, handler, aborted, delivered, calm>>

\* the marker was not observed yet, or it cannot be reconciled
NoEvidence(c) ==
    /\ c \in looking
    /\ \E v \in {"recovering", "unknown"} : Reply(c, v)
    /\ UNCHANGED <<oper, fence, brokerVars, handler, aborted, delivered, calm>>

\* bug: the deadline is not looked at between two requests
GiveUpAsking(c) ==
    /\ caller[c] = "asking"
    /\ caller' = [caller EXCEPT ![c] = "unknown"]
    /\ UNCHANGED <<oper, fence, brokerVars, runVars, delivered, calm>>

\* the deadline, or the reconcile request timed out
GiveUp(c) ==
    /\ caller[c] \in {"recovering", "asking"}
    /\ caller' = [caller EXCEPT ![c] = "unknown"]
    /\ UNCHANGED <<oper, fence, brokerVars, runVars, delivered, calm>>

-----------------------------------------------------------------------------
(* The control lane: one panic or unlock after the other.                   *)

\* bug: assertOpen is missing
EnqueueAlways(kind) ==
    /\ phase # "down"
    /\ Len(lane) < MaxLane
    /\ lane' = Append(lane, kind)
    /\ UNCHANGED <<oper, fence, phase, stage, runVars, caller, delivered, calm>>

Enqueue(kind) ==
    /\ phase = "up"
    /\ Len(lane) < MaxLane
    /\ lane' = Append(lane, kind)
    /\ UNCHANGED <<oper, fence, phase, stage, runVars, caller, delivered, calm>>

Head1(kind) == lane # <<>> /\ Head(lane) = kind

AbortRuns == aborted' = [c \in Callers |-> aborted[c] \/ handler[c] \in RunPoints]

\* panicAllImpl up to its first await
PanicBegins ==
    /\ Head1("panic") /\ stage = "none"
    /\ fence' = TRUE
    /\ oper' = Fenced
    /\ AbortRuns
    /\ stage' = "providers"
    /\ UNCHANGED <<phase, lane, handler, looking, caller, delivered, calm>>

\* store.panic throws
PanicFails ==
    /\ Head1("panic") /\ stage = "none"
    /\ lane' = Tail(lane)
    /\ UNCHANGED <<oper, fence, phase, stage, runVars, caller, delivered, calm>>

\* the providers confirmed or not, and the runs drained or the wait timed out
PanicEnds ==
    /\ Head1("panic") /\ stage = "providers"
    /\ \E confirmed \in BOOLEAN : calm' = (calm \/ (confirmed /\ NoRuns))
    /\ lane' = Tail(lane) /\ stage' = "none"
    /\ UNCHANGED <<oper, fence, phase, runVars, caller, delivered>>

\* bug: only the rows are counted
QuiescentRows == \A o \in Ops : ~Active(o)

Quiescent == NoRuns /\ \A o \in Ops : ~Active(o)

UnlockRefused ==
    /\ Head1("unlock") /\ stage = "none"
    /\ ~Quiescent
    /\ lane' = Tail(lane)
    /\ UNCHANGED <<oper, fence, phase, stage, runVars, caller, delivered, calm>>

\* providerRootUnlock, then providerUnlock
UnlockBegins ==
    /\ Head1("unlock") /\ stage = "none"
    /\ Quiescent
    /\ stage' = "root"
    /\ UNCHANGED <<oper, fence, phase, lane, runVars, caller, delivered, calm>>

RootUnlocked ==
    /\ stage = "root"
    /\ stage' = "supervisors"
    /\ UNCHANGED <<oper, fence, phase, lane, runVars, caller, delivered, calm>>

\* not confirmed: store.panic again, but no run is aborted
UnlockFails ==
    /\ stage \in {"root", "supervisors"}
    /\ fence' = TRUE
    /\ oper' = Fenced
    /\ lane' = Tail(lane) /\ stage' = "none"
    /\ UNCHANGED <<phase, runVars, caller, delivered, calm>>

\* unlockPanic throws while a row is active
UnlockEnds ==
    /\ stage = "supervisors"
    /\ IF \A o \in Ops : ~Active(o) THEN fence' = FALSE /\ calm' = FALSE
       ELSE UNCHANGED <<fence, calm>>
    /\ lane' = Tail(lane) /\ stage' = "none"
    /\ UNCHANGED <<oper, phase, runVars, caller, delivered>>

Control == \/ PanicBegins \/ PanicFails \/ PanicEnds
           \/ UnlockRefused \/ UnlockBegins \/ RootUnlocked \/ UnlockFails \/ UnlockEnds

-----------------------------------------------------------------------------
(* The process.                                                             *)

\* close: no new request, and a last panic behind what is in the lane
Close ==
    /\ phase = "up"
    /\ phase' = "closing"
    /\ lane' = Append(lane, "panic")
    /\ UNCHANGED <<oper, fence, stage, runVars, caller, delivered, calm>>

Closed ==
    /\ phase = "closing"
    /\ lane = <<>>
    /\ \A c \in Callers : handler[c] = "none"
    /\ looking = {}
    /\ phase' = "down"
    /\ UNCHANGED <<oper, fence, lane, stage, runVars, caller, delivered, calm>>

\* a message on its way to the pane arrives or does not
Crash ==
    /\ phase # "down"
    /\ phase' = "down"
    /\ lane' = <<>> /\ stage' = "none"
    /\ handler' = [c \in Callers |-> "none"]
    /\ aborted' = [c \in Callers |-> FALSE]
    /\ looking' = {}
    /\ caller' = [c \in Callers |-> CASE caller[c] = "preparing"  -> "refused"
                                      [] caller[c] = "committing" -> "recovering"
                                      [] caller[c] = "asking"     -> "unknown"
                                      [] OTHER                    -> caller[c]]
    /\ \E landed \in SUBSET {c \in Callers : handler[c] = "pasting"} :
          delivered' = [o \in Ops |-> delivered[o] +
                          IF \E c \in landed : CallOf[c] = o THEN 1 ELSE 0]
    /\ UNCHANGED <<oper, fence, calm>>

\* bug: an interrupted delivery is prepared again
RecoverAgain ==
    [o \in Ops |-> IF oper[o] \in {"commit_claimed", "delivery_started"} THEN "prepared"
                   ELSE oper[o]]

\* recoverInterrupted: behind the boundary a row waits for evidence
Recover ==
    [o \in Ops |-> IF oper[o] = "commit_claimed" THEN "prepared" ELSE oper[o]]

Restart ==
    /\ phase = "down"
    /\ phase' = "up"
    /\ oper' = Recover
    /\ UNCHANGED <<fence, lane, stage, runVars, caller, delivered, calm>>

-----------------------------------------------------------------------------
Handle(c) ==
    \/ Prepared(c) \/ PreflightFails(c)
    \/ Claim(c) \/ NotClaimed(c) \/ Resolved(c) \/ NotResolved(c)
    \/ MarkDelivery(c) \/ SendFails(c) \/ CheckSignal(c)
    \/ Paste(c) \/ PasteFails(c) \/ Complete(c)
    \/ Evidence(c) \/ NoEvidence(c)

WorkerNext ==
    \/ \E c \in Callers : Preflight(c) \/ Commit(c) \/ Handle(c) \/ Disconnect(c)
                            \/ Ask(c) \/ GiveUp(c)
    \/ \E o \in Ops : Interrupt(o)
    \/ \E kind \in {"panic", "unlock"} : Enqueue(kind)
    \/ Control \/ Close \/ Closed \/ Crash \/ Restart

WorkerSpec == WorkerInit /\ [][WorkerNext]_vars
=============================================================================
