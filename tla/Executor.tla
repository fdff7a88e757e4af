------------------------------ MODULE Executor ------------------------------
(***************************************************************************)
(* The controller's executor: every process that opens the durable task    *)
(* store (module ExecutorTaskStore), the dispatcher in it that claims,      *)
(* heartbeats, settles and reconciles tasks                                *)
(* (claude-api-server/executor-task-dispatcher.js), the two kinds of        *)
(* execution it starts (executeManagedAskTask and executeTargetSessionTask  *)
(* of claude-api-server/server.js), and the effects those have outside the  *)
(* process: a prompt forwarded to a provider, a message pasted into tmux.   *)
(* Operators marked "bug" are as in ExecutorTaskStore.                      *)
(***************************************************************************)
EXTENDS ExecutorTaskStore, FiniteSets

CONSTANTS
    TargetTasks,    \* task_type target_session_message; the others are managed_ask
    MutatingTasks,  \* managed tasks whose profile has accessMode mutating
    NoWorker,
    Concurrency     \* EXECUTOR_TASK_CONCURRENCY

ASSUME ExecutorAssumption ==
    /\ TargetTasks \subseteq Tasks
    /\ MutatingTasks \subseteq Tasks \ TargetTasks
    /\ NoWorker \notin Workers
    /\ Concurrency \in Nat \ {0}

ManagedTasks == Tasks \ TargetTasks

VARIABLES
    disp,       \* where each process is in its life
    active,     \* the dispatcher's Map: the attempt whose record is current
    run,        \* the attempts under way, current or orphaned
    ext,        \* what each attempt left outside the process; it survives a crash
    delivered,  \* how often the request of a task reached its provider (history)
    answered    \* a verified final answer to it exists

execVars == <<disp, active, run, ext, delivered, answered>>
vars == <<row, reserved, locked, snap, disp, active, run, ext, delivered, answered>>

-----------------------------------------------------------------------------
(* An attempt is named by its lease token.  begun: executeTask was called   *)
(* and nothing is durable yet.  open: the durable stage before the effect   *)
(* is written.  busy: the supervisor refused the launch.  sure: the         *)
(* verified result is durable.  adopted: a recovered record, which only     *)
(* watches work started by an earlier attempt.                              *)

RunStages == {"none", "begun", "open", "busy", "sure", "adopted"}
NoRun == [at |-> "none", by |-> NoWorker, aborted |-> FALSE]
Runs  == [at : RunStages, by : Workers \cup {NoWorker}, aborted : BOOLEAN]

\* waiting: the wrapper process lives and has not been acknowledged.  armed:
\* nothing local can stop the effect any more (a paste under way, or the
\* acknowledgement written to fd4).  working: the provider has the prompt.
ExtStages == {"none", "waiting", "armed", "working"}

Dispatching == {"starting", "running"}

\* Requests are served before the dispatcher starts, and not while stopping.
Serving(w) == disp[w] \in {"idle"} \cup Dispatching

ActiveTasks(w) == {t \in Tasks : active[w][t] # NoToken}

\* _isCurrentRecord: the record is the one in the Map and not orphaned
Current(t, k) == /\ run[t][k].at # "none"
                 /\ run[t][k].by \in Workers
                 /\ active[run[t][k].by][t] = k

Owns(t, k) == Current(t, k) /\ HoldsLease(t, k)

\* crypto.randomBytes(32): a token nothing refers to any more
FreshToken(t, k) == /\ run[t][k] = NoRun
                    /\ ext[t][k] = "none"
                    /\ row[t].lease # k
                    /\ row[t].pid # k
                    /\ \A w \in Workers : active[w][t] # k

\* _interruptRecord on the current records of w for the tasks of S.  A
\* recovered record has no execution to abort: of a managed one the process
\* is signaled, and may exit any time in this model.
Interrupt(w, S) ==
    run' = [t \in Tasks |-> [k \in Tokens |->
        IF t \in S /\ active[w][t] = k /\ run[t][k].at # "adopted" /\ run[t][k].at # "none"
        THEN [run[t][k] EXCEPT !.aborted = TRUE] ELSE run[t][k]]]

\* _finishRecord
EndRun(t, k) ==
    /\ run' = [run EXCEPT ![t][k] = NoRun]
    /\ active' = [w \in Workers |->
                    IF active[w][t] = k THEN [active[w] EXCEPT ![t] = NoToken] ELSE active[w]]

-----------------------------------------------------------------------------
(* Requests to a controller process.                                        *)

\* POST /executor/tasks
Submit(t) ==
    /\ \E w \in Workers : Serving(w)
    /\ SubmitTask(t)
    /\ UNCHANGED execVars

\* POST /cancel-session: the whole call, or one turn of it
CancelCall(w, c, keys, scope) ==
    /\ Serving(w)
    /\ CancelCallTasks(c, keys, scope)
    /\ Interrupt(w, CancelSelection(c, keys, scope))
    /\ UNCHANGED <<disp, active, ext, delivered, answered>>

\* POST /executor/tasks/:id/cancel.  A row whose cancellation is already
\* requested is not written again, its record is interrupted all the same.
CancelTask(w, t) ==
    /\ Serving(w)
    /\ \/ /\ RequestCancellation(t)
          /\ Interrupt(w, IF row[t].state = "running" THEN {t} ELSE {})
       \/ /\ row[t].state = "cancel_requested"
          /\ Interrupt(w, {t})
          /\ UNCHANGED storeVars
    /\ UNCHANGED <<disp, active, ext, delivered, answered>>

\* dispatcher.panic
Panic(w) ==
    /\ Serving(w)
    /\ PanicStore
    /\ Interrupt(w, PanicSelection)
    /\ UNCHANGED <<disp, active, ext, delivered, answered>>

\* The unlock route ends in this one store call; module PanicControl has the
\* rest of it.
Unlock ==
    /\ \E w \in Workers : Serving(w)
    /\ locked
    /\ UnlockPanic
    /\ UNCHANGED execVars

-----------------------------------------------------------------------------
(* Claims and heartbeats.                                                   *)

\* one round of _pump, with _startClaim: a record still in the Map under the
\* same task is overwritten
Claim(w, t, k) ==
    /\ disp[w] = "running"
    /\ Cardinality(ActiveTasks(w)) < Concurrency
    /\ FreshToken(t, k)
    /\ ClaimNext(t, k)
    /\ active' = [active EXCEPT ![w][t] = k]
    /\ run' = [run EXCEPT ![t][k] = [at |-> "begun", by |-> w, aborted |-> FALSE]]
    /\ UNCHANGED <<disp, ext, delivered, answered>>

\* _startHeartbeat: the lease is renewed; a cancellation another process
\* requested is noticed here
HeartbeatTick(w, t) ==
    LET k == active[w][t] IN
    /\ disp[w] \in Dispatching
    /\ k # NoToken
    /\ Heartbeat(t, k)
    /\ IF row[t].state = "cancel_requested" THEN Interrupt(w, {t}) ELSE UNCHANGED run
    /\ UNCHANGED <<disp, active, ext, delivered, answered>>

\* The catch of the heartbeat: the record is orphaned, what it started is
\* told to abort and goes on until it notices.
Orphan(w, t, k) ==
    /\ active' = [active EXCEPT ![w][t] = NoToken]
    /\ run' = [run EXCEPT ![t][k] = IF @.at \in {"none", "adopted"} THEN NoRun
                                    ELSE [@ EXCEPT !.aborted = TRUE]]
    /\ UNCHANGED <<row, reserved, locked, snap, disp, ext, delivered, answered>>

HeartbeatRejected(w, t) ==
    LET k == active[w][t] IN
    /\ disp[w] \in Dispatching
    /\ k # NoToken
    /\ ~HoldsLease(t, k)
    /\ Orphan(w, t, k)

\* the database is busy or its disk full: the lease is still in the row
HeartbeatFails(w, t) ==
    LET k == active[w][t] IN
    /\ disp[w] \in Dispatching
    /\ k # NoToken
    /\ HoldsLease(t, k)
    /\ Orphan(w, t, k)

-----------------------------------------------------------------------------
(* Settlement.                                                              *)

\* _settleClaimSuccess with a verified result
SettleSuccess(t, k) ==
    /\ EndRun(t, k)
    /\ \/ Owns(t, k) /\ CompleteTask(t, k, row[t].state = "cancel_requested")
       \/ ~Owns(t, k) /\ UNCHANGED storeVars
    /\ UNCHANGED <<disp, ext, delivered, answered>>

\* _settleClaimFailure with the code c, capacity denials aside
SettleFailure(t, k, c) ==
    LET stopping == disp[run[t][k].by] = "stopping"
        canceled == row[t].state = "cancel_requested" /\ c # "outcome_unknown"
    IN
    /\ EndRun(t, k)
    /\ \/ Owns(t, k) /\ canceled /\ AcknowledgeCanceled(t, k)
       \/ Owns(t, k) /\ ~canceled /\ FailTask(t, k, IF stopping THEN "outcome_unknown" ELSE c)
       \/ ~Owns(t, k) /\ UNCHANGED storeVars
    /\ UNCHANGED <<disp, ext, delivered, answered>>

\* nothing durable was written by this attempt.  A managed one may have
\* spawned its wrapper and failed to record who it is: it is killed, and a
\* mutation counts as possibly done.
BeginFails(t, k, c) ==
    /\ run[t][k].at = "begun"
    /\ c \in CASE t \in TargetTasks   -> {"refused"}
               [] t \in MutatingTasks -> {"refused", "outcome_unknown"}
               [] OTHER               -> {"refused", "failed"}
    /\ SettleFailure(t, k, c)

-----------------------------------------------------------------------------
(* A target-session message: TmuxAgentController.send under                 *)
(* executeTargetSessionTask.                                                *)

\* bug: the paste starts on an attempt not yet written
RecordAttemptLate(t, k) ==
    /\ t \in TargetTasks
    /\ run[t][k].at = "begun"
    /\ Current(t, k)
    /\ Heartbeat(t, k)
    /\ run' = [run EXCEPT ![t][k].at = "open"]
    /\ ext' = [ext EXCEPT ![t][k] = IF run[t][k].aborted THEN "none" ELSE "armed"]
    /\ UNCHANGED <<disp, active, delivered, answered>>

\* bug: the abort signal is not looked at after the write
RecordAttemptAborted(t, k) ==
    /\ t \in TargetTasks
    /\ run[t][k].at = "begun"
    /\ Current(t, k)
    /\ RecordExecution(t, k, "attempt", NoToken)
    /\ run' = [run EXCEPT ![t][k].at = "open"]
    /\ ext' = [ext EXCEPT ![t][k] = "armed"]
    /\ UNCHANGED <<disp, active, delivered, answered>>

\* onBeforeSubmit: the attempt is durable before anything is pasted.  The
\* abort signal is looked at once more, right after.
RecordAttempt(t, k) ==
    /\ t \in TargetTasks
    /\ run[t][k].at = "begun"
    /\ Current(t, k)
    /\ RecordExecution(t, k, "attempt", NoToken)
    /\ run' = [run EXCEPT ![t][k].at = "open"]
    /\ ext' = [ext EXCEPT ![t][k] = IF run[t][k].aborted THEN "none" ELSE "armed"]
    /\ UNCHANGED <<disp, active, delivered, answered>>

\* _pasteAndSubmit reaches the pane, through a broker that outlives us
Land(t, k) ==
    /\ t \in TargetTasks
    /\ ext[t][k] = "armed"
    /\ ext' = [ext EXCEPT ![t][k] = "none"]
    /\ delivered' = [delivered EXCEPT ![t] = @ + 1]
    /\ UNCHANGED <<storeVars, disp, active, run, answered>>

\* or it does not
Vanish(t, k) ==
    /\ t \in TargetTasks
    /\ ext[t][k] = "armed"
    /\ ext' = [ext EXCEPT ![t][k] = "none"]
    /\ UNCHANGED <<storeVars, disp, active, run, delivered, answered>>

\* the final message of the marked operation is in the provider's transcript
Answer(t) ==
    /\ t \in TargetTasks
    /\ delivered[t] > 0
    /\ ~answered[t]
    /\ answered' = [answered EXCEPT ![t] = TRUE]
    /\ UNCHANGED <<storeVars, disp, active, run, ext, delivered>>

\* send returned: answered, or canceled with the delivery observed
RecordVerified(t, k) ==
    /\ t \in TargetTasks
    /\ run[t][k].at = "open"
    /\ ext[t][k] = "none"
    /\ delivered[t] > 0
    /\ answered[t] \/ run[t][k].aborted
    /\ Current(t, k)
    /\ RecordExecution(t, k, "verified", NoToken)
    /\ run' = [run EXCEPT ![t][k].at = "sure"]
    /\ UNCHANGED <<disp, active, ext, delivered, answered>>

TargetReturns(t, k) ==
    /\ run[t][k].at = "sure"
    /\ SettleSuccess(t, k)

\* bug: an error of the paste is reported like one before it
TargetThrowsPlainly(t, k) ==
    /\ t \in TargetTasks
    /\ run[t][k].at = "open"
    /\ SettleFailure(t, k, "refused")

\* any error once the attempt is durable, the paste possibly still under way
TargetThrows(t, k) ==
    /\ t \in TargetTasks
    /\ run[t][k].at = "open"
    /\ SettleFailure(t, k, "outcome_unknown")

-----------------------------------------------------------------------------
(* A managed request: runAgentOnce under executeManagedAskTask, and the     *)
(* wrapper process it spawns.                                               *)

\* the second shutdown fence, the spawn, and onAgentStarted
Spawn(t, k) ==
    /\ t \in ManagedTasks
    /\ run[t][k].at = "begun"
    /\ Current(t, k)
    /\ disp[run[t][k].by] # "stopping"
    /\ RecordExecution(t, k, "pid", k)
    /\ run' = [run EXCEPT ![t][k].at = "open"]
    /\ ext' = [ext EXCEPT ![t][k] = "waiting"]
    /\ UNCHANGED <<disp, active, delivered, answered>>

\* The wrapper reports on fd3, once; the status is persisted first, and only
\* an accepted launch is then acknowledged on fd4.  A record that is no longer
\* current, or has lost its lease, throws here and nothing is acknowledged.
LaunchStatus(t, k, stage) ==
    /\ run[t][k].at = "open"
    /\ ext[t][k] = "waiting"
    /\ Current(t, k)
    /\ RecordExecution(t, k, stage, k)
    /\ UNCHANGED <<disp, active, delivered, answered>>

\* bug: acknowledged whether or not the status could be written
AcknowledgeFirst(t, k) ==
    /\ run[t][k].at = "open"
    /\ ext[t][k] = "waiting"
    /\ ext' = [ext EXCEPT ![t][k] = "armed"]
    /\ UNCHANGED <<storeVars, disp, active, run, delivered, answered>>

Accepted(t, k) ==
    /\ LaunchStatus(t, k, "started")
    /\ ext' = [ext EXCEPT ![t][k] = "armed"]
    /\ UNCHANGED run

Refused(t, k) ==
    /\ LaunchStatus(t, k, "busy")
    /\ ext' = [ext EXCEPT ![t][k] = "none"]
    /\ run' = [run EXCEPT ![t][k].at = "busy"]

LaunchUnknown(t, k) ==
    /\ LaunchStatus(t, k, "unknown")
    /\ ext' = [ext EXCEPT ![t][k] = "none"]
    /\ UNCHANGED run

\* the wrapper has its acknowledgement and forwards the prompt
Forward(t, k) ==
    /\ t \in ManagedTasks
    /\ ext[t][k] = "armed"
    /\ ext' = [ext EXCEPT ![t][k] = "working"]
    /\ delivered' = [delivered EXCEPT ![t] = @ + 1]
    /\ UNCHANGED <<storeVars, disp, active, run, answered>>

\* the wrapper ends: by itself, killed or timed out
ChildExit(t, k) ==
    /\ t \in ManagedTasks
    /\ ext[t][k] # "none"
    /\ ext' = [ext EXCEPT ![t][k] = "none"]
    /\ \/ UNCHANGED answered
       \/ ext[t][k] = "working" /\ answered' = [answered EXCEPT ![t] = TRUE]
    /\ UNCHANGED <<storeVars, disp, active, run, delivered>>

\* bug: any exit counts as a verified answer
ReturnsUnverified(t, k) ==
    /\ t \in ManagedTasks
    /\ run[t][k].at = "open"
    /\ ext[t][k] = "none"
    /\ ~run[t][k].aborted
    /\ SettleSuccess(t, k)

\* the close handler, exit code 0 and not canceled meanwhile
ManagedReturns(t, k) ==
    /\ t \in ManagedTasks
    /\ run[t][k].at = "open"
    /\ ext[t][k] = "none"
    /\ answered[t]
    /\ ~run[t][k].aborted
    /\ SettleSuccess(t, k)

\* bug: a mutation is reported like a question
ManagedFailsPlainly(t, k) ==
    /\ t \in ManagedTasks
    /\ run[t][k].at = "open"
    /\ ext[t][k] = "none"
    /\ SettleFailure(t, k, "failed")

\* the close handler otherwise: a mutation whose wrapper was spawned may have
\* happened
ManagedFails(t, k) ==
    /\ t \in ManagedTasks
    /\ run[t][k].at = "open"
    /\ ext[t][k] = "none"
    /\ SettleFailure(t, k,
         IF t \in MutatingTasks \/ (row[t].exec = "unknown" /\ ~run[t][k].aborted)
         THEN "outcome_unknown" ELSE "failed")

\* A capacity denial goes back to the queue, unless the task is canceled, the
\* attempt aborted or the process stopping.
ManagedBusy(t, k) ==
    LET retry == /\ row[t].state = "running"
                 /\ ~run[t][k].aborted
                 /\ disp[run[t][k].by] # "stopping"
    IN
    /\ run[t][k].at = "busy"
    /\ \/ /\ Owns(t, k) /\ retry
          /\ DeferLeasedTask(t, k)
          /\ EndRun(t, k)
          /\ UNCHANGED <<disp, ext, delivered, answered>>
       \/ /\ ~(Owns(t, k) /\ retry)
          /\ SettleFailure(t, k, IF t \in MutatingTasks /\ run[t][k].aborted
                                 THEN "outcome_unknown" ELSE "failed")

-----------------------------------------------------------------------------
(* Reconciliation: at start and every reconciliationPollMs.                 *)

\* one candidate of the list; the record of a task of our own comes first
Inspect(w, t) ==
    /\ disp[w] \in Dispatching
    /\ snap[w][t] = NoSnap
    /\ active[w][t] = NoToken
    /\ ListCandidate(w, t)
    /\ UNCHANGED execVars

\* What follows the awaits of _reconcileTargetSessionTask and its siblings
\* acts on the row as it was listed.
Seen(w, t) == snap[w][t]

Settled(w, t) == Reconciled(w, t) /\ UNCHANGED execVars

\* bug: an acknowledged launch is retried
UntouchedOrStarted(t, s) ==
    s.exec \in IF t \in TargetTasks THEN {"none"} ELSE {"busy", "started"}

\* No stage was persisted, so nothing was pasted.  A managed task qualifies
\* with a durable capacity denial.
Untouched(t, s) == s.exec = IF t \in TargetTasks THEN "none" ELSE "busy"

RequeueUntouched(w, t) ==
    /\ Untouched(t, Seen(w, t))
    /\ Seen(w, t).state # "cancel_requested"
    /\ Requeue(w, t)
    /\ Settled(w, t)

CancelUntouched(w, t) ==
    /\ Untouched(t, Seen(w, t))
    /\ Seen(w, t).state = "cancel_requested"
    /\ ReconcileClose(w, t, "canceled", "none")
    /\ Settled(w, t)

CompleteVerified(w, t) ==
    /\ Seen(w, t).exec = "verified"
    /\ ReconcileClose(w, t, "completed", "none")
    /\ Settled(w, t)

\* bug: the marker alone is taken for an answer
ReconcileUnverified(w, t) ==
    /\ Seen(w, t).exec = "attempt"
    /\ ReconcileClose(w, t, IF Seen(w, t).state = "cancel_requested"
                            THEN "canceled" ELSE "completed", "none")
    /\ Settled(w, t)

\* reconcileOperation found the operation's marker and its final answer
ReconcileAnswered(w, t) ==
    /\ Seen(w, t).exec = "attempt"
    /\ answered[t]
    /\ ReconcileClose(w, t, IF Seen(w, t).state = "cancel_requested"
                            THEN "canceled" ELSE "completed", "none")
    /\ Settled(w, t)

\* the marker without an answer past the deadline, or nothing to be found
ReconcileUnanswered(w, t) ==
    /\ Seen(w, t).exec = "attempt"
    /\ \E c \in {"outcome_unknown"} \cup (IF delivered[t] > 0 THEN {"response_timeout"} ELSE {}) :
          ReconcileClose(w, t, "failed", c)
    /\ Settled(w, t)

\* _trackTargetRecovery and _trackRecovered, whatever the concurrency
AdoptAttempt(w, t, k) ==
    /\ FreshToken(t, k)
    /\ Adopt(w, t, k)
    /\ Reconciled(w, t)
    /\ active' = [active EXCEPT ![w][t] = k]
    /\ run' = [run EXCEPT ![t][k] = [at |-> "adopted", by |-> w, aborted |-> FALSE]]
    /\ UNCHANGED <<disp, ext, delivered, answered>>

\* still before the deadline: in progress, or the inspection failed
MonitorTarget(w, t, k) ==
    /\ Seen(w, t).exec = "attempt"
    /\ AdoptAttempt(w, t, k)

\* the wrapper of a managed task is alive
HasIdentity(t, s) == t \in ManagedTasks /\ s.exec \in {"pid", "unknown", "started"}

AdoptProcess(w, t, k) ==
    /\ HasIdentity(t, Seen(w, t))
    /\ row[t].pid # NoToken
    /\ ext[t][row[t].pid] # "none"
    /\ AdoptAttempt(w, t, k)

\* or it is gone, and what it did is unknown
ProcessGone(w, t) ==
    /\ HasIdentity(t, Seen(w, t))
    /\ row[t].pid # NoToken
    /\ ext[t][row[t].pid] = "none"
    /\ ReconcileClose(w, t, "failed", "outcome_unknown")
    /\ Settled(w, t)

\* The row changed since it was listed, or it is a managed one without a
\* process identity, which is left alone for good.
Defer(w, t) ==
    /\ \/ snap[w][t].mark = "stale"
       \/ snap[w][t].mark = "fresh" /\ t \in ManagedTasks /\ snap[w][t].exec = "none"
    /\ snap' = [snap EXCEPT ![w][t] = NoSnap]
    /\ UNCHANGED <<row, reserved, locked, execVars>>

-----------------------------------------------------------------------------
(* Recovered records are polled while the dispatcher runs.                  *)

Polling(t, k) == /\ run[t][k].at = "adopted"
                 /\ Current(t, k)
                 /\ disp[run[t][k].by] = "running"

\* somebody else closed the row
PollTerminal(t, k) ==
    /\ Polling(t, k)
    /\ Terminal(t)
    /\ EndRun(t, k)
    /\ UNCHANGED <<storeVars, disp, ext, delivered, answered>>

\* _pollRecovered
PollProcess(t, k) ==
    /\ Polling(t, k)
    /\ t \in ManagedTasks
    /\ HoldsLease(t, k)
    /\ row[t].pid # NoToken
    /\ ext[t][row[t].pid] = "none"
    /\ FailTask(t, k, "outcome_unknown")
    /\ EndRun(t, k)
    /\ UNCHANGED <<disp, ext, delivered, answered>>

\* _pollTargetRecovery.  The row is read before the await and not again, so a
\* cancellation requested meanwhile does not soften the failure; a completion
\* it meets is refused by the store and polled again.
PollTarget(t, k) ==
    /\ Polling(t, k)
    /\ t \in TargetTasks
    /\ \/ answered[t] /\ row[t].state = "running" /\ CompleteTask(t, k, FALSE)
       \/ delivered[t] > 0 /\ AcknowledgeCanceled(t, k)
       \/ delivered[t] > 0 /\ FailTask(t, k, "response_timeout")
       \/ FailTask(t, k, "outcome_unknown")
    /\ EndRun(t, k)
    /\ UNCHANGED <<disp, ext, delivered, answered>>

-----------------------------------------------------------------------------
(* The life of a process.                                                   *)

NoSnaps(w) == [snap EXCEPT ![w] = [t \in Tasks |-> NoSnap]]

\* what the attempts of w leave behind when its process is gone
RunsWithout(w) == [t \in Tasks |-> [k \in Tokens |->
                      IF run[t][k].by = w THEN NoRun ELSE run[t][k]]]

Boot(w) ==
    /\ disp[w] = "down"
    /\ disp' = [disp EXCEPT ![w] = "idle"]
    /\ UNCHANGED <<storeVars, active, run, ext, delivered, answered>>

Start(w) ==
    /\ disp[w] = "idle"
    /\ disp' = [disp EXCEPT ![w] = "starting"]
    /\ UNCHANGED <<storeVars, active, run, ext, delivered, answered>>

\* every candidate was dealt with
StartDone(w) ==
    /\ disp[w] = "starting"
    /\ snap[w] = [t \in Tasks |-> NoSnap]
    /\ disp' = [disp EXCEPT ![w] = "running"]
    /\ UNCHANGED <<storeVars, active, run, ext, delivered, answered>>

\* the rows w may still write through a current record
OwnedBy(w) == {t \in Tasks : active[w][t] # NoToken /\ HoldsLease(t, active[w][t])}

\* Drop the records of w, making of each row it owns what left holds.
Abandon(w, left) ==
    /\ row' = [t \in Tasks |-> IF t \in OwnedBy(w) THEN left[t] ELSE row[t]]
    /\ snap' = [v \in Workers |-> [t \in Tasks |->
          IF v = w THEN NoSnap
          ELSE IF t \in OwnedBy(w) /\ snap[v][t].mark = "fresh"
          THEN [snap[v][t] EXCEPT !.mark = "stale"] ELSE snap[v][t]]]
    /\ active' = [active EXCEPT ![w] = [t \in Tasks |-> NoToken]]
    /\ UNCHANGED <<reserved, locked, ext, delivered, answered>>

\* _resetAfterStartFailure: the leases just adopted are released
StartFails(w) ==
    /\ disp[w] = "starting"
    /\ Abandon(w, [t \in Tasks |-> ReleasedRow(row[t])])
    /\ run' = RunsWithout(w)
    /\ disp' = [disp EXCEPT ![w] = "idle"]

\* The first half of shutdown: claims and sweeps end, records are interrupted
\* and given time to settle.
Shutdown(w) ==
    /\ disp[w] \in Dispatching
    /\ disp' = [disp EXCEPT ![w] = "stopping"]
    /\ snap' = NoSnaps(w)
    /\ Interrupt(w, Tasks)
    /\ UNCHANGED <<row, reserved, locked, active, ext, delivered, answered>>

\* The second half, by the deadline: what a later start can reconcile is
\* released, the rest is closed as unknown, and the process exits.
ShutdownEnd(w) ==
    /\ disp[w] = "stopping"
    /\ Abandon(w, [t \in Tasks |-> IF t \in TargetTasks \/ row[t].pid # NoToken
                                   THEN ReleasedRow(row[t])
                                   ELSE ClosedRow(row[t], "failed", "outcome_unknown")])
    /\ run' = RunsWithout(w)
    /\ disp' = [disp EXCEPT ![w] = "down"]

Crash(w) ==
    /\ disp[w] # "down"
    /\ disp' = [disp EXCEPT ![w] = "down"]
    /\ active' = [active EXCEPT ![w] = [t \in Tasks |-> NoToken]]
    /\ run' = RunsWithout(w)
    /\ snap' = NoSnaps(w)
    /\ UNCHANGED <<row, reserved, locked, ext, delivered, answered>>

-----------------------------------------------------------------------------

Init ==
    /\ StoreInit
    /\ disp = [w \in Workers |-> "down"]
    /\ active = [w \in Workers |-> [t \in Tasks |-> NoToken]]
    /\ run = [t \in Tasks |-> [k \in Tokens |-> NoRun]]
    /\ ext = [t \in Tasks |-> [k \in Tokens |-> "none"]]
    /\ delivered = [t \in Tasks |-> 0]
    /\ answered = [t \in Tasks |-> FALSE]

\* requests, and the clock
Outside ==
    \/ \E t \in Tasks : Submit(t)
    \/ \E w \in Workers, c \in Calls, scope \in {"call", "task"},
          keys \in {{}} \cup {{t} : t \in Tasks} : CancelCall(w, c, keys, scope)
    \/ \E w \in Workers, t \in Tasks : CancelTask(w, t)
    \/ \E w \in Workers : Panic(w)
    \/ Unlock
    \/ \E t \in Tasks : LeaseExpires(t) /\ UNCHANGED execVars

\* what a dispatcher does with a task
Dispatch(w, t) ==
    \/ \E k \in Tokens : Claim(w, t, k)
    \/ HeartbeatTick(w, t)
    \/ HeartbeatRejected(w, t)

\* what an attempt does in its process
Attempt(t, k) ==
    \/ \E c \in Codes : BeginFails(t, k, c)
    \/ RecordAttempt(t, k) \/ RecordVerified(t, k)
    \/ TargetReturns(t, k) \/ TargetThrows(t, k)
    \/ Spawn(t, k)
    \/ Accepted(t, k) \/ Refused(t, k) \/ LaunchUnknown(t, k)
    \/ ManagedReturns(t, k) \/ ManagedFails(t, k) \/ ManagedBusy(t, k)

\* what an attempt does outside it
Effect(t, k) ==
    \/ Land(t, k) \/ Vanish(t, k)
    \/ Forward(t, k) \/ ChildExit(t, k)

Reconciliation(w, t) ==
    \/ Inspect(w, t)
    \/ RequeueUntouched(w, t) \/ CancelUntouched(w, t) \/ CompleteVerified(w, t)
    \/ ReconcileAnswered(w, t) \/ ReconcileUnanswered(w, t)
    \/ ProcessGone(w, t) \/ Defer(w, t)
    \/ \E k \in Tokens : MonitorTarget(w, t, k) \/ AdoptProcess(w, t, k)

Poll(t, k) == PollTerminal(t, k) \/ PollProcess(t, k) \/ PollTarget(t, k)

Lifecycle(w) == Boot(w) \/ Start(w) \/ StartDone(w) \/ ShutdownEnd(w)

Fault(w) ==
    \/ Crash(w) \/ Shutdown(w) \/ StartFails(w)
    \/ \E t \in Tasks : HeartbeatFails(w, t)

Next ==
    \/ Outside
    \/ \E w \in Workers : Lifecycle(w) \/ Fault(w)
    \/ \E w \in Workers, t \in Tasks : Dispatch(w, t) \/ Reconciliation(w, t)
    \/ \E t \in Tasks, k \in Tokens : Attempt(t, k) \/ Effect(t, k) \/ Poll(t, k)
    \/ \E t \in Tasks : Answer(t)
    \/ \E t \in Tasks : DelayElapses(t) /\ UNCHANGED execVars

Spec == Init /\ [][Next]_vars
=============================================================================
