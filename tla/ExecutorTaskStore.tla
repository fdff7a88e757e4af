-------------------------- MODULE ExecutorTaskStore --------------------------
(***************************************************************************)
(* The durable executor queue of the controller,                           *)
(* claude-api-server/executor-task-store.js: one SQLite table of tasks,    *)
(* one of cancellation reservations and the panic singleton.  Every method *)
(* of the class is one immediate transaction, so every operator below is   *)
(* one atomic step on the variables of this module; a method that throws   *)
(* is an operator that is not enabled.  The processes that call the store  *)
(* are in module Executor.                                                 *)
(* An operator marked "bug" is used by no other: it is what its successor  *)
(* would be with a plausible mistake in the code, and the properties are    *)
(* checked to notice it.                                                   *)
(***************************************************************************)
EXTENDS Naturals

CONSTANTS
    Tasks,        \* one idempotency key, and the one row it may ever have
    VoiceTasks,   \* the rows with voice_origin = 1
    Calls,        \* call ids
    CallOf,       \* call_id of each task
    Workers,      \* processes that open the store
    Tokens,       \* lease tokens (32 random bytes in the code)
    NoToken

ASSUME StoreAssumption ==
    /\ VoiceTasks \subseteq Tasks
    /\ CallOf \in [Tasks -> Calls]
    /\ NoToken \notin Tokens

VARIABLES
    row,          \* executor_tasks, by idempotency key
    reserved,     \* executor_cancellation_reservations: keys canceled in advance
    locked,       \* executor_control.panic_locked
    snap          \* the row each reconciler read last, and whether its revision is still the row's

storeVars == <<row, reserved, locked, snap>>

-----------------------------------------------------------------------------
(* Rows.  "absent" is a key never submitted.  exec is the stage in          *)
(* execution_json, pid the attempt whose process identity it holds.  live   *)
(* is lease_expires_at > now, due is available_at <= now: the clock is      *)
(* abstracted to the moment either flips.  code is error_code.              *)

TaskStates   == {"absent", "queued", "running", "cancel_requested",
                 "completed", "failed", "canceled"}
LeasedStates == {"running", "cancel_requested"}
TerminalStates == {"completed", "failed", "canceled"}
Stages == {"none",        \* execution_json IS NULL
           "pid",         \* a provider wrapper was spawned, its pid is known
           "busy",        \* provider_not_started_busy
           "unknown",     \* provider_execution_outcome_unknown
           "started",     \* provider_started
           "attempt",     \* delivery_attempt_started
           "verified"}    \* delivery_verified, with its result
Codes == {"none", "refused", "failed", "response_timeout", "outcome_unknown"}

Rows == [state : TaskStates, exec : Stages, pid : Tokens \cup {NoToken},
         lease : Tokens \cup {NoToken}, live : BOOLEAN, due : BOOLEAN, code : Codes]

AbsentRow == [state |-> "absent", exec |-> "none", pid |-> NoToken, lease |-> NoToken,
              live |-> FALSE, due |-> FALSE, code |-> "none"]

Snaps == [mark : {"none", "fresh", "stale"}, state : TaskStates, exec : Stages]
NoSnap == [mark |-> "none", state |-> "absent", exec |-> "none"]

Leased(t)   == row[t].state \in LeasedStates
Terminal(t) == row[t].state \in TerminalStates
Reserved(t) == t \in VoiceTasks /\ t \in reserved

\* getPanicStatus().quiesced
Quiesced == \A t \in VoiceTasks : row[t].state \in {"absent"} \cup TerminalStates

\* _assertLease.  The token implies the worker_id: nobody else ever learns it.
HoldsLease(t, k) == Leased(t) /\ k # NoToken /\ row[t].lease = k

\* Every UPDATE of a row bumps its revision: what readers hold of S is stale.
Touch(S) ==
    snap' = [w \in Workers |-> [t \in Tasks |->
        IF t \in S /\ snap[w][t].mark = "fresh"
        THEN [snap[w][t] EXCEPT !.mark = "stale"] ELSE snap[w][t]]]

StoreInit ==
    /\ row = [t \in Tasks |-> AbsentRow]
    /\ reserved = {}
    /\ locked = FALSE
    /\ snap = [w \in Workers |-> [t \in Tasks |-> NoSnap]]

-----------------------------------------------------------------------------
(* Submission and claims.                                                   *)

\* bug: the panic lock is not looked at
SubmitTaskUnlocked(t) ==
    /\ row[t].state = "absent"
    /\ row' = [row EXCEPT ![t].state = IF Reserved(t) THEN "canceled" ELSE "queued",
                          ![t].due = ~Reserved(t)]
    /\ UNCHANGED <<reserved, locked, snap>>

\* A second submission of the key changes nothing.  A reservation wins even
\* under panic: the row is born canceled.
SubmitTask(t) ==
    /\ row[t].state = "absent"
    /\ \/ /\ Reserved(t)
          /\ row' = [row EXCEPT ![t].state = "canceled"]
       \/ /\ ~Reserved(t)
          /\ locked => t \notin VoiceTasks
          /\ row' = [row EXCEPT ![t].state = "queued", ![t].due = TRUE]
    /\ UNCHANGED <<reserved, locked, snap>>

\* Any claimable row may be the next one: creation times collide within a
\* millisecond and ids are random, and no property depends on the order.
\* execution_json is NOT among the columns the claim resets.
ClaimNext(t, k) ==
    /\ row[t].state = "queued"
    /\ row[t].due
    /\ locked => t \notin VoiceTasks
    /\ row' = [row EXCEPT ![t].state = "running", ![t].lease = k,
                          ![t].live = TRUE, ![t].due = FALSE]
    /\ Touch({t})
    /\ UNCHANGED <<reserved, locked>>

\* The lease check is by token alone: an expired lease that nobody took over
\* is renewed.
Heartbeat(t, k) ==
    /\ HoldsLease(t, k)
    /\ row' = [row EXCEPT ![t].live = TRUE]
    /\ Touch({t})
    /\ UNCHANGED <<reserved, locked>>

\* heartbeat() with an execution to persist
RecordExecution(t, k, stage, p) ==
    /\ HoldsLease(t, k)
    /\ row' = [row EXCEPT ![t].live = TRUE, ![t].exec = stage, ![t].pid = p]
    /\ Touch({t})
    /\ UNCHANGED <<reserved, locked>>

\* bug: execution_json survives the deferral
DeferKeepingExecution(t, k) ==
    /\ HoldsLease(t, k)
    /\ row[t].state = "running"
    /\ row' = [row EXCEPT ![t].state = "queued", ![t].lease = NoToken, ![t].live = FALSE]
    /\ Touch({t})
    /\ UNCHANGED <<reserved, locked>>

DeferLeasedTask(t, k) ==
    /\ HoldsLease(t, k)
    /\ row[t].state = "running"
    /\ row' = [row EXCEPT ![t].state = "queued", ![t].lease = NoToken, ![t].live = FALSE,
                          ![t].exec = "none", ![t].pid = NoToken, ![t].due = FALSE]
    /\ Touch({t})
    /\ UNCHANGED <<reserved, locked>>

\* releaseLease: what it makes of the row
ReleasedRow(r) == [r EXCEPT !.lease = NoToken, !.live = FALSE]

-----------------------------------------------------------------------------
(* Terminal writes by the lease holder.                                     *)

\* execution_json survives the terminal write.
ClosedRow(r, s, c) ==
    [r EXCEPT !.state = s, !.code = c, !.lease = NoToken, !.live = FALSE]

CloseRow(t, s, c) ==
    /\ row' = [row EXCEPT ![t] = ClosedRow(row[t], s, c)]
    /\ Touch({t})
    /\ UNCHANGED <<reserved, locked>>

CompleteTask(t, k, allowAfterCancellation) ==
    /\ HoldsLease(t, k)
    /\ row[t].state = "cancel_requested" => allowAfterCancellation
    /\ CloseRow(t, "completed", "none")

FailTask(t, k, c) ==
    /\ HoldsLease(t, k)
    /\ CloseRow(t, "failed", c)

AcknowledgeCanceled(t, k) ==
    /\ HoldsLease(t, k)
    /\ row[t].state = "cancel_requested"
    /\ CloseRow(t, "canceled", "none")

-----------------------------------------------------------------------------
(* Cancellation and panic.                                                  *)

\* for a row of the selection: a queued one ends here, a leased one is told
CancelRow(r) ==
    [r EXCEPT !.state = IF r.state = "queued" THEN "canceled" ELSE "cancel_requested"]

\* bug: the revision is not bumped
CancelSilently(t) ==
    /\ row[t].state \in {"queued", "running"}
    /\ row' = [row EXCEPT ![t] = CancelRow(row[t])]
    /\ UNCHANGED <<reserved, locked, snap>>

RequestCancellation(t) ==
    /\ row[t].state \in {"queued", "running"}
    /\ row' = [row EXCEPT ![t] = CancelRow(row[t])]
    /\ Touch({t})
    /\ UNCHANGED <<reserved, locked>>

\* the rows cancelCallTasks selects: the whole call, or one turn of it
CancelSelection(c, keys, scope) ==
    {t \in Tasks : /\ CallOf[t] = c
                   /\ row[t].state \in {"queued", "running"}
                   /\ scope = "task" => t \in keys}

\* keys holds the idempotency key to reserve, if the request named one
CancelCallTasks(c, keys, scope) ==
    LET S == CancelSelection(c, keys, scope) IN
    /\ scope = "task" => keys # {}
    /\ reserved' = reserved \cup keys
    /\ row' = [t \in Tasks |-> IF t \in S THEN CancelRow(row[t]) ELSE row[t]]
    /\ Touch(S)
    /\ UNCHANGED locked

\* bug: closed rows are selected too
PanicSelectsAll == {t \in VoiceTasks : row[t].state # "absent"}

PanicSelection == {t \in VoiceTasks : row[t].state \in {"queued"} \cup LeasedStates}

PanicStore ==
    /\ locked' = TRUE
    /\ row' = [t \in Tasks |-> IF t \in PanicSelection THEN CancelRow(row[t]) ELSE row[t]]
    /\ Touch(PanicSelection)
    /\ UNCHANGED reserved

\* The transaction itself does not look at the tasks.
UnlockPanic ==
    /\ locked' = FALSE
    /\ UNCHANGED <<row, reserved, snap>>

-----------------------------------------------------------------------------
(* Reconciliation by a process w that does not hold the lease.              *)

\* bug: only released leases are listed, an expired one never is
ListReleased(w, t) ==
    /\ Leased(t)
    /\ row[t].lease = NoToken
    /\ snap' = [snap EXCEPT ![w][t] =
                    [mark |-> "fresh", state |-> row[t].state, exec |-> row[t].exec]]
    /\ UNCHANGED <<row, reserved, locked>>

\* listReconciliationCandidates
ListCandidate(w, t) ==
    /\ Leased(t)
    /\ row[t].lease = NoToken \/ ~row[t].live
    /\ snap' = [snap EXCEPT ![w][t] =
                    [mark |-> "fresh", state |-> row[t].state, exec |-> row[t].exec]]
    /\ UNCHANGED <<row, reserved, locked>>

\* bug: expectedRevision is not compared
ReconcilableUnchecked(w, t) ==
    /\ Leased(t)
    /\ snap[w][t].mark # "none"
    /\ row[t].lease = NoToken \/ ~row[t].live

\* what reconcileTask checks before it acts: the state, the revision the
\* reader expects, and that no lease is live
Reconcilable(w, t) ==
    /\ Leased(t)
    /\ snap[w][t].mark = "fresh"
    /\ row[t].lease = NoToken \/ ~row[t].live

\* bug: an adopted row runs again, its cancellation forgotten
AdoptAsRunning(w, t, k) ==
    /\ Reconcilable(w, t)
    /\ row' = [row EXCEPT ![t].lease = k, ![t].live = TRUE, ![t].state = "running"]

\* disposition adopt
Adopt(w, t, k) ==
    /\ Reconcilable(w, t)
    /\ row' = [row EXCEPT ![t].lease = k, ![t].live = TRUE]

\* disposition requeue, refused once cancellation was requested
Requeue(w, t) ==
    /\ Reconcilable(w, t)
    /\ row[t].state # "cancel_requested"
    /\ row' = [row EXCEPT ![t].state = "queued", ![t].lease = NoToken, ![t].live = FALSE,
                          ![t].exec = "none", ![t].pid = NoToken, ![t].due = TRUE]

\* dispositions complete, cancel and fail
ReconcileClose(w, t, s, c) ==
    /\ Reconcilable(w, t)
    /\ row' = [row EXCEPT ![t] = ClosedRow(row[t], s, c)]

\* The reader w is done with the row; what others hold of it is now stale.
Reconciled(w, t) ==
    /\ snap' = [v \in Workers |-> [u \in Tasks |->
          IF u # t THEN snap[v][u]
          ELSE IF v = w THEN NoSnap
          ELSE IF snap[v][u].mark = "fresh" THEN [snap[v][u] EXCEPT !.mark = "stale"]
          ELSE snap[v][u]]]
    /\ UNCHANGED <<reserved, locked>>

-----------------------------------------------------------------------------
(* The clock.                                                               *)

LeaseExpires(t) ==
    /\ Leased(t)
    /\ row[t].live
    /\ row' = [row EXCEPT ![t].live = FALSE]
    /\ UNCHANGED <<reserved, locked, snap>>

DelayElapses(t) ==
    /\ row[t].state = "queued"
    /\ ~row[t].due
    /\ row' = [row EXCEPT ![t].due = TRUE]
    /\ UNCHANGED <<reserved, locked, snap>>
=============================================================================
