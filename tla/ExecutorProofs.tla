---------------------------- MODULE ExecutorProofs ----------------------------
(***************************************************************************)
(* The theorems about the executor, for any number of tasks, processes and   *)
(* lease tokens and any concurrency.  First the types.  Then what one step   *)
(* can do to one task u: every action of Next, whichever task, process and   *)
(* attempt it is about, is seen by u as one of eleven changes.  Last, the    *)
(* invariants and the action properties, proved of the changes, not of fifty *)
(* actions.                                                                  *)
(***************************************************************************)
EXTENDS ExecutorProperties, TLAPS

-----------------------------------------------------------------------------
(* Types: the variables of the executor keep them.                          *)

\* TypeOK by the module that declares the variables
StoreOK ==
    /\ row \in [Tasks -> Rows]
    /\ reserved \subseteq Tasks
    /\ locked \in BOOLEAN
    /\ snap \in [Workers -> [Tasks -> Snaps]]

ExecOK ==
    /\ disp \in [Workers -> {"down", "idle", "starting", "running", "stopping"}]
    /\ active \in [Workers -> [Tasks -> Tokens \cup {NoToken}]]
    /\ run \in [Tasks -> [Tokens -> Runs]]
    /\ ext \in [Tasks -> [Tokens -> ExtStages]]
    /\ delivered \in [Tasks -> Nat]
    /\ answered \in [Tasks -> BOOLEAN]

LEMMA TypeParts == TypeOK <=> StoreOK /\ ExecOK
  BY DEF TypeOK, StoreOK, ExecOK

-----------------------------------------------------------------------------
(* The store.                                                               *)

\* What a row may become: every UPDATE of the store is one of these.
LEMMA RowUpdates ==
    ASSUME NEW r \in Rows
    PROVE  /\ \A s \in TaskStates : [r EXCEPT !.state = s] \in Rows
           /\ \A s \in TaskStates, d \in BOOLEAN : [r EXCEPT !.state = s, !.due = d] \in Rows
           /\ \A b \in BOOLEAN : [r EXCEPT !.live = b] \in Rows
           /\ \A b \in BOOLEAN : [r EXCEPT !.due = b] \in Rows
           /\ \A x \in Stages, p \in Tokens \cup {NoToken} :
                 [r EXCEPT !.live = TRUE, !.exec = x, !.pid = p] \in Rows
           /\ \A k \in Tokens : [r EXCEPT !.lease = k, !.live = TRUE] \in Rows
           /\ \A k \in Tokens :
                 [r EXCEPT !.state = "running", !.lease = k, !.live = TRUE, !.due = FALSE] \in Rows
           /\ \A b \in BOOLEAN :
                 [r EXCEPT !.state = "queued", !.lease = NoToken, !.live = FALSE,
                           !.exec = "none", !.pid = NoToken, !.due = b] \in Rows
           /\ \A s \in TaskStates, c \in Codes : ClosedRow(r, s, c) \in Rows
           /\ CancelRow(r) \in Rows
           /\ ReleasedRow(r) \in Rows
  BY DEF Rows, TaskStates, Stages, ClosedRow, CancelRow, ReleasedRow

LEMMA SnapUpdates ==
    ASSUME NEW s \in Snaps
    PROVE  /\ [s EXCEPT !.mark = "stale"] \in Snaps
           /\ NoSnap \in Snaps
  BY DEF Snaps, NoSnap, TaskStates, Stages

LEMMA TouchType ==
    ASSUME StoreOK, NEW S, Touch(S)
    PROVE  snap' \in [Workers -> [Tasks -> Snaps]]
<1>1. ASSUME NEW w \in Workers, NEW t \in Tasks
      PROVE  (IF t \in S /\ snap[w][t].mark = "fresh"
              THEN [snap[w][t] EXCEPT !.mark = "stale"] ELSE snap[w][t]) \in Snaps
  BY SnapUpdates DEF StoreOK
<1>2. QED
  BY <1>1 DEF Touch

LEMMA ReconciledType ==
    ASSUME StoreOK, NEW w \in Workers, NEW t \in Tasks, Reconciled(w, t)
    PROVE  snap' \in [Workers -> [Tasks -> Snaps]]
<1>1. ASSUME NEW v \in Workers, NEW u \in Tasks
      PROVE  (IF u # t THEN snap[v][u]
              ELSE IF v = w THEN NoSnap
              ELSE IF snap[v][u].mark = "fresh" THEN [snap[v][u] EXCEPT !.mark = "stale"]
              ELSE snap[v][u]) \in Snaps
  BY SnapUpdates DEF StoreOK
<1>2. QED
  BY <1>1 DEF Reconciled

LEMMA SubmitType ==
    ASSUME StoreOK, NEW t \in Tasks, SubmitTask(t)
    PROVE  StoreOK'
<1>1. /\ [row[t] EXCEPT !.state = "canceled"] \in Rows
      /\ [row[t] EXCEPT !.state = "queued", !.due = TRUE] \in Rows
  BY RowUpdates DEF StoreOK, TaskStates
<1>2. row' \in [Tasks -> Rows]
  BY <1>1 DEF StoreOK, SubmitTask
<1>3. QED
  BY <1>2 DEF StoreOK, SubmitTask

LEMMA ClaimType ==
    ASSUME StoreOK, NEW t \in Tasks, NEW k \in Tokens, ClaimNext(t, k)
    PROVE  StoreOK'
<1>1. row' \in [Tasks -> Rows]
  BY RowUpdates DEF StoreOK, ClaimNext
<1>2. QED
  BY <1>1, TouchType DEF StoreOK, ClaimNext

LEMMA HeartbeatType ==
    ASSUME StoreOK, NEW t \in Tasks, NEW k, Heartbeat(t, k)
    PROVE  StoreOK'
<1>1. row' \in [Tasks -> Rows]
  BY RowUpdates DEF StoreOK, Heartbeat
<1>2. QED
  BY <1>1, TouchType DEF StoreOK, Heartbeat

LEMMA RecordType ==
    ASSUME StoreOK, NEW t \in Tasks, NEW k, NEW x \in Stages,
           NEW p \in Tokens \cup {NoToken}, RecordExecution(t, k, x, p)
    PROVE  StoreOK'
<1>1. row' \in [Tasks -> Rows]
  BY RowUpdates DEF StoreOK, RecordExecution
<1>2. QED
  BY <1>1, TouchType DEF StoreOK, RecordExecution

LEMMA DeferType ==
    ASSUME StoreOK, NEW t \in Tasks, NEW k, DeferLeasedTask(t, k)
    PROVE  StoreOK'
<1>1. row' \in [Tasks -> Rows]
  BY RowUpdates DEF StoreOK, DeferLeasedTask
<1>2. QED
  BY <1>1, TouchType DEF StoreOK, DeferLeasedTask

LEMMA CloseType ==
    ASSUME StoreOK, NEW t \in Tasks, NEW s \in TaskStates, NEW c \in Codes, CloseRow(t, s, c)
    PROVE  StoreOK'
<1>1. row' \in [Tasks -> Rows]
  BY RowUpdates DEF StoreOK, CloseRow
<1>2. QED
  BY <1>1, TouchType DEF StoreOK, CloseRow

LEMMA CancellationType ==
    ASSUME StoreOK, NEW t \in Tasks, RequestCancellation(t)
    PROVE  StoreOK'
<1>1. row' \in [Tasks -> Rows]
  BY RowUpdates DEF StoreOK, RequestCancellation
<1>2. QED
  BY <1>1, TouchType DEF StoreOK, RequestCancellation

LEMMA CancelCallType ==
    ASSUME StoreOK, NEW c, NEW keys \in SUBSET Tasks, NEW scope, CancelCallTasks(c, keys, scope)
    PROVE  StoreOK'
<1>1. row' \in [Tasks -> Rows]
  BY RowUpdates DEF StoreOK, CancelCallTasks
<1>2. snap' \in [Workers -> [Tasks -> Snaps]]
  BY TouchType DEF CancelCallTasks
<1>3. QED
  BY <1>1, <1>2 DEF StoreOK, CancelCallTasks

LEMMA PanicType ==
    ASSUME StoreOK, PanicStore
    PROVE  StoreOK'
<1>1. row' \in [Tasks -> Rows]
  BY RowUpdates DEF StoreOK, PanicStore
<1>2. snap' \in [Workers -> [Tasks -> Snaps]]
  BY TouchType DEF PanicStore
<1>3. QED
  BY <1>1, <1>2 DEF StoreOK, PanicStore

LEMMA ReconcileCloseType ==
    ASSUME StoreOK, NEW w \in Workers, NEW t \in Tasks, NEW s \in TaskStates, NEW c \in Codes,
           ReconcileClose(w, t, s, c), Reconciled(w, t)
    PROVE  StoreOK'
<1>1. row' \in [Tasks -> Rows]
  BY RowUpdates DEF StoreOK, ReconcileClose
<1>2. snap' \in [Workers -> [Tasks -> Snaps]]
  BY ReconciledType
<1>3. QED
  BY <1>1, <1>2 DEF StoreOK, Reconciled

LEMMA RequeueType ==
    ASSUME StoreOK, NEW w \in Workers, NEW t \in Tasks, Requeue(w, t), Reconciled(w, t)
    PROVE  StoreOK'
<1>1. row' \in [Tasks -> Rows]
  BY RowUpdates DEF StoreOK, Requeue
<1>2. snap' \in [Workers -> [Tasks -> Snaps]]
  BY ReconciledType
<1>3. QED
  BY <1>1, <1>2 DEF StoreOK, Reconciled

LEMMA AdoptType ==
    ASSUME StoreOK, NEW w \in Workers, NEW t \in Tasks, NEW k \in Tokens,
           Adopt(w, t, k), Reconciled(w, t)
    PROVE  StoreOK'
<1>1. row' \in [Tasks -> Rows]
  BY RowUpdates DEF StoreOK, Adopt
<1>2. snap' \in [Workers -> [Tasks -> Snaps]]
  BY ReconciledType
<1>3. QED
  BY <1>1, <1>2 DEF StoreOK, Reconciled

-----------------------------------------------------------------------------
(* The dispatchers.                                                         *)

LEMMA RunUpdates ==
    ASSUME NEW r \in Runs
    PROVE  /\ \A s \in RunStages : [r EXCEPT !.at = s] \in Runs
           /\ [r EXCEPT !.aborted = TRUE] \in Runs
           /\ NoRun \in Runs
           /\ \A s \in RunStages, w \in Workers : [at |-> s, by |-> w, aborted |-> FALSE] \in Runs
  BY DEF Runs, RunStages, NoRun

LEMMA InterruptType ==
    ASSUME ExecOK, NEW w, NEW S, Interrupt(w, S)
    PROVE  run' \in [Tasks -> [Tokens -> Runs]]
<1>1. ASSUME NEW t \in Tasks, NEW k \in Tokens
      PROVE  (IF t \in S /\ active[w][t] = k /\ run[t][k].at # "adopted" /\ run[t][k].at # "none"
              THEN [run[t][k] EXCEPT !.aborted = TRUE] ELSE run[t][k]) \in Runs
  BY RunUpdates DEF ExecOK
<1>2. QED
  BY <1>1 DEF Interrupt

LEMMA WithoutType ==
    ASSUME ExecOK, NEW w
    PROVE  RunsWithout(w) \in [Tasks -> [Tokens -> Runs]]
<1>1. ASSUME NEW t \in Tasks, NEW k \in Tokens
      PROVE  (IF run[t][k].by = w THEN NoRun ELSE run[t][k]) \in Runs
  BY RunUpdates DEF ExecOK
<1>2. QED
  BY <1>1 DEF RunsWithout

\* _finishRecord
LEMMA EndRunType ==
    ASSUME ExecOK, NEW t \in Tasks, NEW k \in Tokens, EndRun(t, k),
           UNCHANGED <<disp, ext, delivered, answered>>
    PROVE  ExecOK'
<1>1. run' \in [Tasks -> [Tokens -> Runs]]
  BY RunUpdates DEF ExecOK, EndRun
<1>2. ASSUME NEW w \in Workers
      PROVE  (IF active[w][t] = k THEN [active[w] EXCEPT ![t] = NoToken] ELSE active[w])
                \in [Tasks -> Tokens \cup {NoToken}]
  BY DEF ExecOK
<1>3. active' \in [Workers -> [Tasks -> Tokens \cup {NoToken}]]
  BY <1>2 DEF EndRun
<1>4. QED
  BY <1>1, <1>3 DEF ExecOK

\* The two settlements leave the store alone or close the row.
LEMMA SettlementType ==
    ASSUME StoreOK, ExecOK, NEW t \in Tasks, NEW k \in Tokens,
           \/ SettleSuccess(t, k)
           \/ \E c \in Codes : SettleFailure(t, k, c)
    PROVE  StoreOK' /\ ExecOK'
<1>1. EndRun(t, k) /\ UNCHANGED <<disp, ext, delivered, answered>>
  BY DEF SettleSuccess, SettleFailure
<1>2. ExecOK'
  BY <1>1, EndRunType
<1>3. \/ UNCHANGED storeVars
      \/ \E s \in TaskStates, c \in Codes : CloseRow(t, s, c)
  <2>1. CASE SettleSuccess(t, k)
    BY <2>1, Zenon DEF SettleSuccess, CompleteTask, TaskStates, Codes
  <2>2. ASSUME NEW c \in Codes, SettleFailure(t, k, c)
        PROVE  \/ UNCHANGED storeVars
               \/ \E s \in TaskStates, e \in Codes : CloseRow(t, s, e)
    <3>1. CASE \E e \in Codes : FailTask(t, k, e)
      BY <3>1, Zenon DEF FailTask, TaskStates
    <3>2. CASE AcknowledgeCanceled(t, k)
      BY <3>2, Zenon DEF AcknowledgeCanceled, TaskStates, Codes
    <3>3. (IF disp[run[t][k].by] = "stopping" THEN "outcome_unknown" ELSE c) \in Codes
      BY DEF Codes
    <3>4. QED
      BY <2>2, <3>1, <3>2, <3>3, Zenon DEF SettleFailure
  <2>3. QED
    BY <2>1, <2>2
<1>4. StoreOK'
  <2>1. CASE UNCHANGED storeVars
    BY <2>1 DEF storeVars, StoreOK
  <2>2. CASE \E s \in TaskStates, c \in Codes : CloseRow(t, s, c)
    BY <2>2, CloseType
  <2>3. QED
    BY <1>3, <2>1, <2>2
<1>5. QED
  BY <1>2, <1>4

\* A reader closes the row it inspected.
LEMMA VerdictType ==
    ASSUME StoreOK, ExecOK, NEW w \in Workers, NEW t \in Tasks, NEW s \in TaskStates,
           NEW c \in Codes, ReconcileClose(w, t, s, c), Settled(w, t)
    PROVE  StoreOK' /\ ExecOK'
  BY ReconcileCloseType DEF Settled, execVars, ExecOK

LEMMA AdoptAttemptType ==
    ASSUME StoreOK, ExecOK, NEW w \in Workers, NEW t \in Tasks, NEW k \in Tokens,
           AdoptAttempt(w, t, k)
    PROVE  StoreOK' /\ ExecOK'
<1>1. StoreOK'
  BY AdoptType DEF AdoptAttempt
<1>2. run' \in [Tasks -> [Tokens -> Runs]]
  BY RunUpdates DEF ExecOK, AdoptAttempt, RunStages
<1>3. QED
  BY <1>1, <1>2 DEF ExecOK, AdoptAttempt

LEMMA OrphanType ==
    ASSUME StoreOK, ExecOK, NEW w \in Workers, NEW t \in Tasks, NEW k \in Tokens, Orphan(w, t, k)
    PROVE  StoreOK' /\ ExecOK'
<1>1. run' \in [Tasks -> [Tokens -> Runs]]
  BY RunUpdates DEF ExecOK, Orphan
<1>2. QED
  BY <1>1 DEF StoreOK, ExecOK, Orphan

\* start fails, or shutdown ends: rows are released or closed
LEMMA AbandonType ==
    ASSUME StoreOK, ExecOK, NEW w \in Workers, NEW left, Abandon(w, left),
           \A t \in Tasks : left[t] \in Rows, run' = RunsWithout(w),
           NEW d \in {"down", "idle"}, disp' = [disp EXCEPT ![w] = d]
    PROVE  StoreOK' /\ ExecOK'
<1>1. row' \in [Tasks -> Rows]
  <2>1. ASSUME NEW t \in Tasks
        PROVE  (IF t \in OwnedBy(w) THEN left[t] ELSE row[t]) \in Rows
    BY DEF StoreOK
  <2>2. QED
    BY <2>1 DEF Abandon
<1>2. snap' \in [Workers -> [Tasks -> Snaps]]
  <2>1. ASSUME NEW v \in Workers, NEW t \in Tasks
        PROVE  (IF v = w THEN NoSnap
                ELSE IF t \in OwnedBy(w) /\ snap[v][t].mark = "fresh"
                THEN [snap[v][t] EXCEPT !.mark = "stale"] ELSE snap[v][t]) \in Snaps
    BY SnapUpdates DEF StoreOK
  <2>2. QED
    BY <2>1 DEF Abandon
<1>3. run' \in [Tasks -> [Tokens -> Runs]]
  BY WithoutType
<1>4. active' \in [Workers -> [Tasks -> Tokens \cup {NoToken}]]
  BY DEF ExecOK, Abandon
<1>5. disp' \in [Workers -> {"down", "idle", "starting", "running", "stopping"}]
  BY DEF ExecOK
<1>6. QED
  BY <1>1, <1>2, <1>3, <1>4, <1>5 DEF StoreOK, ExecOK, Abandon

-----------------------------------------------------------------------------
(* Steps, by the groups of Next.                                            *)

LEMMA OutsideType ==
    ASSUME StoreOK, ExecOK, Outside
    PROVE  StoreOK' /\ ExecOK'
<1>1. ASSUME NEW t \in Tasks, Submit(t)
      PROVE  StoreOK' /\ ExecOK'
  BY <1>1, SubmitType DEF Submit, execVars, ExecOK
<1>2. ASSUME NEW w \in Workers, NEW c \in Calls, NEW scope,
             NEW keys \in {{}} \cup {{t} : t \in Tasks}, CancelCall(w, c, keys, scope)
      PROVE  StoreOK' /\ ExecOK'
  <2>1. keys \in SUBSET Tasks
    OBVIOUS
  <2>2. QED
    BY <1>2, <2>1, CancelCallType, InterruptType DEF CancelCall, ExecOK
<1>3. ASSUME NEW w \in Workers, NEW t \in Tasks, CancelTask(w, t)
      PROVE  StoreOK' /\ ExecOK'
  <2>1. StoreOK'
    <3>1. CASE RequestCancellation(t)
      BY <3>1, CancellationType
    <3>2. CASE UNCHANGED storeVars
      BY <3>2 DEF storeVars, StoreOK
    <3>3. QED
      BY <1>3, <3>1, <3>2 DEF CancelTask
  <2>2. \E S \in SUBSET Tasks : Interrupt(w, S)
    BY <1>3, Zenon DEF CancelTask
  <2>3. QED
    BY <1>3, <2>1, <2>2, InterruptType DEF CancelTask, ExecOK
<1>4. ASSUME NEW w \in Workers, Panic(w)
      PROVE  StoreOK' /\ ExecOK'
  BY <1>4, PanicType, InterruptType DEF Panic, ExecOK
<1>5. CASE Unlock
  BY <1>5 DEF Unlock, UnlockPanic, execVars, StoreOK, ExecOK
<1>6. ASSUME NEW t \in Tasks, LeaseExpires(t) /\ UNCHANGED execVars
      PROVE  StoreOK' /\ ExecOK'
  BY <1>6, RowUpdates DEF LeaseExpires, execVars, StoreOK, ExecOK
<1>7. QED
  BY <1>1, <1>2, <1>3, <1>4, <1>5, <1>6 DEF Outside

LEMMA DispatchType ==
    ASSUME StoreOK, ExecOK, NEW w \in Workers, NEW t \in Tasks, Dispatch(w, t)
    PROVE  StoreOK' /\ ExecOK'
<1>1. ASSUME NEW k \in Tokens, Claim(w, t, k)
      PROVE  StoreOK' /\ ExecOK'
  <2>1. StoreOK'
    BY <1>1, ClaimType DEF Claim
  <2>2. run' \in [Tasks -> [Tokens -> Runs]]
    BY <1>1, RunUpdates DEF Claim, ExecOK, RunStages
  <2>3. QED
    BY <1>1, <2>1, <2>2 DEF Claim, ExecOK
<1>2. CASE HeartbeatTick(w, t)
  <2>1. StoreOK'
    BY <1>2, HeartbeatType DEF HeartbeatTick
  <2>2. run' \in [Tasks -> [Tokens -> Runs]]
    BY <1>2, InterruptType DEF HeartbeatTick, ExecOK
  <2>3. QED
    BY <1>2, <2>1, <2>2 DEF HeartbeatTick, ExecOK
<1>3. CASE HeartbeatRejected(w, t)
  BY <1>3, OrphanType DEF HeartbeatRejected, ExecOK
<1>4. QED
  BY <1>1, <1>2, <1>3 DEF Dispatch

LEMMA AttemptType ==
    ASSUME StoreOK, ExecOK, NEW t \in Tasks, NEW k \in Tokens, Attempt(t, k)
    PROVE  StoreOK' /\ ExecOK'
<1>1. ASSUME NEW c \in Codes, BeginFails(t, k, c)
      PROVE  StoreOK' /\ ExecOK'
  BY <1>1, SettlementType DEF BeginFails
<1>2. CASE TargetReturns(t, k) \/ ManagedReturns(t, k)
  BY <1>2, SettlementType DEF TargetReturns, ManagedReturns
<1>3. CASE TargetThrows(t, k) \/ ManagedFails(t, k)
  BY <1>3, SettlementType DEF TargetThrows, ManagedFails, Codes
<1>4. CASE ManagedBusy(t, k)
  <2>1. CASE DeferLeasedTask(t, k) /\ EndRun(t, k) /\ UNCHANGED <<disp, ext, delivered, answered>>
    BY <2>1, DeferType, EndRunType
  <2>2. CASE \E c \in Codes : SettleFailure(t, k, c)
    BY <2>2, SettlementType
  <2>3. (IF t \in MutatingTasks /\ run[t][k].aborted THEN "outcome_unknown" ELSE "failed") \in Codes
    BY DEF Codes
  <2>4. QED
    BY <1>4, <2>1, <2>2, <2>3, Zenon DEF ManagedBusy
<1>5. CASE \/ RecordAttempt(t, k) \/ RecordVerified(t, k) \/ Spawn(t, k)
           \/ Accepted(t, k) \/ Refused(t, k) \/ LaunchUnknown(t, k)
  <2>1. \E x \in Stages, p \in Tokens \cup {NoToken} : RecordExecution(t, k, x, p)
    BY <1>5, Zenon DEF RecordAttempt, RecordVerified, Spawn, Accepted, Refused, LaunchUnknown,
                LaunchStatus, Stages
  <2>2. StoreOK'
    BY <2>1, RecordType
  <2>3. run' \in [Tasks -> [Tokens -> Runs]]
    <3>1. UNCHANGED run \/ \E s \in RunStages : run' = [run EXCEPT ![t][k].at = s]
      BY <1>5, Zenon DEF RecordAttempt, RecordVerified, Spawn, Accepted, Refused,
         LaunchUnknown,
                         RunStages
    <3>2. ASSUME NEW s \in RunStages, run' = [run EXCEPT ![t][k].at = s]
          PROVE  run' \in [Tasks -> [Tokens -> Runs]]
      BY <3>2, RunUpdates DEF ExecOK
    <3>3. QED
      BY <3>1, <3>2 DEF ExecOK
  <2>4. ext' \in [Tasks -> [Tokens -> ExtStages]]
    <3>1. (IF run[t][k].aborted THEN "none" ELSE "armed") \in ExtStages
      BY DEF ExtStages
    <3>2. UNCHANGED ext \/ \E e \in ExtStages : ext' = [ext EXCEPT ![t][k] = e]
      BY <1>5, <3>1, Zenon DEF RecordAttempt, RecordVerified, Spawn, Accepted, Refused,
                               LaunchUnknown, ExtStages
    <3>3. ASSUME NEW e \in ExtStages, ext' = [ext EXCEPT ![t][k] = e]
          PROVE  ext' \in [Tasks -> [Tokens -> ExtStages]]
      BY <3>3 DEF ExecOK
    <3>4. QED
      BY <3>2, <3>3 DEF ExecOK
  <2>5. UNCHANGED <<disp, active, delivered, answered>>
    BY <1>5 DEF RecordAttempt, RecordVerified, Spawn, Accepted, Refused, LaunchUnknown,
                LaunchStatus
  <2>6. QED
    BY <2>2, <2>3, <2>4, <2>5 DEF ExecOK
<1>6. QED
  BY <1>1, <1>2, <1>3, <1>4, <1>5 DEF Attempt

LEMMA EffectType ==
    ASSUME StoreOK, ExecOK, NEW t \in Tasks, NEW k \in Tokens, Effect(t, k) \/ Answer(t)
    PROVE  StoreOK' /\ ExecOK'
<1>1. CASE Land(t, k)
  BY <1>1 DEF Land, storeVars, StoreOK, ExecOK, ExtStages
<1>2. CASE Forward(t, k)
  BY <1>2 DEF Forward, storeVars, StoreOK, ExecOK, ExtStages
<1>3. CASE Vanish(t, k)
  BY <1>3 DEF Vanish, storeVars, StoreOK, ExecOK, ExtStages
<1>4. CASE ChildExit(t, k)
  BY <1>4 DEF ChildExit, storeVars, StoreOK, ExecOK, ExtStages
<1>5. CASE Answer(t)
  BY <1>5 DEF Answer, storeVars, StoreOK, ExecOK
<1>6. QED
  BY <1>1, <1>2, <1>3, <1>4, <1>5 DEF Effect

LEMMA ReconciliationType ==
    ASSUME StoreOK, ExecOK, NEW w \in Workers, NEW t \in Tasks, Reconciliation(w, t)
    PROVE  StoreOK' /\ ExecOK'
<1>1. CASE Inspect(w, t) \/ Defer(w, t)
  <2>1. [mark |-> "fresh", state |-> row[t].state, exec |-> row[t].exec] \in Snaps
    BY DEF StoreOK, Rows, Snaps
  <2>2. NoSnap \in Snaps
    BY DEF NoSnap, Snaps, TaskStates, Stages
  <2>3. CASE Inspect(w, t)
    BY <2>1, <2>3 DEF Inspect, ListCandidate, execVars, StoreOK, ExecOK
  <2>4. CASE Defer(w, t)
    BY <2>2, <2>4 DEF Defer, execVars, StoreOK, ExecOK
  <2>5. QED
    BY <1>1, <2>3, <2>4
<1>2. CASE RequeueUntouched(w, t)
  BY <1>2, RequeueType DEF RequeueUntouched, Settled, execVars, ExecOK
<1>3. CASE \/ CancelUntouched(w, t) \/ CompleteVerified(w, t) \/ ReconcileAnswered(w, t)
           \/ ReconcileUnanswered(w, t) \/ ProcessGone(w, t)
  <2>1. /\ Settled(w, t)
        /\ \E s \in TaskStates, c \in Codes : ReconcileClose(w, t, s, c)
    <3>1. CASE CancelUntouched(w, t) \/ CompleteVerified(w, t) \/ ProcessGone(w, t)
      BY <3>1, Zenon DEF CancelUntouched, CompleteVerified, ProcessGone, TaskStates, Codes
    <3>2. CASE ReconcileAnswered(w, t)
      <4>1. (IF Seen(w, t).state = "cancel_requested" THEN "canceled" ELSE "completed")
               \in TaskStates /\ "none" \in Codes
        BY DEF TaskStates, Codes
      <4>2. QED
        BY <3>2, <4>1, Zenon DEF ReconcileAnswered
    <3>3. CASE ReconcileUnanswered(w, t)
      <4>1. /\ "failed" \in TaskStates
            /\ {"outcome_unknown"} \cup (IF delivered[t] > 0 THEN {"response_timeout"} ELSE {})
                  \subseteq Codes
        BY DEF TaskStates, Codes
      <4>2. QED
        BY <3>3, <4>1, Zenon DEF ReconcileUnanswered
    <3>4. QED
      BY <1>3, <3>1, <3>2, <3>3
  <2>2. QED
    BY <2>1, VerdictType
<1>4. ASSUME NEW k \in Tokens, MonitorTarget(w, t, k) \/ AdoptProcess(w, t, k)
      PROVE  StoreOK' /\ ExecOK'
  BY <1>4, AdoptAttemptType DEF MonitorTarget, AdoptProcess
<1>5. QED
  BY <1>1, <1>2, <1>3, <1>4 DEF Reconciliation

LEMMA PollType ==
    ASSUME StoreOK, ExecOK, NEW t \in Tasks, NEW k \in Tokens, Poll(t, k)
    PROVE  StoreOK' /\ ExecOK'
<1>1. EndRun(t, k) /\ UNCHANGED <<disp, ext, delivered, answered>>
  BY DEF Poll, PollTerminal, PollProcess, PollTarget
<1>2. ExecOK'
  BY <1>1, EndRunType
<1>3. UNCHANGED storeVars \/ \E s \in TaskStates, c \in Codes : CloseRow(t, s, c)
  BY Zenon DEF Poll, PollTerminal, PollProcess, PollTarget, FailTask, CompleteTask,
               AcknowledgeCanceled, TaskStates, Codes
<1>4. CASE UNCHANGED storeVars
  BY <1>2, <1>4 DEF storeVars, StoreOK
<1>5. CASE \E s \in TaskStates, c \in Codes : CloseRow(t, s, c)
  BY <1>2, <1>5, CloseType
<1>6. QED
  BY <1>3, <1>4, <1>5

LEMMA LifeType ==
    ASSUME StoreOK, ExecOK, NEW w \in Workers, Lifecycle(w) \/ Fault(w)
    PROVE  StoreOK' /\ ExecOK'
<1>1. CASE Boot(w) \/ Start(w) \/ StartDone(w)
  BY <1>1 DEF Boot, Start, StartDone, storeVars, StoreOK, ExecOK
<1>2. NoSnaps(w) \in [Workers -> [Tasks -> Snaps]]
  BY DEF NoSnaps, NoSnap, StoreOK, Snaps, TaskStates, Stages
<1>3. CASE Crash(w)
  <2>1. run' \in [Tasks -> [Tokens -> Runs]]
    BY <1>3, WithoutType DEF Crash
  <2>2. QED
    BY <1>2, <1>3, <2>1 DEF Crash, StoreOK, ExecOK
<1>4. CASE Shutdown(w)
  <2>1. run' \in [Tasks -> [Tokens -> Runs]]
    BY <1>4, InterruptType DEF Shutdown
  <2>2. QED
    BY <1>2, <1>4, <2>1 DEF Shutdown, StoreOK, ExecOK
<1>5. CASE StartFails(w)
  <2>1. \A t \in Tasks : [u \in Tasks |-> ReleasedRow(row[u])][t] \in Rows
    BY RowUpdates DEF StoreOK
  <2>2. QED
    BY <1>5, <2>1, AbandonType DEF StartFails
<1>6. CASE ShutdownEnd(w)
  <2>1. \A t \in Tasks :
           [u \in Tasks |-> IF u \in TargetTasks \/ row[u].pid # NoToken
                            THEN ReleasedRow(row[u])
                            ELSE ClosedRow(row[u], "failed", "outcome_unknown")][t] \in Rows
    BY RowUpdates DEF StoreOK, TaskStates, Codes
  <2>2. QED
    BY <1>6, <2>1, AbandonType DEF ShutdownEnd
<1>7. ASSUME NEW t \in Tasks, HeartbeatFails(w, t)
      PROVE  StoreOK' /\ ExecOK'
  BY <1>7, OrphanType DEF HeartbeatFails, ExecOK
<1>8. QED
  BY <1>1, <1>3, <1>4, <1>5, <1>6, <1>7 DEF Lifecycle, Fault

LEMMA TypeInit == Init => TypeOK
<1>1. AbsentRow \in Rows /\ NoSnap \in Snaps /\ NoRun \in Runs /\ "none" \in ExtStages
  BY DEF AbsentRow, Rows, NoSnap, Snaps, NoRun, Runs, RunStages, ExtStages, TaskStates,
     Stages,
         Codes
<1>2. Init => StoreOK
  <2>1. StoreInit => row \in [Tasks -> Rows] /\ reserved \subseteq Tasks /\ locked \in BOOLEAN
    BY <1>1 DEF StoreInit
  <2>2. StoreInit => snap \in [Workers -> [Tasks -> Snaps]]
    BY <1>1 DEF StoreInit
  <2>3. QED
    BY <2>1, <2>2 DEF Init, StoreOK
<1>3. Init => /\ disp \in [Workers -> {"down", "idle", "starting", "running", "stopping"}]
              /\ active \in [Workers -> [Tasks -> Tokens \cup {NoToken}]]
              /\ run \in [Tasks -> [Tokens -> Runs]]
              /\ ext \in [Tasks -> [Tokens -> ExtStages]]
  BY <1>1 DEF Init
<1>4. Init => delivered \in [Tasks -> Nat] /\ answered \in [Tasks -> BOOLEAN]
  BY DEF Init
<1>5. QED
  BY <1>2, <1>3, <1>4, TypeParts DEF ExecOK

LEMMA TypeNext == TypeOK /\ [Next]_vars => TypeOK'
<1> SUFFICES ASSUME StoreOK, ExecOK, [Next]_vars
             PROVE  StoreOK' /\ ExecOK'
  BY DEF TypeOK, StoreOK, ExecOK
<1>1. CASE Outside
  BY <1>1, OutsideType
<1>2. ASSUME NEW w \in Workers, Lifecycle(w) \/ Fault(w)
      PROVE  StoreOK' /\ ExecOK'
  BY <1>2, LifeType
<1>3. ASSUME NEW w \in Workers, NEW t \in Tasks, Dispatch(w, t) \/ Reconciliation(w, t)
      PROVE  StoreOK' /\ ExecOK'
  BY <1>3, DispatchType, ReconciliationType
<1>4. ASSUME NEW t \in Tasks, NEW k \in Tokens, Attempt(t, k) \/ Effect(t, k) \/ Poll(t, k)
      PROVE  StoreOK' /\ ExecOK'
  BY <1>4, AttemptType, EffectType, PollType
<1>5. ASSUME NEW t \in Tasks, Answer(t)
      PROVE  StoreOK' /\ ExecOK'
  BY <1>5 DEF Answer, storeVars, StoreOK, ExecOK
<1>6. ASSUME NEW t \in Tasks, DelayElapses(t) /\ UNCHANGED execVars
      PROVE  StoreOK' /\ ExecOK'
  BY <1>6, RowUpdates DEF DelayElapses, execVars, StoreOK, ExecOK
<1>7. CASE UNCHANGED vars
  BY <1>7 DEF vars, StoreOK, ExecOK
<1>8. QED
  BY <1>1, <1>2, <1>3, <1>4, <1>5, <1>6, <1>7 DEF Next

\* Whatever the tasks, processes, tokens and their number: the rows, the
\* readers' copies, the records and the effects keep to their types.
THEOREM TypesHold == Spec => []TypeOK
<1>1. QED
  BY TypeInit, TypeNext, PTL DEF Spec

-----------------------------------------------------------------------------
(* What one step of the executor can do to one task.                        *)

\* no record of u moves on; some end
RunsEnd(u) == \A k \in Tokens : run'[u][k].at \in {run[u][k].at, "none"}

EffectsKept(u) == /\ \A k \in Tokens : ext'[u][k] = ext[u][k]
                  /\ delivered'[u] = delivered[u]
                  /\ answered'[u] = answered[u]

\* readers' copies of u: none is fresh, or the fresh ones are of this row
CopiesStale(u) == \A w \in Workers : snap'[w][u].mark # "fresh"

CopiesCurrent(u) == \A w \in Workers :
    snap'[w][u].mark = "fresh" => /\ Leased(u)
                                  /\ snap'[w][u].state = row[u].state
                                  /\ snap'[w][u].exec = row[u].exec

Quiet(u) == RunsEnd(u) /\ EffectsKept(u)

RowKept(u) == /\ row'[u].state = row[u].state
              /\ row'[u].exec = row[u].exec
              /\ row'[u].code = row[u].code

\* nothing but the clock, the readers, an interruption, or a released lease
Idle(u) ==
    /\ Quiet(u) /\ CopiesCurrent(u) /\ RowKept(u)
    /\ row'[u].lease \in {row[u].lease, NoToken}

Born(u) ==
    /\ Quiet(u) /\ CopiesCurrent(u)
    /\ row[u].state = "absent"
    /\ row'[u].state \in {"queued", "canceled"}
    /\ locked /\ u \in VoiceTasks => row'[u].state = "canceled"
    /\ row'[u].exec = row[u].exec /\ row'[u].code = row[u].code
    /\ row'[u].lease = row[u].lease

Canceled(u) ==
    /\ Quiet(u) /\ CopiesStale(u)
    /\ \/ row[u].state = "queued" /\ row'[u].state = "canceled"
       \/ row[u].state \in LeasedStates /\ row'[u].state = "cancel_requested"
    /\ row'[u].exec = row[u].exec /\ row'[u].code = row[u].code
    /\ row'[u].lease = row[u].lease

\* a new attempt k holds the lease
Taken(u, k, at) ==
    /\ EffectsKept(u) /\ CopiesStale(u)
    /\ row'[u].exec = row[u].exec /\ row'[u].code = row[u].code
    /\ row'[u].lease = k
    /\ run'[u][k].at = at
    /\ \A j \in Tokens \ {k} : run'[u][j].at = run[u][j].at

Claimed(u, k) ==
    /\ Taken(u, k, "begun")
    /\ row[u].state = "queued" /\ row'[u].state = "running"
    /\ locked => u \notin VoiceTasks
    /\ ext[u][k] = "none"

Adopted(u, k) ==
    /\ Taken(u, k, "adopted")
    /\ Leased(u) /\ row'[u].state = row[u].state

\* requeued or deferred
GivenBack(u) ==
    /\ Quiet(u) /\ CopiesStale(u)
    /\ row[u].state = "running" /\ row'[u].state = "queued"
    /\ row[u].exec \notin Intent /\ row'[u].exec = "none"
    /\ row'[u].lease = NoToken

Closed(u) ==
    /\ Quiet(u) /\ CopiesStale(u)
    /\ Leased(u) /\ row'[u].state \in TerminalStates
    /\ row'[u].exec = row[u].exec
    /\ row'[u].lease = NoToken
    /\ row'[u].state = "completed" => delivered[u] > 0
    /\ SaysUntouched(u)' => row[u].exec \notin Intent

\* The holder k of the lease persists the stage x.
Records(u, k, x, at, e) ==
    /\ HoldsLease(u, k) /\ CopiesStale(u)
    /\ row'[u].state = row[u].state /\ row'[u].code = row[u].code
    /\ row'[u].lease = row[u].lease /\ row'[u].exec = x
    /\ run'[u][k].at = at /\ ext'[u][k] = e
    /\ \A j \in Tokens \ {k} : run'[u][j].at = run[u][j].at /\ ext'[u][j] = ext[u][j]
    /\ delivered'[u] = delivered[u] /\ answered'[u] = answered[u]

Recorded(u, k) ==
    \/ /\ u \in TargetTasks /\ run[u][k].at = "begun"
       /\ \E e \in {"none", "armed"} : Records(u, k, "attempt", "open", e)
    \/ /\ u \in TargetTasks /\ delivered[u] > 0
       /\ Records(u, k, "verified", "sure", ext[u][k])
    \/ /\ u \in ManagedTasks /\ run[u][k].at = "begun"
       /\ Records(u, k, "pid", "open", "waiting")
    \/ /\ u \in ManagedTasks /\ run[u][k].at = "open" /\ ext[u][k] = "waiting"
       /\ \/ Records(u, k, "started", "open", "armed")
          \/ Records(u, k, "busy", "busy", "none")
          \/ Records(u, k, "unknown", "open", "none")

\* outside the process: the row and the records are as before
OutsideOnly(u, k) ==
    /\ CopiesCurrent(u) /\ RowKept(u) /\ row'[u].lease = row[u].lease
    /\ \A j \in Tokens : run'[u][j].at = run[u][j].at
    /\ \A j \in Tokens \ {k} : ext'[u][j] = ext[u][j]

Lands(u, k) ==
    /\ OutsideOnly(u, k)
    /\ ext[u][k] = "armed"
    /\ \/ ext'[u][k] = "none"
       \/ u \in ManagedTasks /\ ext'[u][k] = "working"
    /\ delivered'[u] = delivered[u] + 1
    /\ answered'[u] = answered[u]

Lapses(u, k) ==
    /\ OutsideOnly(u, k)
    /\ ext'[u][k] = "none"
    /\ delivered'[u] = delivered[u]
    /\ answered'[u] => answered[u] \/ ext[u][k] = "working"

Answers(u) ==
    /\ RunsEnd(u) /\ CopiesCurrent(u) /\ RowKept(u) /\ row'[u].lease = row[u].lease
    /\ \A k \in Tokens : ext'[u][k] = ext[u][k]
    /\ delivered'[u] = delivered[u] /\ delivered[u] > 0

TaskStep(u) ==
    \/ Idle(u) \/ Born(u) \/ Canceled(u) \/ GivenBack(u) \/ Closed(u) \/ Answers(u)
    \/ \E k \in Tokens : \/ Claimed(u, k) \/ Adopted(u, k) \/ Recorded(u, k)
                         \/ Lands(u, k) \/ Lapses(u, k)

-----------------------------------------------------------------------------
(* The pieces of actions.                                                   *)

LEMMA TouchCopies ==
    ASSUME IInv, NEW S, Touch(S), NEW u \in Tasks
    PROVE  /\ u \in S => CopiesStale(u)
           /\ CopiesCurrent(u)
  BY DEF IInv, TypeOK, Touch, CopiesStale, CopiesCurrent, FreshIsCurrent, Snaps

LEMMA SameCopies ==
    ASSUME IInv, UNCHANGED snap, NEW u \in Tasks
    PROVE  CopiesCurrent(u)
  BY DEF IInv, CopiesCurrent, FreshIsCurrent

LEMMA ReconciledCopies ==
    ASSUME IInv, NEW w \in Workers, NEW t \in Tasks, Reconciled(w, t), NEW u \in Tasks
    PROVE  /\ u = t => CopiesStale(u)
           /\ CopiesCurrent(u)
  BY DEF IInv, TypeOK, Reconciled, CopiesStale, CopiesCurrent, FreshIsCurrent, Snaps, NoSnap

LEMMA InterruptRuns ==
    ASSUME IInv, NEW w \in Workers, NEW S, Interrupt(w, S), NEW u \in Tasks
    PROVE  \A k \in Tokens : run'[u][k].at = run[u][k].at
  BY DEF IInv, TypeOK, Interrupt, Runs

LEMMA EndRunRuns ==
    ASSUME IInv, NEW t \in Tasks, NEW k \in Tokens, EndRun(t, k), NEW u \in Tasks
    PROVE  RunsEnd(u)
  BY DEF IInv, TypeOK, EndRun, RunsEnd, Runs, NoRun

LEMMA WithoutRuns ==
    ASSUME IInv, NEW w \in Workers, run' = RunsWithout(w), NEW u \in Tasks
    PROVE  RunsEnd(u)
  BY DEF IInv, TypeOK, RunsWithout, RunsEnd, Runs, NoRun

LEMMA SameEffects ==
    ASSUME UNCHANGED <<ext, delivered, answered>>, NEW u \in Tasks
    PROVE  EffectsKept(u)
  BY DEF EffectsKept

\* An attempt that ends without writing.
LEMMA EndsQuietly ==
    ASSUME IInv, NEW t \in Tasks, NEW k \in Tokens, EndRun(t, k),
           UNCHANGED <<storeVars, ext, delivered, answered>>, NEW u \in Tasks
    PROVE  Idle(u)
<1>1. RunsEnd(u) /\ EffectsKept(u) /\ CopiesCurrent(u)
  BY EndRunRuns, SameEffects, SameCopies DEF storeVars
<1>2. QED
  BY <1>1 DEF Idle, Quiet, RowKept, storeVars

\* A verdict that may be written: it does not overstate.
Truthful(t, s, c) ==
    /\ s = "completed" => delivered[t] > 0
    /\ \/ s = "failed" /\ c = "refused"
       \/ s = "failed" /\ c = "failed" /\ t \in MutatingTasks
       \/ s = "canceled" /\ t \in MutatingTasks
       => row[t].exec \notin Intent

LEMMA ClosedRowFits ==
    ASSUME IInv, NEW t \in Tasks, NEW s \in TerminalStates, NEW c \in Codes, Leased(t),
           Truthful(t, s, c), row' = [row EXCEPT ![t] = ClosedRow(row[t], s, c)],
           Quiet(t), CopiesStale(t)
    PROVE  Closed(t)
  BY DEF IInv, TypeOK, Rows, Truthful, ClosedRow, Closed, SaysUntouched

LEMMA OtherRowIdle ==
    ASSUME NEW t \in Tasks, NEW u \in Tasks, u # t, Quiet(u), CopiesCurrent(u),
           row'[u] = row[u]
    PROVE  Idle(u)
  BY DEF Idle, RowKept

LEMMA EndsClosing ==
    ASSUME IInv, NEW t \in Tasks, NEW k \in Tokens, EndRun(t, k),
           UNCHANGED <<ext, delivered, answered>>, NEW s \in TerminalStates, NEW c \in Codes,
           Leased(t), Truthful(t, s, c), CloseRow(t, s, c), NEW u \in Tasks
    PROVE  TaskStep(u)
<1>1. Quiet(u) /\ CopiesCurrent(u) /\ (u = t => CopiesStale(u))
  BY EndRunRuns, SameEffects, TouchCopies DEF CloseRow, Quiet
<1>2. CASE u = t
  BY <1>1, <1>2, ClosedRowFits DEF CloseRow, TaskStep
<1>3. CASE u # t
  BY <1>1, <1>3, OtherRowIdle DEF CloseRow, TaskStep, IInv, TypeOK
<1>4. QED
  BY <1>2, <1>3

LEMMA VerdictCloses ==
    ASSUME IInv, NEW w \in Workers, NEW t \in Tasks, NEW s \in TerminalStates, NEW c \in Codes,
           ReconcileClose(w, t, s, c), Truthful(t, s, c), Settled(w, t), NEW u \in Tasks
    PROVE  TaskStep(u)
<1>1. UNCHANGED <<run, ext, delivered, answered>> /\ Reconciled(w, t)
  BY DEF Settled, execVars
<1>2. Quiet(u) /\ CopiesCurrent(u) /\ (u = t => CopiesStale(u))
  BY <1>1, SameEffects, ReconciledCopies DEF Quiet, RunsEnd
<1>3. CASE u = t
  BY <1>2, <1>3, ClosedRowFits DEF ReconcileClose, Reconcilable, TaskStep
<1>4. CASE u # t
  BY <1>2, <1>4, OtherRowIdle DEF ReconcileClose, TaskStep, IInv, TypeOK
<1>5. QED
  BY <1>3, <1>4

LEMMA SuccessSettles ==
    ASSUME IInv, NEW t \in Tasks, NEW k \in Tokens, SettleSuccess(t, k), delivered[t] > 0,
           NEW u \in Tasks
    PROVE  TaskStep(u)
<1>1. EndRun(t, k) /\ UNCHANGED <<ext, delivered, answered>>
  BY DEF SettleSuccess
<1>2. CASE UNCHANGED storeVars
  BY <1>1, <1>2, EndsQuietly DEF TaskStep
<1>3. CASE HoldsLease(t, k) /\ CloseRow(t, "completed", "none")
  <2>1. Truthful(t, "completed", "none")
    BY DEF Truthful
  <2>2. QED
    BY <1>1, <1>3, <2>1, EndsClosing DEF HoldsLease, TerminalStates, Codes
<1>4. QED
  BY <1>2, <1>3 DEF SettleSuccess, CompleteTask

LEMMA FailureSettles ==
    ASSUME IInv, NEW t \in Tasks, NEW k \in Tokens, NEW c \in Codes, SettleFailure(t, k, c),
           HoldsLease(t, k) /\ c # "outcome_unknown" =>
               Truthful(t, "canceled", "none") /\ Truthful(t, "failed", c),
           NEW u \in Tasks
    PROVE  TaskStep(u)
<1>1. EndRun(t, k) /\ UNCHANGED <<ext, delivered, answered>>
  BY DEF SettleFailure
<1>2. CASE UNCHANGED storeVars
  BY <1>1, <1>2, EndsQuietly DEF TaskStep
<1>3. CASE HoldsLease(t, k) /\ c # "outcome_unknown" /\ CloseRow(t, "canceled", "none")
  BY <1>1, <1>3, EndsClosing DEF HoldsLease, TerminalStates, Codes
<1>4. CASE HoldsLease(t, k) /\ CloseRow(t, "failed", c)
  <2>1. Truthful(t, "failed", "outcome_unknown")
    BY DEF Truthful
  <2>2. QED
    BY <1>1, <1>4, <2>1, EndsClosing DEF HoldsLease, TerminalStates
<1>5. CASE HoldsLease(t, k) /\ CloseRow(t, "failed", "outcome_unknown")
  <2>1. Truthful(t, "failed", "outcome_unknown")
    BY DEF Truthful
  <2>2. QED
    BY <1>1, <1>5, <2>1, EndsClosing DEF HoldsLease, TerminalStates, Codes
<1>6. \/ UNCHANGED storeVars
      \/ HoldsLease(t, k) /\ c # "outcome_unknown" /\ CloseRow(t, "canceled", "none")
      \/ HoldsLease(t, k) /\ CloseRow(t, "failed", c)
      \/ HoldsLease(t, k) /\ CloseRow(t, "failed", "outcome_unknown")
  <2>1. CASE Owns(t, k) /\ row[t].state = "cancel_requested" /\ c # "outcome_unknown"
             /\ AcknowledgeCanceled(t, k)
    BY <2>1, Zenon DEF AcknowledgeCanceled
  <2>2. CASE FailTask(t, k, IF disp[run[t][k].by] = "stopping" THEN "outcome_unknown" ELSE c)
    BY <2>2 DEF FailTask
  <2>3. QED
    BY <2>1, <2>2, Zenon DEF SettleFailure
<1>7. QED
  BY <1>2, <1>3, <1>4, <1>5, <1>6

\* a stage is persisted: what it makes of the row and of the copies
LEMMA RecordRow ==
    ASSUME IInv, NEW t \in Tasks, NEW k \in Tokens, NEW x, NEW p, RecordExecution(t, k, x, p),
           NEW u \in Tasks
    PROVE  /\ HoldsLease(t, k)
           /\ CopiesCurrent(u)
           /\ u # t => row'[u] = row[u]
           /\ u = t => /\ CopiesStale(u)
                       /\ row'[u].state = row[u].state
                       /\ row'[u].code = row[u].code
                       /\ row'[u].lease = row[u].lease
                       /\ row'[u].exec = x
<1>1. CopiesCurrent(u) /\ (u = t => CopiesStale(u))
  BY TouchCopies DEF RecordExecution
<1>2. QED
  BY <1>1 DEF RecordExecution, IInv, TypeOK, Rows

LEMMA RecordElsewhere ==
    ASSUME IInv, NEW t \in Tasks, NEW k \in Tokens, NEW x, NEW p, RecordExecution(t, k, x, p),
           UNCHANGED <<delivered, answered>>, NEW u \in Tasks, u # t,
           \A j \in Tokens : run'[u][j] = run[u][j] /\ ext'[u][j] = ext[u][j]
    PROVE  Idle(u)
<1>1. Quiet(u) /\ CopiesCurrent(u) /\ row'[u] = row[u]
  BY RecordRow DEF Quiet, RunsEnd, EffectsKept
<1>2. QED
  BY <1>1, OtherRowIdle

\* an adopted row
LEMMA AdoptAttemptStep ==
    ASSUME IInv, NEW w \in Workers, NEW t \in Tasks, NEW k \in Tokens, AdoptAttempt(w, t, k),
           NEW u \in Tasks
    PROVE  TaskStep(u)
<1>1. EffectsKept(u) /\ CopiesCurrent(u) /\ (u = t => CopiesStale(u))
  BY SameEffects, ReconciledCopies DEF AdoptAttempt
<1>2. CASE u = t
  <2>1. Adopted(t, k)
    BY <1>1, <1>2 DEF AdoptAttempt, Adopt, Reconcilable, Adopted, Taken, IInv, TypeOK, Rows
  <2>2. QED
    BY <1>2, <2>1 DEF TaskStep
<1>3. CASE u # t
  <2>1. RunsEnd(u) /\ row'[u] = row[u]
    BY <1>3 DEF AdoptAttempt, Adopt, RunsEnd, IInv, TypeOK
  <2>2. QED
    BY <1>1, <1>3, <2>1, OtherRowIdle DEF Quiet, TaskStep
<1>4. QED
  BY <1>2, <1>3

LEMMA OrphanStep ==
    ASSUME IInv, NEW w \in Workers, NEW t \in Tasks, NEW k \in Tokens, Orphan(w, t, k),
           NEW u \in Tasks
    PROVE  Idle(u)
<1>1. EffectsKept(u) /\ CopiesCurrent(u)
  BY SameEffects, SameCopies DEF Orphan
<1>2. RunsEnd(u)
  BY DEF Orphan, RunsEnd, IInv, TypeOK, Runs, NoRun
<1>3. QED
  BY <1>1, <1>2 DEF Idle, Quiet, RowKept, Orphan

LEMMA LeftRows ==
    ASSUME NEW r \in Rows
    PROVE  /\ ReleasedRow(r).state = r.state
           /\ ReleasedRow(r).exec = r.exec
           /\ ReleasedRow(r).code = r.code
           /\ ReleasedRow(r).lease = NoToken
           /\ \A s, c : /\ ClosedRow(r, s, c).state = s
                       /\ ClosedRow(r, s, c).exec = r.exec
                       /\ ClosedRow(r, s, c).code = c
                       /\ ClosedRow(r, s, c).lease = NoToken
  BY DEF Rows, ReleasedRow, ClosedRow

\* rows released or closed as a process lets go of them
LEMMA AbandonStep ==
    ASSUME IInv, NEW w \in Workers, NEW left, Abandon(w, left), run' = RunsWithout(w),
           \A t \in Tasks : left[t] \in {ReleasedRow(row[t]),
                                         ClosedRow(row[t], "failed", "outcome_unknown")},
           NEW u \in Tasks
    PROVE  TaskStep(u)
<1>1. Quiet(u)
  BY WithoutRuns, SameEffects DEF Abandon, Quiet
<1>2. CASE u \notin OwnedBy(w)
  <2>1. row'[u] = row[u]
    BY <1>2 DEF Abandon
  <2>2. CopiesCurrent(u)
    BY <1>2 DEF Abandon, CopiesCurrent, IInv, FreshIsCurrent, NoSnap
  <2>3. QED
    BY <1>1, <2>1, <2>2 DEF Idle, RowKept, TaskStep
<1>3. CASE u \in OwnedBy(w)
  <2>1. CopiesStale(u) /\ CopiesCurrent(u)
    BY <1>3 DEF Abandon, CopiesStale, CopiesCurrent, NoSnap, IInv, TypeOK, Snaps
  <2>2. Leased(u) /\ row'[u] = left[u]
    BY <1>3 DEF Abandon, OwnedBy, HoldsLease
  <2>3. CASE left[u] = ReleasedRow(row[u])
    <3>1. RowKept(u) /\ row'[u].lease = NoToken
      BY <2>2, <2>3, LeftRows DEF RowKept, IInv, TypeOK
    <3>2. QED
      BY <1>1, <2>1, <3>1 DEF Idle, TaskStep
  <2>4. CASE left[u] = ClosedRow(row[u], "failed", "outcome_unknown")
    <3>1. /\ row'[u].state = "failed" /\ row'[u].code = "outcome_unknown"
          /\ row'[u].exec = row[u].exec /\ row'[u].lease = NoToken
      BY <2>2, <2>4, LeftRows DEF IInv, TypeOK
    <3>2. Closed(u)
      BY <1>1, <2>1, <2>2, <3>1 DEF Closed, SaysUntouched, TerminalStates
    <3>3. QED
      BY <3>2 DEF TaskStep
  <2>5. QED
    BY <2>3, <2>4
<1>4. QED
  BY <1>2, <1>3

-----------------------------------------------------------------------------
(* The actions, by the groups of Next.                                      *)

LEMMA OutsideStep ==
    ASSUME IInv, Outside, NEW u \in Tasks
    PROVE  TaskStep(u)
<1>1. ASSUME NEW t \in Tasks, Submit(t)
      PROVE  TaskStep(u)
  <2>1. Quiet(u) /\ CopiesCurrent(u)
    BY <1>1, SameEffects, SameCopies DEF Submit, SubmitTask, execVars, Quiet, RunsEnd
  <2>2. CASE u # t
    <3>1. \E r : row' = [row EXCEPT ![t] = r]
      BY <1>1, Zenon DEF Submit, SubmitTask
    <3>2. row'[u] = row[u]
      BY <2>2, <3>1 DEF IInv, TypeOK
    <3>3. QED
      BY <2>1, <2>2, <3>2, OtherRowIdle DEF TaskStep
  <2>3. CASE u = t /\ row' = [row EXCEPT ![t].state = "canceled"]
    <3>1. Born(u)
      BY <1>1, <2>1, <2>3 DEF Submit, SubmitTask, Born, IInv, TypeOK, Rows
    <3>2. QED
      BY <3>1 DEF TaskStep
  <2>4. CASE u = t /\ row' = [row EXCEPT ![t].state = "queued", ![t].due = TRUE]
              /\ (locked => t \notin VoiceTasks)
    <3>1. Born(u)
      BY <1>1, <2>1, <2>4 DEF Submit, SubmitTask, Born, IInv, TypeOK, Rows
    <3>2. QED
      BY <3>1 DEF TaskStep
  <2>5. QED
    BY <1>1, <2>2, <2>3, <2>4, Zenon DEF Submit, SubmitTask
<1>2. ASSUME NEW w \in Workers, NEW c \in Calls, NEW scope, NEW keys, CancelCall(w, c, keys, scope)
      PROVE  TaskStep(u)
  <2> DEFINE S == CancelSelection(c, keys, scope)
  <2>1. EffectsKept(u) /\ CopiesCurrent(u) /\ (u \in S => CopiesStale(u))
    BY <1>2, SameEffects, TouchCopies DEF CancelCall, CancelCallTasks
  <2>2. RunsEnd(u)
    BY <1>2, InterruptRuns DEF CancelCall, RunsEnd
  <2>3. CASE u \in S
    <3>1. Canceled(u)
      BY <1>2, <2>1, <2>2, <2>3 DEF CancelCall, CancelCallTasks, CancelSelection, CancelRow,
            Canceled, Quiet, LeasedStates, IInv, TypeOK, Rows
    <3>2. QED
      BY <3>1 DEF TaskStep
  <2>4. CASE u \notin S
    <3>1. row'[u] = row[u]
      BY <1>2, <2>4 DEF CancelCall, CancelCallTasks
    <3>2. QED
      BY <2>1, <2>2, <3>1 DEF Idle, Quiet, RowKept, TaskStep
  <2>5. QED
    BY <2>3, <2>4
<1>3. ASSUME NEW w \in Workers, NEW t \in Tasks, CancelTask(w, t)
      PROVE  TaskStep(u)
  <2>1. EffectsKept(u)
    BY <1>3, SameEffects DEF CancelTask
  <2>2. RunsEnd(u)
    BY <1>3, InterruptRuns, Zenon DEF CancelTask, RunsEnd
  <2>3. CASE UNCHANGED storeVars
    BY <2>1, <2>2, <2>3, SameCopies DEF storeVars, Idle, Quiet, RowKept, TaskStep
  <2>4. CASE RequestCancellation(t) /\ u = t
    <3>1. CopiesStale(u)
      BY <2>4, TouchCopies DEF RequestCancellation
    <3>2. Canceled(u)
      BY <2>1, <2>2, <2>4, <3>1 DEF RequestCancellation, CancelRow, Canceled, Quiet,
            LeasedStates, IInv, TypeOK, Rows
    <3>3. QED
      BY <3>2 DEF TaskStep
  <2>5. CASE RequestCancellation(t) /\ u # t
    <3>1. CopiesCurrent(u) /\ row'[u] = row[u]
      BY <2>5, TouchCopies DEF RequestCancellation
    <3>2. QED
      BY <2>1, <2>2, <2>5, <3>1, OtherRowIdle DEF Quiet, TaskStep
  <2>6. QED
    BY <1>3, <2>3, <2>4, <2>5 DEF CancelTask
<1>4. ASSUME NEW w \in Workers, Panic(w)
      PROVE  TaskStep(u)
  <2>1. EffectsKept(u) /\ CopiesCurrent(u) /\ (u \in PanicSelection => CopiesStale(u))
    BY <1>4, SameEffects, TouchCopies DEF Panic, PanicStore
  <2>2. RunsEnd(u)
    BY <1>4, InterruptRuns DEF Panic, RunsEnd
  <2>3. CASE u \in PanicSelection
    <3>1. Canceled(u)
      BY <1>4, <2>1, <2>2, <2>3 DEF Panic, PanicStore, PanicSelection, CancelRow,
            Canceled, Quiet, LeasedStates, IInv, TypeOK, Rows
    <3>2. QED
      BY <3>1 DEF TaskStep
  <2>4. CASE u \notin PanicSelection
    <3>1. row'[u] = row[u]
      BY <1>4, <2>4 DEF Panic, PanicStore
    <3>2. QED
      BY <2>1, <2>2, <3>1 DEF Idle, Quiet, RowKept, TaskStep
  <2>5. QED
    BY <2>3, <2>4
<1>5. CASE Unlock
  <2>1. Quiet(u) /\ CopiesCurrent(u)
    BY <1>5, SameEffects, SameCopies DEF Unlock, UnlockPanic, execVars, Quiet, RunsEnd
  <2>2. QED
    BY <1>5, <2>1 DEF Unlock, UnlockPanic, Idle, RowKept, TaskStep
<1>6. ASSUME NEW t \in Tasks, LeaseExpires(t) /\ UNCHANGED execVars
      PROVE  TaskStep(u)
  <2>1. Quiet(u) /\ CopiesCurrent(u)
    BY <1>6, SameEffects, SameCopies DEF LeaseExpires, execVars, Quiet, RunsEnd
  <2>2. QED
    BY <1>6, <2>1 DEF LeaseExpires, Idle, RowKept, TaskStep, IInv, TypeOK, Rows
<1>7. QED
  BY <1>1, <1>2, <1>3, <1>4, <1>5, <1>6 DEF Outside

LEMMA DispatchStep ==
    ASSUME IInv, NEW w \in Workers, NEW t \in Tasks, Dispatch(w, t), NEW u \in Tasks
    PROVE  TaskStep(u)
<1>1. ASSUME NEW k \in Tokens, Claim(w, t, k)
      PROVE  TaskStep(u)
  <2>1. EffectsKept(u) /\ CopiesCurrent(u) /\ (u = t => CopiesStale(u))
    BY <1>1, SameEffects, TouchCopies DEF Claim, ClaimNext
  <2>2. CASE u = t
    <3>1. Claimed(u, k)
      BY <1>1, <2>1, <2>2 DEF Claim, ClaimNext, FreshToken, Claimed, Taken, IInv, TypeOK, Rows
    <3>2. QED
      BY <3>1 DEF TaskStep
  <2>3. CASE u # t
    <3>1. RunsEnd(u) /\ row'[u] = row[u]
      BY <1>1, <2>3 DEF Claim, ClaimNext, RunsEnd, IInv, TypeOK
    <3>2. QED
      BY <2>1, <2>3, <3>1, OtherRowIdle DEF Quiet, TaskStep
  <2>4. QED
    BY <2>2, <2>3
<1>2. CASE HeartbeatTick(w, t)
  <2>1. EffectsKept(u) /\ CopiesCurrent(u)
    BY <1>2, SameEffects, TouchCopies DEF HeartbeatTick, Heartbeat
  <2>2. RunsEnd(u)
    BY <1>2, InterruptRuns DEF HeartbeatTick, RunsEnd
  <2>3. RowKept(u) /\ row'[u].lease = row[u].lease
    BY <1>2 DEF HeartbeatTick, Heartbeat, RowKept, IInv, TypeOK, Rows
  <2>4. QED
    BY <2>1, <2>2, <2>3 DEF Idle, Quiet, TaskStep
<1>3. CASE HeartbeatRejected(w, t)
  BY <1>3, OrphanStep DEF HeartbeatRejected, TaskStep, IInv, TypeOK
<1>4. QED
  BY <1>1, <1>2, <1>3 DEF Dispatch

\* A claimed attempt that holds its lease has written nothing: nothing was done.
LEMMA BegunIsClean ==
    ASSUME IInv, NEW t \in Tasks, NEW k \in Tokens, HoldsLease(t, k),
           run[t][k].at \in {"begun", "busy"}
    PROVE  row[t].exec \notin Intent
  BY DEF IInv, HolderKnows, Intent

LEMMA CleanIsTruthful ==
    ASSUME NEW t \in Tasks, row[t].exec \notin Intent, NEW s, NEW c, s # "completed"
    PROVE  Truthful(t, s, c)
  BY DEF Truthful

LEMMA AttemptStep ==
    ASSUME IInv, NEW t \in Tasks, NEW k \in Tokens, Attempt(t, k), NEW u \in Tasks
    PROVE  TaskStep(u)
<1>1. ASSUME NEW c \in Codes, BeginFails(t, k, c)
      PROVE  TaskStep(u)
  <2>1. HoldsLease(t, k) => Truthful(t, "canceled", "none") /\ Truthful(t, "failed", c)
    BY <1>1, BegunIsClean, CleanIsTruthful DEF BeginFails
  <2>2. QED
    BY <1>1, <2>1, FailureSettles DEF BeginFails
<1>2. CASE RecordAttempt(t, k)
  <2>1. RecordExecution(t, k, "attempt", NoToken) /\ UNCHANGED <<delivered, answered>>
    BY <1>2 DEF RecordAttempt
  <2>2. CASE u = t
    <3>1. Records(t, k, "attempt", "open", IF run[t][k].aborted THEN "none" ELSE "armed")
      BY <1>2, <2>1, <2>2, RecordRow DEF RecordAttempt, Records, IInv, TypeOK, Runs
    <3>2. QED
      BY <1>2, <2>2, <3>1 DEF RecordAttempt, Recorded, TaskStep
  <2>3. CASE u # t
    BY <1>2, <2>1, <2>3, RecordElsewhere DEF RecordAttempt, TaskStep, IInv, TypeOK
  <2>4. QED
    BY <2>2, <2>3
<1>3. CASE RecordVerified(t, k)
  <2>1. RecordExecution(t, k, "verified", NoToken) /\ UNCHANGED <<ext, delivered, answered>>
    BY <1>3 DEF RecordVerified
  <2>2. CASE u = t
    <3>1. Records(t, k, "verified", "sure", ext[t][k])
      BY <1>3, <2>1, <2>2, RecordRow DEF RecordVerified, Records, IInv, TypeOK, Runs
    <3>2. QED
      BY <1>3, <2>2, <3>1 DEF RecordVerified, Recorded, TaskStep
  <2>3. CASE u # t
    BY <1>3, <2>1, <2>3, RecordElsewhere DEF RecordVerified, TaskStep, IInv, TypeOK
  <2>4. QED
    BY <2>2, <2>3
<1>4. CASE Spawn(t, k)
  <2>1. RecordExecution(t, k, "pid", k) /\ UNCHANGED <<delivered, answered>>
    BY <1>4 DEF Spawn
  <2>2. CASE u = t
    <3>1. Records(t, k, "pid", "open", "waiting")
      BY <1>4, <2>1, <2>2, RecordRow DEF Spawn, Records, IInv, TypeOK, Runs
    <3>2. QED
      BY <1>4, <2>2, <3>1 DEF Spawn, Recorded, TaskStep
  <2>3. CASE u # t
    BY <1>4, <2>1, <2>3, RecordElsewhere DEF Spawn, TaskStep, IInv, TypeOK
  <2>4. QED
    BY <2>2, <2>3
<1>5. ASSUME NEW x, LaunchStatus(t, k, x)
      PROVE  /\ t \in ManagedTasks /\ run[t][k].at = "open" /\ ext[t][k] = "waiting"
             /\ RecordExecution(t, k, x, k) /\ UNCHANGED <<delivered, answered>>
  BY <1>5 DEF LaunchStatus, IInv, RunFits
<1>6. CASE Accepted(t, k)
  <2>1. /\ t \in ManagedTasks /\ run[t][k].at = "open" /\ ext[t][k] = "waiting"
        /\ RecordExecution(t, k, "started", k) /\ UNCHANGED <<delivered, answered>>
    BY <1>5, <1>6 DEF Accepted
  <2>2. CASE u = t
    <3>1. Records(t, k, "started", "open", "armed")
      BY <1>6, <2>1, <2>2, RecordRow DEF Accepted, Records, IInv, TypeOK, Runs
    <3>2. QED
      BY <2>1, <2>2, <3>1 DEF Recorded, TaskStep
  <2>3. CASE u # t
    BY <1>6, <2>1, <2>3, RecordElsewhere DEF Accepted, TaskStep, IInv, TypeOK
  <2>4. QED
    BY <2>2, <2>3
<1>7. CASE Refused(t, k)
  <2>1. /\ t \in ManagedTasks /\ run[t][k].at = "open" /\ ext[t][k] = "waiting"
        /\ RecordExecution(t, k, "busy", k) /\ UNCHANGED <<delivered, answered>>
    BY <1>5, <1>7 DEF Refused
  <2>2. CASE u = t
    <3>1. Records(t, k, "busy", "busy", "none")
      BY <1>7, <2>1, <2>2, RecordRow DEF Refused, Records, IInv, TypeOK, Runs
    <3>2. QED
      BY <2>1, <2>2, <3>1 DEF Recorded, TaskStep
  <2>3. CASE u # t
    BY <1>7, <2>1, <2>3, RecordElsewhere DEF Refused, TaskStep, IInv, TypeOK
  <2>4. QED
    BY <2>2, <2>3
<1>8. CASE LaunchUnknown(t, k)
  <2>1. /\ t \in ManagedTasks /\ run[t][k].at = "open" /\ ext[t][k] = "waiting"
        /\ RecordExecution(t, k, "unknown", k) /\ UNCHANGED <<delivered, answered>>
    BY <1>5, <1>8 DEF LaunchUnknown
  <2>2. CASE u = t
    <3>1. Records(t, k, "unknown", "open", "none")
      BY <1>8, <2>1, <2>2, RecordRow DEF LaunchUnknown, Records, IInv, TypeOK, Runs
    <3>2. QED
      BY <2>1, <2>2, <3>1 DEF Recorded, TaskStep
  <2>3. CASE u # t
    BY <1>8, <2>1, <2>3, RecordElsewhere DEF LaunchUnknown, TaskStep, IInv, TypeOK
  <2>4. QED
    BY <2>2, <2>3
<1>9. CASE TargetReturns(t, k) \/ ManagedReturns(t, k)
  <2>1. delivered[t] > 0
    BY <1>9 DEF TargetReturns, ManagedReturns, IInv, RunFits, AnswersFollow
  <2>2. QED
    BY <1>9, <2>1, SuccessSettles DEF TargetReturns, ManagedReturns
<1>10. CASE TargetThrows(t, k)
  BY <1>10, FailureSettles DEF TargetThrows, Codes
<1>11. CASE ManagedFails(t, k)
  <2>1. CASE SettleFailure(t, k, "outcome_unknown")
    BY <2>1, FailureSettles DEF Codes
  <2>2. CASE SettleFailure(t, k, "failed") /\ t \notin MutatingTasks
    <3>1. Truthful(t, "canceled", "none") /\ Truthful(t, "failed", "failed")
      BY <2>2 DEF Truthful
    <3>2. QED
      BY <2>2, <3>1, FailureSettles DEF Codes
  <2>3. QED
    BY <1>11, <2>1, <2>2 DEF ManagedFails
<1>12. CASE ManagedBusy(t, k)
  <2>1. run[t][k].at = "busy" /\ (HoldsLease(t, k) => row[t].exec \notin Intent)
    BY <1>12, BegunIsClean DEF ManagedBusy
  <2>2. ASSUME NEW c \in Codes, SettleFailure(t, k, c)
        PROVE  TaskStep(u)
    <3>1. HoldsLease(t, k) => Truthful(t, "canceled", "none") /\ Truthful(t, "failed", c)
      BY <2>1, CleanIsTruthful
    <3>2. QED
      BY <2>2, <3>1, FailureSettles
  <2>3. CASE DeferLeasedTask(t, k) /\ EndRun(t, k) /\ UNCHANGED <<ext, delivered, answered>>
    <3>1. Quiet(u) /\ CopiesCurrent(u) /\ (u = t => CopiesStale(u))
      BY <2>3, EndRunRuns, SameEffects, TouchCopies DEF DeferLeasedTask, Quiet
    <3>2. CASE u = t
      <4>1. GivenBack(t)
        BY <2>1, <2>3, <3>1, <3>2 DEF DeferLeasedTask, GivenBack, IInv, TypeOK, Rows
      <4>2. QED
        BY <3>2, <4>1 DEF TaskStep
    <3>3. CASE u # t
      BY <2>3, <3>1, <3>3, OtherRowIdle DEF DeferLeasedTask, TaskStep, IInv, TypeOK
    <3>4. QED
      BY <3>2, <3>3
  <2>4. "outcome_unknown" \in Codes /\ "failed" \in Codes
    BY DEF Codes
  <2>5. QED
    BY <1>12, <2>2, <2>3, <2>4, Zenon DEF ManagedBusy
<1>13. QED
  BY <1>1, <1>2, <1>3, <1>4, <1>6, <1>7, <1>8, <1>9, <1>10, <1>11, <1>12, Zenon DEF Attempt

LEMMA EffectStep ==
    ASSUME IInv, NEW t \in Tasks, NEW k \in Tokens, Effect(t, k), NEW u \in Tasks
    PROVE  TaskStep(u)
<1>1. /\ CopiesCurrent(u) /\ RowKept(u) /\ row'[u].lease = row[u].lease
      /\ \A j \in Tokens : run'[u][j].at = run[u][j].at
  <2>1. UNCHANGED <<storeVars, run>>
    BY Zenon DEF Effect, Land, Vanish, Forward, ChildExit
  <2>2. QED
    BY <2>1, SameCopies DEF storeVars, RowKept
<1>2. CASE u # t
  <2>1. EffectsKept(u)
    <3>1. \/ UNCHANGED ext
          \/ \E e : ext' = [ext EXCEPT ![t][k] = e]
      BY Zenon DEF Effect, Land, Vanish, Forward, ChildExit
    <3>2. \/ UNCHANGED delivered
          \/ \E n : delivered' = [delivered EXCEPT ![t] = n]
      BY Zenon DEF Effect, Land, Vanish, Forward, ChildExit
    <3>3. \/ UNCHANGED answered
          \/ \E n : answered' = [answered EXCEPT ![t] = n]
      BY Zenon DEF Effect, Land, Vanish, Forward, ChildExit
    <3>4. \A j \in Tokens : ext'[u][j] = ext[u][j]
      BY <1>2, <3>1 DEF IInv, TypeOK
    <3>5. delivered'[u] = delivered[u]
      BY <1>2, <3>2 DEF IInv, TypeOK
    <3>6. answered'[u] = answered[u]
      BY <1>2, <3>3 DEF IInv, TypeOK
    <3>7. QED
      BY <3>4, <3>5, <3>6 DEF EffectsKept
  <2>2. QED
    BY <1>1, <2>1 DEF Idle, Quiet, RunsEnd, TaskStep
<1>3. CASE u = t /\ Land(t, k)
  <2>1. OutsideOnly(u, k)
    BY <1>1, <1>3 DEF Land, OutsideOnly, IInv, TypeOK
  <2>2. ext[u][k] = "armed" /\ ext'[u][k] = "none" /\ answered'[u] = answered[u]
    BY <1>3 DEF Land, IInv, TypeOK
  <2>3. delivered'[u] = delivered[u] + 1
    BY <1>3 DEF Land, IInv, TypeOK
  <2>4. QED
    BY <2>1, <2>2, <2>3 DEF Lands, TaskStep
<1>4. CASE u = t /\ Forward(t, k)
  <2>1. Lands(u, k)
    BY <1>1, <1>4 DEF Forward, Lands, OutsideOnly, IInv, TypeOK
  <2>2. QED
    BY <2>1 DEF TaskStep
<1>5. CASE u = t /\ Vanish(t, k)
  <2>1. Lapses(u, k)
    BY <1>1, <1>5 DEF Vanish, Lapses, OutsideOnly, IInv, TypeOK
  <2>2. QED
    BY <2>1 DEF TaskStep
<1>6. CASE u = t /\ ChildExit(t, k)
  <2>1. CASE UNCHANGED answered
    <3>1. Lapses(u, k)
      BY <1>1, <1>6, <2>1 DEF ChildExit, Lapses, OutsideOnly, IInv, TypeOK
    <3>2. QED
      BY <3>1 DEF TaskStep
  <2>2. CASE ext[t][k] = "working"
    <3>1. Lapses(u, k)
      BY <1>1, <1>6, <2>2 DEF ChildExit, Lapses, OutsideOnly, IInv, TypeOK
    <3>2. QED
      BY <3>1 DEF TaskStep
  <2>3. QED
    BY <1>6, <2>1, <2>2 DEF ChildExit
<1>7. QED
  BY <1>2, <1>3, <1>4, <1>5, <1>6 DEF Effect

LEMMA AnswerStep ==
    ASSUME IInv, NEW t \in Tasks, Answer(t), NEW u \in Tasks
    PROVE  TaskStep(u)
<1>1. /\ RunsEnd(u) /\ CopiesCurrent(u) /\ RowKept(u) /\ row'[u].lease = row[u].lease
      /\ UNCHANGED <<ext, delivered>>
  BY SameCopies DEF Answer, storeVars, RowKept, RunsEnd
<1>2. CASE u = t
  BY <1>1, <1>2 DEF Answer, Answers, TaskStep
<1>3. CASE u # t
  <2>1. answered'[u] = answered[u]
    BY <1>3 DEF Answer, IInv, TypeOK
  <2>2. QED
    BY <1>1, <2>1 DEF Idle, Quiet, EffectsKept, TaskStep
<1>4. QED
  BY <1>2, <1>3

\* A fresh copy of a row that no lease covers: what was read still holds.
LEMMA SeenIsSo ==
    ASSUME IInv, NEW w \in Workers, NEW t \in Tasks, Reconcilable(w, t)
    PROVE  Seen(w, t).exec = row[t].exec /\ Seen(w, t).state = row[t].state
  BY DEF IInv, FreshIsCurrent, Reconcilable, Seen

LEMMA UntouchedIsClean ==
    ASSUME IInv, NEW w \in Workers, NEW t \in Tasks, Reconcilable(w, t),
           Untouched(t, Seen(w, t))
    PROVE  row[t].exec \notin Intent
  BY SeenIsSo DEF Untouched, Intent

LEMMA ReconciliationStep ==
    ASSUME IInv, ExecutorAssumption, NEW w \in Workers, NEW t \in Tasks, Reconciliation(w, t),
           NEW u \in Tasks
    PROVE  TaskStep(u)
<1>1. CASE Inspect(w, t)
  <2>1. Quiet(u)
    BY <1>1, SameEffects DEF Inspect, execVars, Quiet, RunsEnd
  <2>2. CopiesCurrent(u)
    BY <1>1 DEF Inspect, ListCandidate, CopiesCurrent, IInv, TypeOK, FreshIsCurrent
  <2>3. QED
    BY <1>1, <2>1, <2>2 DEF Inspect, ListCandidate, Idle, RowKept, TaskStep
<1>2. CASE Defer(w, t)
  <2>1. Quiet(u)
    BY <1>2, SameEffects DEF Defer, execVars, Quiet, RunsEnd
  <2>2. CopiesCurrent(u)
    BY <1>2 DEF Defer, CopiesCurrent, IInv, TypeOK, FreshIsCurrent, NoSnap
  <2>3. QED
    BY <1>2, <2>1, <2>2 DEF Defer, Idle, RowKept, TaskStep
<1>3. CASE RequeueUntouched(w, t)
  <2>1. Reconcilable(w, t) /\ UNCHANGED <<run, ext, delivered, answered>> /\ Reconciled(w, t)
    BY <1>3 DEF RequeueUntouched, Requeue, Settled, execVars
  <2>2. Quiet(u) /\ CopiesCurrent(u) /\ (u = t => CopiesStale(u))
    BY <2>1, SameEffects, ReconciledCopies DEF Quiet, RunsEnd
  <2>3. CASE u = t
    <3>1. row[t].exec \notin Intent /\ row[t].state = "running"
      BY <1>3, <2>1, UntouchedIsClean DEF RequeueUntouched, Requeue, Reconcilable, Leased,
                                          LeasedStates
    <3>2. GivenBack(t)
      BY <1>3, <2>2, <2>3, <3>1 DEF RequeueUntouched, Requeue, GivenBack, IInv, TypeOK, Rows
    <3>3. QED
      BY <2>3, <3>2 DEF TaskStep
  <2>4. CASE u # t
    BY <1>3, <2>2, <2>4, OtherRowIdle DEF RequeueUntouched, Requeue, TaskStep, IInv, TypeOK
  <2>5. QED
    BY <2>3, <2>4
<1>4. CASE CancelUntouched(w, t)
  <2>1. Truthful(t, "canceled", "none")
    BY <1>4, UntouchedIsClean, CleanIsTruthful DEF CancelUntouched, ReconcileClose
  <2>2. QED
    BY <1>4, <2>1, VerdictCloses DEF CancelUntouched, TerminalStates, Codes
<1>5. CASE CompleteVerified(w, t)
  <2>1. Truthful(t, "completed", "none")
    BY <1>5, SeenIsSo DEF CompleteVerified, ReconcileClose, IInv, AnswersFollow, Truthful
  <2>2. QED
    BY <1>5, <2>1, VerdictCloses DEF CompleteVerified, TerminalStates, Codes
<1>6. CASE ReconcileAnswered(w, t)
  <2>1. delivered[t] > 0 /\ t \notin MutatingTasks
    BY <1>6, SeenIsSo DEF ReconcileAnswered, ReconcileClose, IInv, AnswersFollow, RowClean,
                          ExecutorAssumption, ManagedTasks
  <2>2. Truthful(t, "canceled", "none") /\ Truthful(t, "completed", "none")
    BY <2>1 DEF Truthful
  <2>3. "canceled" \in TerminalStates /\ "completed" \in TerminalStates /\ "none" \in Codes
    BY DEF TerminalStates, Codes
  <2>4. ASSUME NEW s \in TerminalStates, Truthful(t, s, "none"), ReconcileClose(w, t, s, "none")
        PROVE  TaskStep(u)
    BY <1>6, <2>3, <2>4, VerdictCloses DEF ReconcileAnswered
  <2>5. QED
    BY <1>6, <2>2, <2>3, <2>4 DEF ReconcileAnswered
<1>7. CASE ReconcileUnanswered(w, t)
  <2>1. PICK c \in {"outcome_unknown", "response_timeout"} : ReconcileClose(w, t, "failed", c)
    BY <1>7 DEF ReconcileUnanswered
  <2>2. Truthful(t, "failed", c)
    BY DEF Truthful
  <2>3. QED
    BY <1>7, <2>1, <2>2, VerdictCloses DEF ReconcileUnanswered, TerminalStates, Codes
<1>8. CASE ProcessGone(w, t)
  <2>1. Truthful(t, "failed", "outcome_unknown")
    BY DEF Truthful
  <2>2. QED
    BY <1>8, <2>1, VerdictCloses DEF ProcessGone, TerminalStates, Codes
<1>9. ASSUME NEW k \in Tokens, MonitorTarget(w, t, k) \/ AdoptProcess(w, t, k)
      PROVE  TaskStep(u)
  BY <1>9, AdoptAttemptStep DEF MonitorTarget, AdoptProcess
<1>10. QED
  BY <1>1, <1>2, <1>3, <1>4, <1>5, <1>6, <1>7, <1>8, <1>9 DEF Reconciliation

LEMMA PollStep ==
    ASSUME IInv, ExecutorAssumption, NEW t \in Tasks, NEW k \in Tokens, Poll(t, k),
           NEW u \in Tasks
    PROVE  TaskStep(u)
<1>1. EndRun(t, k) /\ UNCHANGED <<ext, delivered, answered>>
  BY DEF Poll, PollTerminal, PollProcess, PollTarget
<1>2. CASE PollTerminal(t, k)
  BY <1>1, <1>2, EndsQuietly DEF PollTerminal, TaskStep
<1>3. ASSUME NEW c \in {"outcome_unknown", "response_timeout"}, FailTask(t, k, c)
      PROVE  TaskStep(u)
  <2>1. Truthful(t, "failed", c)
    BY DEF Truthful
  <2>2. QED
    BY <1>1, <1>3, <2>1, EndsClosing DEF FailTask, HoldsLease, TerminalStates, Codes
<1>4. CASE t \in TargetTasks /\ AcknowledgeCanceled(t, k)
  <2>1. Truthful(t, "canceled", "none")
    BY <1>4 DEF Truthful, ExecutorAssumption
  <2>2. QED
    BY <1>1, <1>4, <2>1, EndsClosing DEF AcknowledgeCanceled, HoldsLease, TerminalStates,
       Codes
<1>5. CASE answered[t] /\ CompleteTask(t, k, FALSE)
  <2>1. Truthful(t, "completed", "none")
    BY <1>5 DEF Truthful, IInv, AnswersFollow
  <2>2. QED
    BY <1>1, <1>5, <2>1, EndsClosing DEF CompleteTask, HoldsLease, TerminalStates, Codes
<1>6. CASE PollProcess(t, k)
  BY <1>3, <1>6 DEF PollProcess
<1>7. CASE PollTarget(t, k)
  BY <1>3, <1>4, <1>5, <1>7 DEF PollTarget
<1>8. QED
  BY <1>2, <1>6, <1>7 DEF Poll

LEMMA LifeStep ==
    ASSUME IInv, NEW w \in Workers, Lifecycle(w) \/ Fault(w), NEW u \in Tasks
    PROVE  TaskStep(u)
<1>1. CASE Boot(w) \/ Start(w) \/ StartDone(w)
  <2>1. UNCHANGED <<storeVars, run, ext, delivered, answered>>
    BY <1>1 DEF Boot, Start, StartDone
  <2>2. QED
    BY <2>1, SameEffects, SameCopies DEF storeVars, Idle, Quiet, RunsEnd, RowKept, TaskStep
<1>2. CASE snap' = NoSnaps(w) /\ UNCHANGED <<row, ext, delivered, answered>> /\ RunsEnd(u)
  <2>1. CopiesCurrent(u)
    BY <1>2 DEF NoSnaps, NoSnap, CopiesCurrent, IInv, TypeOK, FreshIsCurrent
  <2>2. QED
    BY <1>2, <2>1, SameEffects DEF Idle, Quiet, RowKept, TaskStep
<1>3. CASE Crash(w)
  BY <1>2, <1>3, WithoutRuns DEF Crash
<1>4. CASE Shutdown(w)
  BY <1>2, <1>4, InterruptRuns DEF Shutdown, RunsEnd
<1>5. CASE StartFails(w)
  BY <1>5, AbandonStep DEF StartFails
<1>6. CASE ShutdownEnd(w)
  BY <1>6, AbandonStep DEF ShutdownEnd
<1>7. ASSUME NEW t \in Tasks, HeartbeatFails(w, t)
      PROVE  TaskStep(u)
  BY <1>7, OrphanStep DEF HeartbeatFails, TaskStep, IInv, TypeOK
<1>8. QED
  BY <1>1, <1>3, <1>4, <1>5, <1>6, <1>7 DEF Lifecycle, Fault

\* What any step does to any task is one of the eleven changes.
LEMMA StepOfTask ==
    ASSUME IInv, ExecutorAssumption, [Next]_vars, NEW u \in Tasks
    PROVE  TaskStep(u)
<1>1. CASE Outside
  BY <1>1, OutsideStep
<1>2. ASSUME NEW w \in Workers, Lifecycle(w) \/ Fault(w)
      PROVE  TaskStep(u)
  BY <1>2, LifeStep
<1>3. ASSUME NEW w \in Workers, NEW t \in Tasks, Dispatch(w, t) \/ Reconciliation(w, t)
      PROVE  TaskStep(u)
  BY <1>3, DispatchStep, ReconciliationStep
<1>4. ASSUME NEW t \in Tasks, NEW k \in Tokens, Attempt(t, k) \/ Effect(t, k) \/ Poll(t, k)
      PROVE  TaskStep(u)
  BY <1>4, AttemptStep, EffectStep, PollStep
<1>5. ASSUME NEW t \in Tasks, Answer(t)
      PROVE  TaskStep(u)
  BY <1>5, AnswerStep
<1>6. ASSUME NEW t \in Tasks, DelayElapses(t) /\ UNCHANGED execVars
      PROVE  TaskStep(u)
  <2>1. Quiet(u) /\ CopiesCurrent(u)
    BY <1>6, SameEffects, SameCopies DEF DelayElapses, execVars, Quiet, RunsEnd
  <2>2. QED
    BY <1>6, <2>1 DEF DelayElapses, Idle, RowKept, TaskStep, IInv, TypeOK, Rows
<1>7. CASE UNCHANGED vars
  <2>1. Quiet(u) /\ CopiesCurrent(u)
    BY <1>7, SameEffects, SameCopies DEF vars, Quiet, RunsEnd
  <2>2. QED
    BY <1>7, <2>1 DEF vars, Idle, RowKept, TaskStep
<1>8. QED
  BY <1>1, <1>2, <1>3, <1>4, <1>5, <1>6, <1>7 DEF Next

-----------------------------------------------------------------------------
(* The eleven changes against each part of IInv.                            *)

LEMMA KeepsRowClean ==
    ASSUME IInv, NEW u \in Tasks, TaskStep(u)
    PROVE  RowClean(u)'
<1>1. RowClean(u) /\ row[u] \in Rows
  BY DEF IInv, TypeOK
<1>2. CASE Idle(u) \/ Canceled(u) \/ Born(u)
  BY <1>1, <1>2 DEF RowClean, Idle, Canceled, Born, RowKept, LeasedStates
<1>3. CASE GivenBack(u) \/ Closed(u) \/ Answers(u)
  BY <1>1, <1>3 DEF RowClean, GivenBack, Closed, Answers, RowKept, TerminalStates,
     LeasedStates
<1>4. ASSUME NEW k \in Tokens, Claimed(u, k) \/ Adopted(u, k)
      PROVE  RowClean(u)'
  BY <1>1, <1>4 DEF RowClean, Claimed, Adopted, Taken, Leased, LeasedStates
<1>5. ASSUME NEW k \in Tokens, Recorded(u, k)
      PROVE  RowClean(u)'
  BY <1>1, <1>5 DEF RowClean, Recorded, Records, HoldsLease, Leased, LeasedStates,
     ManagedTasks
<1>6. ASSUME NEW k \in Tokens, Lands(u, k) \/ Lapses(u, k)
      PROVE  RowClean(u)'
  BY <1>1, <1>6 DEF RowClean, Lands, Lapses, OutsideOnly, RowKept
<1>7. QED
  BY <1>2, <1>3, <1>4, <1>5, <1>6 DEF TaskStep

LEMMA KeepsFreshIsCurrent ==
    ASSUME IInv, NEW u \in Tasks, TaskStep(u), NEW w \in Workers
    PROVE  FreshIsCurrent(w, u)'
<1>1. CASE CopiesStale(u)
  BY <1>1 DEF CopiesStale, FreshIsCurrent
<1>2. CASE CopiesCurrent(u) /\ row'[u].state = row[u].state /\ row'[u].exec = row[u].exec
  BY <1>2 DEF CopiesCurrent, FreshIsCurrent, Leased
<1>3. CASE Born(u)
  BY <1>3 DEF Born, CopiesCurrent, FreshIsCurrent, Leased, LeasedStates
<1>4. CASE Idle(u) \/ Answers(u) \/ \E k \in Tokens : Lands(u, k) \/ Lapses(u, k)
  BY <1>2, <1>4 DEF Idle, Answers, Lands, Lapses, OutsideOnly, RowKept
<1>5. CASE \/ Canceled(u) \/ GivenBack(u) \/ Closed(u)
           \/ \E k \in Tokens : Claimed(u, k) \/ Adopted(u, k) \/ Recorded(u, k)
  BY <1>1, <1>5, Zenon DEF Canceled, GivenBack, Closed, Claimed, Adopted, Taken, Recorded,
     Records
<1>6. QED
  BY <1>3, <1>4, <1>5 DEF TaskStep

LEMMA KeepsRunFits ==
    ASSUME IInv, NEW u \in Tasks, TaskStep(u), NEW j \in Tokens
    PROVE  RunFits(u, j)'
<1>1. RunFits(u, j) /\ delivered[u] \in Nat
  BY DEF IInv, TypeOK
<1>2. CASE Quiet(u) \/ Answers(u)
  BY <1>1, <1>2 DEF RunFits, Quiet, Answers, RunsEnd, EffectsKept
<1>3. ASSUME NEW k \in Tokens, Claimed(u, k) \/ Adopted(u, k)
      PROVE  RunFits(u, j)'
  BY <1>1, <1>3 DEF RunFits, Claimed, Adopted, Taken, EffectsKept
<1>4. ASSUME NEW k \in Tokens, Recorded(u, k)
      PROVE  RunFits(u, j)'
  BY <1>1, <1>4 DEF RunFits, Recorded, Records
<1>5. ASSUME NEW k \in Tokens, Lands(u, k) \/ Lapses(u, k)
      PROVE  RunFits(u, j)'
  BY <1>1, <1>5 DEF RunFits, Lands, Lapses, OutsideOnly
<1>6. QED
  BY <1>2, <1>3, <1>4, <1>5 DEF TaskStep, Idle, Born, Canceled, GivenBack, Closed

LEMMA KeepsHolderKnows ==
    ASSUME IInv, StoreAssumption, NEW u \in Tasks, TaskStep(u), NEW j \in Tokens
    PROVE  HolderKnows(u, j)'
<1>1. HolderKnows(u, j) /\ RowClean(u) /\ NoToken \notin Tokens
  BY DEF IInv, StoreAssumption
<1>2. CASE GivenBack(u) \/ Closed(u)
  BY <1>1, <1>2 DEF GivenBack, Closed, HolderKnows, HoldsLease
<1>3. CASE Born(u)
  BY <1>1, <1>3 DEF Born, RowClean, HolderKnows, HoldsLease
<1>4. CASE Idle(u) \/ Answers(u)
  BY <1>1, <1>4 DEF Idle, Quiet, Answers, RowKept, RunsEnd, EffectsKept, HolderKnows,
                    HoldsLease, Leased
<1>5. CASE Canceled(u)
  BY <1>1, <1>5 DEF Canceled, Quiet, RunsEnd, EffectsKept, HolderKnows, HoldsLease, Leased,
                    LeasedStates
<1>6. ASSUME NEW k \in Tokens, Claimed(u, k) \/ Adopted(u, k)
      PROVE  HolderKnows(u, j)'
  BY <1>1, <1>6 DEF Claimed, Adopted, Taken, EffectsKept, RowClean, HolderKnows, HoldsLease,
     Leased
<1>7. ASSUME NEW k \in Tokens, Recorded(u, k)
      PROVE  HolderKnows(u, j)'
  BY <1>1, <1>7 DEF Recorded, Records, HolderKnows, HoldsLease, Leased
<1>8. ASSUME NEW k \in Tokens, Lands(u, k) \/ Lapses(u, k)
      PROVE  HolderKnows(u, j)'
  BY <1>1, <1>8 DEF Lands, Lapses, OutsideOnly, RowKept, HolderKnows, HoldsLease, Leased
<1>9. QED
  BY <1>2, <1>3, <1>4, <1>5, <1>6, <1>7, <1>8 DEF TaskStep

\* While no intent is durable there is no permit and there was no delivery.
LEMMA NothingYet ==
    ASSUME IInv, NEW u \in Tasks, row[u].exec \notin Intent
    PROVE  delivered[u] = 0 /\ \A k \in Tokens : ext[u][k] \notin {"armed", "working"}
  BY DEF IInv, TypeOK, IntentBeforeEffect, InFlight

\* The stages a claimed attempt is at before it may arm anything.
LEMMA RecordsInTime ==
    ASSUME IInv, NEW u \in Tasks, NEW k \in Tokens, HoldsLease(u, k),
           run[u][k].at = "begun" \/ (run[u][k].at = "open" /\ ext[u][k] = "waiting")
    PROVE  row[u].exec \notin Intent
  BY DEF IInv, HolderKnows, Intent

LEMMA KeepsOnePermit ==
    ASSUME IInv, NEW u \in Tasks, TaskStep(u), NEW i \in Tokens, NEW j \in Tokens
    PROVE  OnePermit(u, i, j)'
<1>1. OnePermit(u, i, j) /\ OnePermit(u, j, i) /\ delivered[u] \in Nat
  BY DEF IInv, TypeOK
<1>2. CASE \/ Quiet(u) \/ Answers(u)
           \/ \E k \in Tokens : Claimed(u, k) \/ Adopted(u, k)
  BY <1>1, <1>2 DEF OnePermit, Quiet, Answers, EffectsKept, Claimed, Adopted, Taken
<1>3. ASSUME NEW k \in Tokens, Recorded(u, k)
      PROVE  OnePermit(u, i, j)'
  <2>1. CASE u \in TargetTasks /\ delivered[u] > 0 /\ Records(u, k, "verified", "sure", ext[u][k])
    BY <1>1, <2>1 DEF Records, OnePermit
  <2>2. CASE /\ run[u][k].at = "begun" \/ (run[u][k].at = "open" /\ ext[u][k] = "waiting")
             /\ \E x, at, e : Records(u, k, x, at, e)
    <3>1. delivered[u] = 0 /\ ext[u][i] # "armed" /\ ext[u][j] # "armed"
      BY <2>2, RecordsInTime, NothingYet DEF Records
    <3>2. QED
      BY <2>2, <3>1 DEF Records, OnePermit
  <2>3. QED
    BY <1>3, <2>1, <2>2, Zenon DEF Recorded
<1>4. ASSUME NEW k \in Tokens, Lands(u, k) \/ Lapses(u, k)
      PROVE  OnePermit(u, i, j)'
  <2>1. OnePermit(u, i, k)  /\ OnePermit(u, j, k)
    BY DEF IInv
  <2>2. CASE Lands(u, k)
    BY <2>1, <2>2 DEF Lands, OutsideOnly, OnePermit
  <2>3. CASE Lapses(u, k)
    BY <1>1, <2>3 DEF Lapses, OutsideOnly, OnePermit
  <2>4. QED
    BY <1>4, <2>2, <2>3
<1>5. QED
  BY <1>2, <1>3, <1>4 DEF TaskStep, Idle, Born, Canceled, GivenBack, Closed

LEMMA KeepsAnswersFollow ==
    ASSUME IInv, NEW u \in Tasks, TaskStep(u)
    PROVE  AnswersFollow(u)'
<1>1. AnswersFollow(u) /\ delivered[u] \in Nat
  BY DEF IInv, TypeOK
<1>2. CASE Idle(u) \/ Born(u) \/ Canceled(u) \/ GivenBack(u) \/ Closed(u)
  BY <1>1, <1>2 DEF AnswersFollow, Idle, Born, Canceled, GivenBack, Closed, Quiet,
     EffectsKept,
                    RowKept
<1>3. CASE Answers(u)
  BY <1>3 DEF AnswersFollow, Answers
<1>4. ASSUME NEW k \in Tokens, Claimed(u, k) \/ Adopted(u, k)
      PROVE  AnswersFollow(u)'
  BY <1>1, <1>4 DEF AnswersFollow, Claimed, Adopted, Taken, EffectsKept
<1>5. ASSUME NEW k \in Tokens, Recorded(u, k)
      PROVE  AnswersFollow(u)'
  BY <1>1, <1>5 DEF AnswersFollow, Recorded, Records
<1>6. ASSUME NEW k \in Tokens, Lands(u, k) \/ Lapses(u, k)
      PROVE  AnswersFollow(u)'
  <2>1. RunFits(u, k)
    BY DEF IInv
  <2>2. QED
    BY <1>1, <1>6, <2>1 DEF AnswersFollow, RunFits, Lands, Lapses, OutsideOnly, RowKept
<1>7. QED
  BY <1>2, <1>3, <1>4, <1>5, <1>6 DEF TaskStep

LEMMA KeepsUntouched ==
    ASSUME IInv, NEW u \in Tasks, TaskStep(u)
    PROVE  UntouchedHasNoIntent(u)'
<1>1. UntouchedHasNoIntent(u) /\ RowClean(u)
  BY DEF IInv
<1>2. CASE Idle(u) \/ Answers(u) \/ \E k \in Tokens : Lands(u, k) \/ Lapses(u, k)
  <2>1. RowKept(u)
    BY <1>2 DEF Idle, Answers, Lands, Lapses, OutsideOnly
  <2>2. QED
    BY <1>1, <2>1 DEF UntouchedHasNoIntent, SaysUntouched, RowKept
<1>3. CASE Born(u) \/ Canceled(u)
  BY <1>1, <1>3 DEF UntouchedHasNoIntent, SaysUntouched, Born, Canceled, RowClean, Intent
<1>4. CASE Closed(u)
  BY <1>4 DEF UntouchedHasNoIntent, Closed
<1>5. CASE \/ GivenBack(u)
           \/ \E k \in Tokens : Claimed(u, k) \/ Adopted(u, k) \/ Recorded(u, k)
  <2>1. row'[u].state \in {"queued"} \cup LeasedStates
    BY <1>5 DEF GivenBack, Claimed, Adopted, Recorded, Records, HoldsLease, Leased,
       LeasedStates
  <2>2. QED
    BY <2>1 DEF UntouchedHasNoIntent, SaysUntouched, LeasedStates
<1>6. QED
  BY <1>2, <1>3, <1>4, <1>5 DEF TaskStep

\* AtMostOnce, IntentBeforeEffect and VerifiedCompletion of one task
Once(t) == delivered[t] <= 1
IntentFirst(t) == InFlight(t) \/ delivered[t] > 0 => row[t].exec \in Intent
CompletedOnce(t) == row[t].state = "completed" => delivered[t] = 1

LEMMA KeepsOnce ==
    ASSUME IInv, NEW u \in Tasks, TaskStep(u)
    PROVE  Once(u)'
<1>1. Once(u) /\ delivered[u] \in Nat
  BY DEF IInv, TypeOK, AtMostOnce, Once
<1>2. ASSUME NEW k \in Tokens, Lands(u, k)
      PROVE  Once(u)'
  <2>1. delivered[u] = 0
    BY <1>2 DEF Lands, IInv, OnePermit
  <2>2. QED
    BY <1>2, <2>1 DEF Lands, Once
<1>3. CASE delivered'[u] = delivered[u]
  BY <1>1, <1>3 DEF Once
<1>4. QED
  BY <1>2, <1>3, Zenon DEF TaskStep, Idle, Born, Canceled, GivenBack, Closed, Answers, Quiet,
     EffectsKept,
        Claimed, Adopted, Taken, Recorded, Records, Lapses

LEMMA KeepsIntentFirst ==
    ASSUME IInv, NEW u \in Tasks, TaskStep(u)
    PROVE  IntentFirst(u)'
<1>1. IntentFirst(u) /\ delivered[u] \in Nat
  BY DEF IInv, TypeOK, IntentBeforeEffect, IntentFirst
<1>2. CASE EffectsKept(u) /\ row'[u].exec = row[u].exec
  BY <1>1, <1>2 DEF EffectsKept, IntentFirst, InFlight
<1>3. CASE GivenBack(u)
  <2>1. delivered'[u] = 0 /\ \A k \in Tokens : ext'[u][k] \notin {"armed", "working"}
    BY <1>3, NothingYet DEF GivenBack, Quiet, EffectsKept
  <2>2. QED
    BY <2>1 DEF IntentFirst, InFlight
<1>4. CASE Answers(u)
  BY <1>1, <1>4 DEF Answers, RowKept, IntentFirst, InFlight
<1>5. ASSUME NEW k \in Tokens, Recorded(u, k)
      PROVE  IntentFirst(u)'
  <2>1. CASE row'[u].exec \in Intent
    BY <2>1 DEF IntentFirst
  <2>2. CASE \/ run[u][k].at = "begun" /\ Records(u, k, "pid", "open", "waiting")
             \/ /\ run[u][k].at = "open" /\ ext[u][k] = "waiting"
                /\ \/ Records(u, k, "busy", "busy", "none")
                   \/ Records(u, k, "unknown", "open", "none")
    <3>1. delivered[u] = 0 /\ \A j \in Tokens : ext[u][j] \notin {"armed", "working"}
      BY <2>2, RecordsInTime, NothingYet DEF Records
    <3>2. delivered'[u] = 0 /\ \A j \in Tokens : ext'[u][j] \notin {"armed", "working"}
      BY <2>2, <3>1 DEF Records
    <3>3. QED
      BY <3>2 DEF IntentFirst, InFlight
  <2>3. QED
    BY <1>5, <2>1, <2>2 DEF Recorded, Records, Intent
<1>6. ASSUME NEW k \in Tokens, Lands(u, k)
      PROVE  IntentFirst(u)'
  BY <1>1, <1>6 DEF Lands, OutsideOnly, RowKept, IntentFirst, InFlight
<1>7. ASSUME NEW k \in Tokens, Lapses(u, k)
      PROVE  IntentFirst(u)'
  BY <1>1, <1>7 DEF Lapses, OutsideOnly, RowKept, IntentFirst, InFlight
<1>8. QED
  BY <1>2, <1>3, <1>4, <1>5, <1>6, <1>7, Zenon DEF TaskStep, Idle, Born, Canceled, Closed,
     Quiet, RowKept,
        Claimed, Adopted, Taken

LEMMA KeepsCompletedOnce ==
    ASSUME IInv, NEW u \in Tasks, TaskStep(u)
    PROVE  CompletedOnce(u)'
<1>1. CompletedOnce(u) /\ Once(u) /\ delivered[u] \in Nat
  BY DEF IInv, TypeOK, VerifiedCompletion, AtMostOnce, CompletedOnce, Once
<1>2. CASE Closed(u)
  BY <1>1, <1>2 DEF Closed, Quiet, EffectsKept, CompletedOnce, Once
<1>3. ASSUME NEW k \in Tokens, Lands(u, k)
      PROVE  CompletedOnce(u)'
  <2>1. delivered[u] = 0 /\ row'[u].state = row[u].state
    BY <1>3 DEF Lands, OutsideOnly, RowKept, IInv, OnePermit
  <2>2. QED
    BY <1>1, <2>1 DEF CompletedOnce
<1>4. CASE delivered'[u] = delivered[u] /\ (row'[u].state = "completed" => row[u].state = "completed")
  BY <1>1, <1>4 DEF CompletedOnce
<1>5. CASE Idle(u) \/ Born(u) \/ Canceled(u) \/ GivenBack(u) \/ Answers(u)
  BY <1>4, <1>5 DEF Idle, Born, Canceled, GivenBack, Answers, Quiet, EffectsKept, RowKept
<1>6. ASSUME NEW k \in Tokens, Claimed(u, k) \/ Adopted(u, k) \/ Recorded(u, k) \/ Lapses(u, k)
      PROVE  CompletedOnce(u)'
  <2>1. delivered'[u] = delivered[u]
    BY <1>6, Zenon DEF Claimed, Adopted, Taken, EffectsKept, Recorded, Records, Lapses
  <2>2. row'[u].state = "completed" => row[u].state = "completed"
    BY <1>6 DEF Claimed, Adopted, Recorded, Records, Lapses, OutsideOnly, RowKept
  <2>3. QED
    BY <1>4, <2>1, <2>2
<1>7. QED
  BY <1>2, <1>3, <1>5, <1>6 DEF TaskStep

-----------------------------------------------------------------------------
(* Invariants.                                                              *)

LEMMA InvInit == Init => IInv
<1> SUFFICES ASSUME Init PROVE IInv
  OBVIOUS
<1>1. TypeOK
  BY TypeInit
<1>2. \A t \in Tasks : row[t] = AbsentRow /\ delivered[t] = 0 /\ answered[t] = FALSE
  BY DEF Init, StoreInit
<1>3. \A t \in Tasks, k \in Tokens : run[t][k] = NoRun /\ ext[t][k] = "none"
  BY DEF Init
<1>4. \A w \in Workers, t \in Tasks : snap[w][t].mark = "none"
  BY DEF Init, StoreInit, NoSnap
<1>5. \A t \in Tasks : RowClean(t) /\ AnswersFollow(t) /\ UntouchedHasNoIntent(t)
  <2> SUFFICES ASSUME NEW t \in Tasks
               PROVE  RowClean(t) /\ AnswersFollow(t) /\ UntouchedHasNoIntent(t)
    OBVIOUS
  <2>1. row[t].state = "absent" /\ row[t].exec = "none" /\ row[t].lease = NoToken
    BY <1>2 DEF AbsentRow
  <2>2. ~answered[t]
    BY <1>2
  <2>3. QED
    BY <2>1, <2>2 DEF RowClean, AnswersFollow, UntouchedHasNoIntent, SaysUntouched
<1>6. \A w \in Workers, t \in Tasks : FreshIsCurrent(w, t)
  BY <1>4 DEF FreshIsCurrent
<1>7. \A t \in Tasks, k \in Tokens : HolderKnows(t, k) /\ RunFits(t, k)
  BY <1>2, <1>3 DEF HolderKnows, HoldsLease, Leased, LeasedStates, AbsentRow, RunFits, NoRun
<1>8. \A t \in Tasks, j, k \in Tokens : OnePermit(t, j, k)
  BY <1>3 DEF OnePermit
<1>9. AtMostOnce /\ IntentBeforeEffect /\ VerifiedCompletion
  BY <1>2, <1>3 DEF AtMostOnce, IntentBeforeEffect, InFlight, VerifiedCompletion, AbsentRow
<1>10. QED
  BY <1>1, <1>5, <1>6, <1>7, <1>8, <1>9 DEF IInv

LEMMA InvNext ==
    ASSUME StoreAssumption, ExecutorAssumption, IInv, [Next]_vars
    PROVE  IInv'
<1>1. TypeOK'
  BY TypeNext DEF IInv
<1>2. \A u \in Tasks : TaskStep(u)
  BY StepOfTask
<1>3. \A t \in Tasks : (RowClean(t) /\ AnswersFollow(t) /\ UntouchedHasNoIntent(t))'
  BY <1>2, KeepsRowClean, KeepsAnswersFollow, KeepsUntouched
<1>4. \A w \in Workers, t \in Tasks : FreshIsCurrent(w, t)'
  BY <1>2, KeepsFreshIsCurrent
<1>5. \A t \in Tasks, k \in Tokens : (HolderKnows(t, k) /\ RunFits(t, k))'
  BY <1>2, KeepsHolderKnows, KeepsRunFits
<1>6. \A t \in Tasks, j, k \in Tokens : OnePermit(t, j, k)'
  BY <1>2, KeepsOnePermit
<1>7. \A t \in Tasks : (Once(t) /\ IntentFirst(t) /\ CompletedOnce(t))'
  BY <1>2, KeepsOnce, KeepsIntentFirst, KeepsCompletedOnce
<1>8. (AtMostOnce /\ IntentBeforeEffect /\ VerifiedCompletion)'
  BY <1>7 DEF AtMostOnce, IntentBeforeEffect, VerifiedCompletion, Once, IntentFirst,
     CompletedOnce
<1>9. QED
  BY <1>1, <1>3, <1>4, <1>5, <1>6, <1>8 DEF IInv

\* The inductive invariant holds of every behavior.
THEOREM InvariantHolds == Spec => []IInv
  BY InvInit, InvNext, StoreAssumption, ExecutorAssumption, PTL DEF Spec

\* No request reaches its provider twice, whatever processes crash, lose their
\* lease, restart or reconcile.
THEOREM DeliveredAtMostOnce == Spec => []AtMostOnce
<1>1. IInv => AtMostOnce
  BY DEF IInv
<1>2. QED
  BY <1>1, InvariantHolds, PTL

\* A paste under way, an acknowledged launch and a delivery all have their
\* durable stage.
THEOREM IntentComesFirst == Spec => []IntentBeforeEffect
<1>1. IInv => IntentBeforeEffect
  BY DEF IInv
<1>2. QED
  BY <1>1, InvariantHolds, PTL

\* A task recorded as completed was delivered exactly once.
THEOREM CompletionIsVerified == Spec => []VerifiedCompletion
<1>1. IInv => VerifiedCompletion
  BY DEF IInv
<1>2. QED
  BY <1>1, InvariantHolds, PTL

\* A verdict that denies an effect is true, and nothing is under way that
\* could make it false.
THEOREM VerdictsAreHonest == Spec => []HonestVerdict
<1>1. IInv => HonestVerdict
  <2> SUFFICES ASSUME IInv, NEW t \in Tasks, SaysUntouched(t)
               PROVE  delivered[t] = 0 /\ ~InFlight(t)
    BY DEF HonestVerdict
  <2>1. row[t].exec \notin Intent
    BY DEF IInv, UntouchedHasNoIntent
  <2>2. QED
    BY <2>1, NothingYet DEF InFlight
<1>2. QED
  BY <1>1, InvariantHolds, PTL

\* Completed means delivered, and a denial means that nothing happened.
THEOREM VerdictsAreTrue == Spec => []TrueVerdict
<1>1. VerifiedCompletion /\ HonestVerdict => TrueVerdict
  BY DEF TrueVerdict
<1>2. QED
  BY <1>1, CompletionIsVerified, VerdictsAreHonest, PTL

-----------------------------------------------------------------------------
(* What a step may never do.                                                *)

\* No late settlement, poll, cancellation or reconciliation rewrites the
\* verdict of a closed task.
THEOREM TerminalStays == Spec => TerminalIsFinal
<1>1. ASSUME IInv, [Next]_vars
      PROVE  \A t \in Tasks : row[t].state \in TerminalStates =>
                row'[t].state = row[t].state /\ row'[t].code = row[t].code
  <2> SUFFICES ASSUME NEW t \in Tasks, row[t].state \in TerminalStates
               PROVE  row'[t].state = row[t].state /\ row'[t].code = row[t].code
    OBVIOUS
  <2>1. TaskStep(t)
    BY <1>1, StepOfTask, ExecutorAssumption
  <2>2. row[t].state \notin {"absent", "queued"} \cup LeasedStates
    BY DEF TerminalStates, LeasedStates
  <2>3. RowKept(t)
    BY <2>1, <2>2 DEF TaskStep, Idle, Born, Canceled, GivenBack, Closed, Answers, Claimed,
       Adopted, Recorded,
          Records, HoldsLease, Leased, LeasedStates, Lands, Lapses, OutsideOnly
  <2>4. QED
    BY <2>3 DEF RowKept
<1>2. QED
  BY <1>1, InvariantHolds, PTL DEF Spec, TerminalIsFinal

\* A deferral, a requeue or a later stage never forgets that an effect was
\* possible.
THEOREM IntentStays == Spec => IntentNeverErased
<1>1. ASSUME IInv, [Next]_vars
      PROVE  \A t \in Tasks : row[t].exec \in Intent => row'[t].exec \in Intent
  <2> SUFFICES ASSUME NEW t \in Tasks, row[t].exec \in Intent
               PROVE  row'[t].exec \in Intent
    OBVIOUS
  <2>1. TaskStep(t)
    BY <1>1, StepOfTask, ExecutorAssumption
  <2>2. ASSUME NEW k \in Tokens, Recorded(t, k)
        PROVE  row'[t].exec \in Intent
    <3>1. HoldsLease(t, k)
      BY <2>2, Zenon DEF Recorded, Records
    <3>2. ~(run[t][k].at = "begun" \/ (run[t][k].at = "open" /\ ext[t][k] = "waiting"))
      BY <1>1, <3>1, RecordsInTime
    <3>3. QED
      BY <2>2, <3>2 DEF Recorded, Records, Intent
  <2>3. CASE row'[t].exec = row[t].exec
    BY <2>3
  <2>4. QED
    BY <2>1, <2>2, <2>3 DEF TaskStep, Idle, Born, Canceled, GivenBack, Closed, Answers,
       Claimed, Adopted,
          Taken, Lands, Lapses, OutsideOnly, RowKept
<1>2. QED
  BY <1>1, InvariantHolds, PTL DEF Spec, IntentNeverErased

\* A task whose cancellation was requested is never requeued, claimed or set
\* running again.
THEOREM CancellationStays == Spec => CancellationSticks
<1>1. ASSUME IInv, [Next]_vars
      PROVE  \A t \in Tasks : row[t].state = "cancel_requested" =>
                row'[t].state \in {"cancel_requested"} \cup TerminalStates
  <2> SUFFICES ASSUME NEW t \in Tasks, row[t].state = "cancel_requested"
               PROVE  row'[t].state \in {"cancel_requested"} \cup TerminalStates
    OBVIOUS
  <2>1. TaskStep(t)
    BY <1>1, StepOfTask, ExecutorAssumption
  <2>2. QED
    BY <2>1 DEF TaskStep, Idle, Born, Canceled, GivenBack, Closed, Answers, Claimed, Adopted,
       Recorded, Records,
          Lands, Lapses, OutsideOnly, RowKept
<1>2. QED
  BY <1>1, InvariantHolds, PTL DEF Spec, CancellationSticks

-----------------------------------------------------------------------------
(* The panic lock.                                                          *)

\* Only a panic sets it.
LEMMA LockStep ==
    ASSUME [Next]_vars
    PROVE  (\E w \in Workers : Panic(w)) \/ (locked' => locked)
<1> DEFINE Kept == locked' = locked
<1>1. CASE Outside
  <2>1. CASE Unlock
    BY <2>1 DEF Unlock, UnlockPanic
  <2>2. QED
    BY <1>1, <2>1, Zenon DEF Outside, Submit, SubmitTask, CancelCall, CancelCallTasks,
       CancelTask,
          RequestCancellation, storeVars, LeaseExpires
<1>2. ASSUME NEW w \in Workers, Lifecycle(w) \/ Fault(w)
      PROVE  Kept
  BY <1>2, Zenon DEF Lifecycle, Fault, Boot, Start, StartDone, ShutdownEnd, Crash, Shutdown,
        StartFails, Abandon, HeartbeatFails, Orphan, storeVars
<1>3. ASSUME NEW w \in Workers, NEW t \in Tasks, Dispatch(w, t)
      PROVE  Kept
  BY <1>3, Zenon DEF Dispatch, Claim, ClaimNext, HeartbeatTick, Heartbeat, HeartbeatRejected,
        Orphan
<1>4. ASSUME NEW w \in Workers, NEW t \in Tasks, Reconciliation(w, t)
      PROVE  Kept
  BY <1>4, Zenon DEF Reconciliation, Inspect, ListCandidate, RequeueUntouched,
     CancelUntouched,
        CompleteVerified, ReconcileAnswered, ReconcileUnanswered, ProcessGone, Defer,
        MonitorTarget, AdoptProcess, AdoptAttempt, Settled, Reconciled
<1>5. ASSUME NEW t \in Tasks, NEW k \in Tokens, Attempt(t, k)
      PROVE  Kept
  <2>1. ASSUME NEW c, SettleFailure(t, k, c)
        PROVE  Kept
    BY <2>1, Zenon DEF SettleFailure, AcknowledgeCanceled, FailTask, CloseRow, storeVars
  <2>2. CASE SettleSuccess(t, k)
    BY <2>2, Zenon DEF SettleSuccess, CompleteTask, CloseRow, storeVars
  <2>3. QED
    BY <1>5, <2>1, <2>2, Zenon DEF Attempt, BeginFails, RecordAttempt, RecordVerified,
          TargetReturns, TargetThrows, Spawn, Accepted, Refused, LaunchUnknown, LaunchStatus,
          RecordExecution, ManagedReturns, ManagedFails, ManagedBusy, DeferLeasedTask
<1>6. ASSUME NEW t \in Tasks, NEW k \in Tokens, Effect(t, k) \/ Poll(t, k)
      PROVE  Kept
  BY <1>6, Zenon DEF Effect, Land, Vanish, Forward, ChildExit, Poll, PollTerminal,
     PollProcess,
        PollTarget, CompleteTask, AcknowledgeCanceled, FailTask, CloseRow, storeVars
<1>7. CASE \E t \in Tasks : Answer(t) \/ DelayElapses(t)
  BY <1>7, Zenon DEF Answer, DelayElapses, storeVars
<1>8. CASE UNCHANGED vars
  BY <1>8 DEF vars
<1>9. QED
  BY <1>1, <1>2, <1>3, <1>4, <1>5, <1>6, <1>7, <1>8, Zenon DEF Next

LEMMA PanicNext ==
    ASSUME StoreAssumption, ExecutorAssumption, IInv, PanicFreezesQueue, [Next]_vars
    PROVE  PanicFreezesQueue'
<1> SUFFICES ASSUME locked', NEW u \in VoiceTasks
             PROVE  row'[u].state \notin {"queued", "running"}
  BY DEF PanicFreezesQueue
<1>1. u \in Tasks /\ TaskStep(u)
  BY StepOfTask DEF StoreAssumption
<1>2. ASSUME NEW w \in Workers, Panic(w)
      PROVE  row'[u].state \notin {"queued", "running"}
  <2>1. row[u] \in Rows
    BY <1>1 DEF IInv, TypeOK
  <2>2. CASE u \in PanicSelection
    <3>1. row'[u] = CancelRow(row[u])
      BY <1>1, <1>2, <2>2 DEF Panic, PanicStore
    <3>2. QED
      BY <2>1, <3>1 DEF CancelRow, Rows
  <2>3. CASE u \notin PanicSelection
    <3>1. row'[u] = row[u]
      BY <1>1, <1>2, <2>3 DEF Panic, PanicStore
    <3>2. QED
      BY <2>3, <3>1 DEF PanicSelection, LeasedStates
  <2>4. QED
    BY <2>2, <2>3
<1>3. CASE locked
  <2>1. row[u].state \notin {"queued", "running"}
    BY <1>3 DEF PanicFreezesQueue
  <2>2. QED
    BY <1>1, <1>3, <2>1 DEF TaskStep, Idle, Born, Canceled, GivenBack, Closed, Answers,
       Claimed, Adopted,
          Recorded, Records, Lands, Lapses, OutsideOnly, RowKept, TerminalStates
<1>4. QED
  BY <1>2, <1>3, LockStep

\* While the panic lock is set no phone-originated task is queued or running:
\* nothing slips in, and nothing slips back.
THEOREM PanicFreezes == Spec => []PanicFreezesQueue
<1>1. Init => PanicFreezesQueue
  BY DEF Init, StoreInit, PanicFreezesQueue
<1>2. QED
  BY <1>1, PanicNext, InvariantHolds, StoreAssumption, ExecutorAssumption, PTL DEF Spec

-----------------------------------------------------------------------------
(* Cancellation and the abort signal, in one process.                       *)

\* An attempt that has not begun its effect, and whose record is current, was
\* there before, and stays aborted if it was.
Steady(t, k) ==
    run'[t][k].at = "begun" /\ Current(t, k)' =>
        /\ Current(t, k) /\ run[t][k].at = "begun"
        /\ run'[t][k].by = run[t][k].by
        /\ run[t][k].aborted => run'[t][k].aborted

\* What does not touch the records, and what ends one.
LEMMA SteadyPieces ==
    ASSUME IInv, StoreAssumption, NEW t \in Tasks, NEW k \in Tokens
    PROVE  /\ UNCHANGED <<run, active>> => Steady(t, k)
           /\ \A w \in Workers : \A S : Interrupt(w, S) /\ UNCHANGED active => Steady(t, k)
           /\ \A x \in Tasks, j \in Tokens : EndRun(x, j) => Steady(t, k)
           /\ \A w \in Workers, x \in Tasks, j \in Tokens : Orphan(w, x, j) => Steady(t, k)
           /\ \A x \in Tasks, j \in Tokens, s \in RunStages \ {"begun"} :
                 run' = [run EXCEPT ![x][j].at = s] /\ UNCHANGED active => Steady(t, k)
           /\ \A w \in Workers : run' = RunsWithout(w)
                 /\ active' = [active EXCEPT ![w] = [u \in Tasks |-> NoToken]] => Steady(t, k)
<1>0. /\ run \in [Tasks -> [Tokens -> Runs]] /\ active \in [Workers -> [Tasks -> Tokens \cup {NoToken}]]
      /\ k # NoToken /\ run[t][k] \in Runs /\ run[t][k].by \in Workers \cup {NoWorker}
  BY DEF IInv, TypeOK, StoreAssumption, Runs
<1>1. UNCHANGED <<run, active>> => Steady(t, k)
  BY DEF Steady, Current
<1>2. ASSUME NEW w \in Workers, NEW S, Interrupt(w, S), UNCHANGED active
      PROVE  Steady(t, k)
  <2>1. run'[t][k] \in {run[t][k], [run[t][k] EXCEPT !.aborted = TRUE]}
    BY <1>2 DEF Interrupt
  <2>2. /\ run'[t][k].at = run[t][k].at /\ run'[t][k].by = run[t][k].by
        /\ run[t][k].aborted => run'[t][k].aborted
    BY <1>0, <2>1 DEF Runs
  <2>3. QED
    BY <1>2, <2>2 DEF Steady, Current
<1>3. ASSUME NEW x \in Tasks, NEW j \in Tokens, EndRun(x, j)
      PROVE  Steady(t, k)
  <2>1. run'[t][k] \in {run[t][k], NoRun}
    BY <1>0, <1>3 DEF EndRun
  <2>2. \A w \in Workers : active'[w][t] \in {active[w][t], NoToken}
    BY <1>0, <1>3 DEF EndRun
  <2>3. CASE run'[t][k] = NoRun
    BY <2>3 DEF Steady, NoRun
  <2>4. CASE run'[t][k] = run[t][k]
    BY <1>0, <2>2, <2>4 DEF Steady, Current
  <2>5. QED
    BY <2>1, <2>3, <2>4
<1>4. ASSUME NEW w \in Workers, NEW x \in Tasks, NEW j \in Tokens, Orphan(w, x, j)
      PROVE  Steady(t, k)
  <2>1. run'[t][k] \in {run[t][k], NoRun, [run[t][k] EXCEPT !.aborted = TRUE]}
    BY <1>0, <1>4 DEF Orphan
  <2>2. \A v \in Workers : active'[v][t] \in {active[v][t], NoToken}
    BY <1>0, <1>4 DEF Orphan
  <2>3. CASE run'[t][k] = NoRun
    BY <2>3 DEF Steady, NoRun
  <2>4. CASE run'[t][k] # NoRun
    <3>1. /\ run'[t][k].at = run[t][k].at /\ run'[t][k].by = run[t][k].by
          /\ run[t][k].aborted => run'[t][k].aborted
      BY <1>0, <2>1, <2>4 DEF Runs
    <3>2. QED
      BY <1>0, <2>2, <3>1 DEF Steady, Current
  <2>5. QED
    BY <2>3, <2>4
<1>5. ASSUME NEW x \in Tasks, NEW j \in Tokens, NEW s \in RunStages \ {"begun"},
             run' = [run EXCEPT ![x][j].at = s], UNCHANGED active
      PROVE  Steady(t, k)
  <2>1. run'[t][k] = run[t][k] \/ run'[t][k].at = s
    BY <1>0, <1>5 DEF Runs
  <2>2. QED
    BY <1>5, <2>1 DEF Steady, Current
<1>6. ASSUME NEW w \in Workers, run' = RunsWithout(w),
             active' = [active EXCEPT ![w] = [u \in Tasks |-> NoToken]]
      PROVE  Steady(t, k)
  <2>1. run'[t][k] \in {run[t][k], NoRun}
    BY <1>0, <1>6 DEF RunsWithout
  <2>2. \A v \in Workers : active'[v][t] \in {active[v][t], NoToken}
    BY <1>0, <1>6
  <2>3. CASE run'[t][k] = NoRun
    BY <2>3 DEF Steady, NoRun
  <2>4. CASE run'[t][k] = run[t][k]
    BY <1>0, <2>2, <2>4 DEF Steady, Current
  <2>5. QED
    BY <2>1, <2>3, <2>4
<1>7. QED
  BY <1>1, <1>2, <1>3, <1>4, <1>5, <1>6

\* A claim makes a running row; an adoption begins nothing.
LEMMA SteadyClaims ==
    ASSUME IInv, StoreAssumption, NEW t \in Tasks, NEW k \in Tokens,
           NEW w \in Workers, NEW x \in Tasks, NEW j \in Tokens
    PROVE  /\ Claim(w, x, j) => Steady(t, k) \/ row'[t].state = "running"
           /\ AdoptAttempt(w, x, j) => Steady(t, k)
<1>0. /\ run \in [Tasks -> [Tokens -> Runs]] /\ active \in [Workers -> [Tasks -> Tokens \cup {NoToken}]]
      /\ row \in [Tasks -> Rows] /\ row[t] \in Rows
  BY DEF IInv, TypeOK
<1>1. ASSUME active' = [active EXCEPT ![w][x] = j], t # x \/ k # j, run'[t][k] = run[t][k]
      PROVE  Steady(t, k)
  <2>1. \A v \in Workers : active'[v][t] = k => active[v][t] = k
    BY <1>0, <1>1
  <2>2. QED
    BY <1>1, <2>1 DEF Steady, Current
<1>2. ASSUME Claim(w, x, j), t # x \/ k # j
      PROVE  Steady(t, k)
  <2>1. run'[t][k] = run[t][k] /\ active' = [active EXCEPT ![w][x] = j]
    BY <1>0, <1>2 DEF Claim
  <2>2. QED
    BY <1>1, <1>2, <2>1
<1>3. ASSUME Claim(w, x, j), t = x
      PROVE  row'[t].state = "running"
  BY <1>0, <1>3 DEF Claim, ClaimNext, Rows
<1>4. ASSUME AdoptAttempt(w, x, j)
      PROVE  Steady(t, k)
  <2>1. /\ active' = [active EXCEPT ![w][x] = j]
        /\ run' = [run EXCEPT ![x][j] = [at |-> "adopted", by |-> w, aborted |-> FALSE]]
    BY <1>4 DEF AdoptAttempt
  <2>2. CASE t # x \/ k # j
    BY <1>0, <1>1, <2>1, <2>2
  <2>3. CASE t = x /\ k = j
    BY <1>0, <2>1, <2>3 DEF Steady
  <2>4. QED
    BY <2>2, <2>3
<1>5. QED
  BY <1>2, <1>3, <1>4

\* The row of t is not told of a cancellation by this step.
Untold(t) == row'[t].state = row[t].state \/ row'[t].state # "cancel_requested"

\* What is told of one, the attempts of a process are told with it.
Heard(t) == \E w \in Workers, S \in SUBSET Tasks :
                t \in S /\ Interrupt(w, S) /\ UNCHANGED active

LEMMA CalmPieces ==
    ASSUME IInv, NEW t \in Tasks
    PROVE  /\ UNCHANGED row => Untold(t)
           /\ \A x \in Tasks : SubmitTask(x) => Untold(t)
           /\ \A x \in Tasks : LeaseExpires(x) \/ DelayElapses(x) => Untold(t)
           /\ \A x \in Tasks : \A k : ClaimNext(x, k) \/ Heartbeat(x, k) \/ DeferLeasedTask(x, k) => Untold(t)
           /\ \A x \in Tasks : \A k, s, p : RecordExecution(x, k, s, p) => Untold(t)
           /\ \A x \in Tasks, s \in TerminalStates : \A c : CloseRow(x, s, c) => Untold(t)
           /\ \A w \in Workers, x \in Tasks : \A k : Adopt(w, x, k) => Untold(t)
           /\ \A w \in Workers, x \in Tasks : Requeue(w, x) => Untold(t)
           /\ \A w \in Workers, x \in Tasks, s \in TerminalStates : \A c :
                 ReconcileClose(w, x, s, c) => Untold(t)
<1>0. row \in [Tasks -> Rows] /\ row[t] \in Rows
  BY DEF IInv, TypeOK
<1>1. UNCHANGED row => Untold(t)
  BY DEF Untold
<1>2. \A x \in Tasks : SubmitTask(x) => Untold(t)
  BY <1>0 DEF SubmitTask, Untold, Rows
<1>3. \A x \in Tasks : LeaseExpires(x) \/ DelayElapses(x) => Untold(t)
  BY <1>0 DEF LeaseExpires, DelayElapses, Untold, Rows
<1>4. \A x \in Tasks : \A k : ClaimNext(x, k) => Untold(t)
  BY <1>0 DEF ClaimNext, Untold, Rows
<1>5. \A x \in Tasks : \A k : Heartbeat(x, k) => Untold(t)
  BY <1>0 DEF Heartbeat, Untold, Rows
<1>6. \A x \in Tasks : \A k : DeferLeasedTask(x, k) => Untold(t)
  BY <1>0 DEF DeferLeasedTask, Untold, Rows
<1>7. \A x \in Tasks : \A k, s, p : RecordExecution(x, k, s, p) => Untold(t)
  BY <1>0 DEF RecordExecution, Untold, Rows
<1>8. \A x \in Tasks, s \in TerminalStates : \A c : CloseRow(x, s, c) => Untold(t)
  BY <1>0 DEF CloseRow, ClosedRow, Untold, Rows, TerminalStates
<1>9. \A w \in Workers, x \in Tasks : \A k : Adopt(w, x, k) => Untold(t)
  BY <1>0 DEF Adopt, Untold, Rows
<1>10. \A w \in Workers, x \in Tasks : Requeue(w, x) => Untold(t)
  BY <1>0 DEF Requeue, Untold, Rows
<1>11. \A w \in Workers, x \in Tasks, s \in TerminalStates : \A c : ReconcileClose(w, x, s, c) => Untold(t)
  BY <1>0 DEF ReconcileClose, ClosedRow, Untold, Rows, TerminalStates
<1>12. QED
  BY <1>1, <1>2, <1>3, <1>4, <1>5, <1>6, <1>7, <1>8, <1>9, <1>10, <1>11

\* One step, for an attempt that has not begun its effect.
Follows(t, k) == /\ Steady(t, k) \/ row'[t].state = "running"
                 /\ Untold(t) \/ Heard(t)

LEMMA FollowsOutside ==
    ASSUME IInv, StoreAssumption, NEW t \in Tasks, NEW k \in Tokens, Outside
    PROVE  Follows(t, k)
<1>1. ASSUME NEW w \in Workers, NEW S \in SUBSET Tasks, Interrupt(w, S), UNCHANGED active,
             t \in S \/ UNCHANGED row[t]
      PROVE  Follows(t, k)
  <2>1. Steady(t, k)
    BY <1>1, SteadyPieces
  <2>2. Untold(t) \/ Heard(t)
    BY <1>1 DEF Untold, Heard
  <2>3. QED
    BY <2>1, <2>2 DEF Follows
<1>2. ASSUME UNCHANGED execVars, Untold(t)
      PROVE  Follows(t, k)
  BY <1>2, SteadyPieces DEF execVars, Follows
<1>3. ASSUME NEW x \in Tasks, Submit(x)
      PROVE  Follows(t, k)
  BY <1>2, <1>3, CalmPieces DEF Submit
<1>4. ASSUME NEW w \in Workers, NEW c \in Calls, NEW keys, NEW scope \in {"call", "task"},
             CancelCall(w, c, keys, scope)
      PROVE  Follows(t, k)
  <2>1. /\ CancelSelection(c, keys, scope) \in SUBSET Tasks
        /\ Interrupt(w, CancelSelection(c, keys, scope)) /\ UNCHANGED active
    BY <1>4 DEF CancelCall, CancelSelection
  <2>2. t \in CancelSelection(c, keys, scope) \/ UNCHANGED row[t]
    BY <1>4 DEF CancelCall, CancelCallTasks
  <2>3. QED
    BY <1>1, <2>1, <2>2
<1>5. ASSUME NEW w \in Workers, NEW x \in Tasks, CancelTask(w, x)
      PROVE  Follows(t, k)
  <2>0. UNCHANGED active
    BY <1>5 DEF CancelTask
  <2>1. CASE row[x].state = "cancel_requested" /\ Interrupt(w, {x}) /\ UNCHANGED storeVars
    BY <1>1, <2>0, <2>1 DEF storeVars
  <2>2. CASE RequestCancellation(x) /\ Interrupt(w, IF row[x].state = "running" THEN {x} ELSE {})
    <3>1. CASE row[x].state = "running"
      <4>1. Interrupt(w, {x})
        BY <2>2, <3>1
      <4>2. t \in {x} \/ UNCHANGED row[t]
        BY <2>2 DEF RequestCancellation, IInv, TypeOK
      <4>3. QED
        BY <1>1, <2>0, <4>1, <4>2
    <3>2. CASE row[x].state = "queued"
      <4>1. Interrupt(w, {})
        BY <2>2, <3>2
      <4>2. Untold(t)
        BY <2>2, <3>2 DEF RequestCancellation, CancelRow, Untold, IInv, TypeOK, Rows
      <4>3. Steady(t, k)
        BY <2>0, <4>1, SteadyPieces
      <4>4. QED
        BY <4>2, <4>3 DEF Follows
    <3>3. QED
      BY <2>2, <3>1, <3>2 DEF RequestCancellation
  <2>3. QED
    BY <1>5, <2>1, <2>2 DEF CancelTask
<1>6. ASSUME NEW w \in Workers, Panic(w)
      PROVE  Follows(t, k)
  <2>1. PanicSelection \in SUBSET Tasks /\ Interrupt(w, PanicSelection) /\ UNCHANGED active
    BY <1>6, StoreAssumption DEF Panic, PanicSelection, StoreAssumption
  <2>2. t \in PanicSelection \/ UNCHANGED row[t]
    BY <1>6 DEF Panic, PanicStore
  <2>3. QED
    BY <1>1, <2>1, <2>2
<1>7. CASE Unlock
  BY <1>2, <1>7, CalmPieces DEF Unlock, UnlockPanic
<1>8. ASSUME NEW x \in Tasks, LeaseExpires(x) /\ UNCHANGED execVars
      PROVE  Follows(t, k)
  BY <1>2, <1>8, CalmPieces
<1>9. QED
  BY <1>3, <1>4, <1>5, <1>6, <1>7, <1>8 DEF Outside

LEMMA FollowsDispatch ==
    ASSUME IInv, StoreAssumption, NEW t \in Tasks, NEW k \in Tokens,
           NEW w \in Workers, NEW x \in Tasks, Dispatch(w, x)
    PROVE  Follows(t, k)
<1>0. active[w][x] # NoToken => active[w][x] \in Tokens
  BY DEF IInv, TypeOK
<1>1. ASSUME NEW j \in Tokens, Claim(w, x, j)
      PROVE  Follows(t, k)
  <2>1. Untold(t)
    BY <1>1, CalmPieces DEF Claim
  <2>2. QED
    BY <1>1, <2>1, SteadyClaims DEF Follows
<1>2. CASE HeartbeatTick(w, x)
  <2>1. Untold(t)
    BY <1>2, CalmPieces DEF HeartbeatTick
  <2>2. Steady(t, k)
    BY <1>2, SteadyPieces, Zenon DEF HeartbeatTick
  <2>3. QED
    BY <2>1, <2>2 DEF Follows
<1>3. CASE HeartbeatRejected(w, x)
  <2>1. Orphan(w, x, active[w][x]) /\ active[w][x] \in Tokens
    BY <1>0, <1>3 DEF HeartbeatRejected
  <2>2. Untold(t)
    BY <2>1, CalmPieces DEF Orphan
  <2>3. QED
    BY <2>1, <2>2, SteadyPieces DEF Follows
<1>4. QED
  BY <1>1, <1>2, <1>3 DEF Dispatch

LEMMA FollowsReconciliation ==
    ASSUME IInv, StoreAssumption, NEW t \in Tasks, NEW k \in Tokens,
           NEW w \in Workers, NEW x \in Tasks, Reconciliation(w, x)
    PROVE  Follows(t, k)
<1>1. ASSUME UNCHANGED execVars, Untold(t)
      PROVE  Follows(t, k)
  BY <1>1, SteadyPieces DEF execVars, Follows
<1>2. ASSUME NEW s \in TerminalStates, NEW c, ReconcileClose(w, x, s, c), Settled(w, x)
      PROVE  Follows(t, k)
  BY <1>1, <1>2, CalmPieces DEF Settled
<1>3. CASE Inspect(w, x) \/ Defer(w, x)
  <2>1. UNCHANGED row /\ UNCHANGED execVars
    BY <1>3 DEF Inspect, Defer, ListCandidate
  <2>2. QED
    BY <1>1, <2>1, CalmPieces
<1>4. CASE RequeueUntouched(w, x)
  BY <1>1, <1>4, CalmPieces DEF RequeueUntouched, Settled
<1>5. CASE CancelUntouched(w, x)
  BY <1>2, <1>5 DEF CancelUntouched, TerminalStates
<1>6. CASE CompleteVerified(w, x)
  BY <1>2, <1>6 DEF CompleteVerified, TerminalStates
<1>7. CASE ReconcileAnswered(w, x)
  <2>1. (IF Seen(w, x).state = "cancel_requested" THEN "canceled" ELSE "completed") \in TerminalStates
    BY DEF TerminalStates
  <2>2. QED
    BY <1>2, <1>7, <2>1 DEF ReconcileAnswered
<1>8. CASE ReconcileUnanswered(w, x)
  BY <1>2, <1>8 DEF ReconcileUnanswered, TerminalStates
<1>9. CASE ProcessGone(w, x)
  BY <1>2, <1>9 DEF ProcessGone, TerminalStates
<1>10. ASSUME NEW j \in Tokens, AdoptAttempt(w, x, j)
       PROVE  Follows(t, k)
  <2>1. Untold(t)
    BY <1>10, CalmPieces DEF AdoptAttempt
  <2>2. QED
    BY <1>10, <2>1, SteadyClaims DEF Follows
<1>11. QED
  BY <1>3, <1>4, <1>5, <1>6, <1>7, <1>8, <1>9, <1>10 DEF Reconciliation, MonitorTarget,
     AdoptProcess

LEMMA FollowsAttempt ==
    ASSUME IInv, StoreAssumption, NEW t \in Tasks, NEW k \in Tokens,
           NEW x \in Tasks, NEW j \in Tokens, Attempt(x, j)
    PROVE  Follows(t, k)
<1>1. ASSUME EndRun(x, j), Untold(t)
      PROVE  Follows(t, k)
  BY <1>1, SteadyPieces DEF Follows
<1>2. ASSUME NEW c, SettleFailure(x, j, c)
      PROVE  Follows(t, k)
  <2>1. Untold(t)
    BY <1>2, CalmPieces DEF SettleFailure, AcknowledgeCanceled, FailTask, TerminalStates,
       storeVars
  <2>2. QED
    BY <1>1, <1>2, <2>1 DEF SettleFailure
<1>3. CASE SettleSuccess(x, j)
  <2>1. Untold(t)
    BY <1>3, CalmPieces DEF SettleSuccess, CompleteTask, TerminalStates, storeVars
  <2>2. QED
    BY <1>1, <1>3, <2>1 DEF SettleSuccess
<1>4. ASSUME NEW s \in Stages, NEW p, RecordExecution(x, j, s, p), UNCHANGED active,
             \/ UNCHANGED run
             \/ \E a \in RunStages \ {"begun"} : run' = [run EXCEPT ![x][j].at = a]
      PROVE  Follows(t, k)
  <2>1. Untold(t)
    BY <1>4, CalmPieces
  <2>2. Steady(t, k)
    BY <1>4, SteadyPieces
  <2>3. QED
    BY <2>1, <2>2 DEF Follows
<1>5. CASE RecordAttempt(x, j)
  BY <1>4, <1>5 DEF RecordAttempt, Stages, RunStages
<1>6. CASE RecordVerified(x, j)
  BY <1>4, <1>6 DEF RecordVerified, Stages, RunStages
<1>7. CASE Spawn(x, j)
  BY <1>4, <1>7 DEF Spawn, Stages, RunStages
<1>8. CASE Accepted(x, j)
  BY <1>4, <1>8 DEF Accepted, LaunchStatus, Stages
<1>9. CASE Refused(x, j)
  BY <1>4, <1>9 DEF Refused, LaunchStatus, Stages, RunStages
<1>10. CASE LaunchUnknown(x, j)
  BY <1>4, <1>10 DEF LaunchUnknown, LaunchStatus, Stages
<1>11. CASE ManagedBusy(x, j)
  <2>1. CASE DeferLeasedTask(x, j) /\ EndRun(x, j)
    BY <1>1, <2>1, CalmPieces
  <2>2. CASE \E c : SettleFailure(x, j, c)
    BY <1>2, <2>2
  <2>3. QED
    BY <1>11, <2>1, <2>2, Zenon DEF ManagedBusy
<1>12. QED
  BY <1>2, <1>3, <1>5, <1>6, <1>7, <1>8, <1>9, <1>10, <1>11
  DEF Attempt, BeginFails, TargetReturns, TargetThrows, ManagedReturns, ManagedFails

LEMMA FollowsOthers ==
    ASSUME IInv, StoreAssumption, NEW t \in Tasks, NEW k \in Tokens
    PROVE  /\ \A x \in Tasks, j \in Tokens : Effect(x, j) \/ Poll(x, j) => Follows(t, k)
           /\ \A x \in Tasks : Answer(x) \/ (DelayElapses(x) /\ UNCHANGED execVars) => Follows(t, k)
           /\ UNCHANGED vars => Follows(t, k)
<1>1. ASSUME UNCHANGED <<run, active>>, Untold(t)
      PROVE  Follows(t, k)
  BY <1>1, SteadyPieces DEF Follows
<1>2. ASSUME NEW x \in Tasks, NEW j \in Tokens, Effect(x, j)
      PROVE  Follows(t, k)
  <2>1. UNCHANGED <<row, run, active>>
    BY <1>2 DEF Effect, Land, Vanish, Forward, ChildExit, storeVars
  <2>2. QED
    BY <1>1, <2>1, CalmPieces
<1>3. ASSUME NEW x \in Tasks, NEW j \in Tokens, Poll(x, j)
      PROVE  Follows(t, k)
  <2>1. EndRun(x, j)
    BY <1>3 DEF Poll, PollTerminal, PollProcess, PollTarget
  <2>2. UNCHANGED row \/ \E s \in TerminalStates : \E c : CloseRow(x, s, c)
    BY <1>3 DEF Poll, PollTerminal, PollProcess, PollTarget, CompleteTask,
       AcknowledgeCanceled,
          FailTask, TerminalStates, storeVars
  <2>3. QED
    BY <2>1, <2>2, CalmPieces, SteadyPieces DEF Follows
<1>4. ASSUME NEW x \in Tasks, Answer(x) \/ (DelayElapses(x) /\ UNCHANGED execVars)
      PROVE  Follows(t, k)
  <2>1. UNCHANGED <<run, active>> /\ (UNCHANGED row \/ DelayElapses(x))
    BY <1>4 DEF Answer, execVars, storeVars
  <2>2. QED
    BY <1>1, <2>1, CalmPieces
<1>5. UNCHANGED vars => Follows(t, k)
  BY <1>1, CalmPieces DEF vars
<1>6. QED
  BY <1>2, <1>3, <1>4, <1>5

LEMMA FollowsLife ==
    ASSUME IInv, StoreAssumption, NEW t \in Tasks, NEW k \in Tokens,
           NEW w \in Workers, Lifecycle(w) \/ Fault(w)
    PROVE  Follows(t, k)
<1>0. /\ row \in [Tasks -> Rows] /\ row[t] \in Rows
      /\ \A x \in Tasks : active[w][x] # NoToken => active[w][x] \in Tokens
  BY DEF IInv, TypeOK
<1>1. CASE Boot(w) \/ Start(w) \/ StartDone(w)
  <2>1. UNCHANGED <<row, run, active>>
    BY <1>1 DEF Boot, Start, StartDone, storeVars
  <2>2. QED
    BY <2>1, CalmPieces, SteadyPieces DEF Follows
<1>2. ASSUME run' = RunsWithout(w), active' = [active EXCEPT ![w] = [u \in Tasks |-> NoToken]], Untold(t)
      PROVE  Follows(t, k)
  BY <1>2, SteadyPieces DEF Follows
<1>3. CASE Crash(w)
  BY <1>2, <1>3, CalmPieces DEF Crash
<1>4. CASE StartFails(w)
  <2>1. row'[t] \in {row[t], ReleasedRow(row[t])}
    BY <1>4 DEF StartFails, Abandon
  <2>2. Untold(t)
    BY <1>0, <2>1 DEF ReleasedRow, Untold, Rows
  <2>3. QED
    BY <1>2, <1>4, <2>2 DEF StartFails, Abandon
<1>5. CASE ShutdownEnd(w)
  <2>1. row'[t] \in {row[t], ReleasedRow(row[t]), ClosedRow(row[t], "failed", "outcome_unknown")}
    BY <1>5 DEF ShutdownEnd, Abandon
  <2>2. Untold(t)
    BY <1>0, <2>1 DEF ReleasedRow, ClosedRow, Untold, Rows
  <2>3. QED
    BY <1>2, <1>5, <2>2 DEF ShutdownEnd, Abandon
<1>6. CASE Shutdown(w)
  <2>1. Interrupt(w, Tasks) /\ UNCHANGED <<row, active>>
    BY <1>6 DEF Shutdown
  <2>2. QED
    BY <2>1, CalmPieces, SteadyPieces DEF Follows
<1>7. ASSUME NEW x \in Tasks, HeartbeatFails(w, x)
      PROVE  Follows(t, k)
  <2>1. Orphan(w, x, active[w][x]) /\ active[w][x] \in Tokens
    BY <1>0, <1>7 DEF HeartbeatFails
  <2>2. Untold(t)
    BY <2>1, CalmPieces DEF Orphan
  <2>3. QED
    BY <2>1, <2>2, SteadyPieces DEF Follows
<1>8. QED
  BY <1>1, <1>3, <1>4, <1>5, <1>6, <1>7 DEF Lifecycle, Fault

LEMMA FollowsNext ==
    ASSUME IInv, StoreAssumption, NEW t \in Tasks, NEW k \in Tokens, [Next]_vars
    PROVE  Follows(t, k)
  BY FollowsOutside, FollowsDispatch, FollowsReconciliation, FollowsAttempt, FollowsOthers,
     FollowsLife DEF Next

\* The attempt that holds the lease of a canceled task, and has pasted nothing
\* yet, knows.
Told(t, k) ==
    run[t][k].at = "begun" /\ Current(t, k) /\ HoldsLease(t, k)
        /\ row[t].state = "cancel_requested" => run[t][k].aborted

\* The lease of a canceled row is not handed to an attempt that begins.
LEMMA LeaseIsOld ==
    ASSUME IInv, NEW t \in Tasks, NEW k \in Tokens, NoToken \notin Tokens, TaskStep(t),
           run'[t][k].at = "begun", HoldsLease(t, k)', row'[t].state = "cancel_requested"
    PROVE  HoldsLease(t, k)
<1>1. row'[t].lease = k
  BY DEF HoldsLease
<1>2. ASSUME NEW j \in Tokens, Claimed(t, j) \/ Adopted(t, j)
      PROVE  HoldsLease(t, k)
  BY <1>1, <1>2 DEF Claimed, Adopted, Taken
<1>3. ASSUME NEW j \in Tokens, Recorded(t, j)
      PROVE  HoldsLease(t, k)
  <2>1. row'[t].lease = row[t].lease /\ HoldsLease(t, j)
    BY <1>3, Zenon DEF Recorded, Records
  <2>2. QED
    BY <1>1, <2>1 DEF HoldsLease
<1>4. CASE RowKept(t) /\ row'[t].lease \in {row[t].lease, NoToken}
  BY <1>1, <1>4 DEF HoldsLease, RowKept, Leased, LeasedStates
<1>5. CASE Canceled(t)
  BY <1>1, <1>5 DEF Canceled, HoldsLease, Leased
<1>6. QED
  BY <1>2, <1>3, <1>4, <1>5
  DEF TaskStep, Idle, Born, GivenBack, Closed, Answers, Lands, Lapses, OutsideOnly,
     TerminalStates

LEMMA ToldNext ==
    ASSUME NEW w, Workers = {w}, IInv, StoreAssumption, ExecutorAssumption, [Next]_vars,
           NEW t \in Tasks, NEW k \in Tokens, Told(t, k)
    PROVE  Told(t, k)'
<1> SUFFICES ASSUME run'[t][k].at = "begun", Current(t, k)', HoldsLease(t, k)',
                    row'[t].state = "cancel_requested"
             PROVE  run'[t][k].aborted
  BY DEF Told
<1>1. TaskStep(t) /\ Follows(t, k) /\ NoToken \notin Tokens
  BY StepOfTask, FollowsNext DEF StoreAssumption
<1>2. /\ Current(t, k) /\ run[t][k].at = "begun"
      /\ run[t][k].aborted => run'[t][k].aborted
  BY <1>1 DEF Follows, Steady
<1>3. HoldsLease(t, k)
  BY <1>1, LeaseIsOld
<1>4. CASE row[t].state = "cancel_requested"
  BY <1>2, <1>3, <1>4 DEF Told
<1>5. CASE Heard(t)
  <2>1. PICK S \in SUBSET Tasks : t \in S /\ Interrupt(w, S)
    BY <1>5 DEF Heard
  <2>2. run[t][k] \in Runs /\ active[w][t] = k
    BY <1>2 DEF Current, IInv, TypeOK
  <2>3. run'[t][k] = [run[t][k] EXCEPT !.aborted = TRUE]
    BY <1>2, <2>1, <2>2 DEF Interrupt
  <2>4. QED
    BY <2>2, <2>3 DEF Runs
<1>6. QED
  BY <1>1, <1>4, <1>5 DEF Follows, Untold

\* Only the write of the durable attempt lets a paste start.
LEMMA PasteStep ==
    ASSUME IInv, StoreAssumption, ExecutorAssumption, [Next]_vars,
           NEW t \in TargetTasks, NEW k \in Tokens, Told(t, k),
           ext[t][k] = "none", ext'[t][k] = "armed"
    PROVE  row[t].state = "running"
<1>0. t \in Tasks /\ t \notin ManagedTasks /\ ext \in [Tasks -> [Tokens -> ExtStages]]
  BY DEF ExecutorAssumption, ManagedTasks, IInv, TypeOK
<1>1. ASSUME NEW x \in Tasks, NEW j \in Tokens, RecordAttempt(x, j)
      PROVE  row[t].state = "running"
  <2>1. x = t /\ j = k /\ ~run[t][k].aborted
    BY <1>0, <1>1 DEF RecordAttempt
  <2>2. run[t][k].at = "begun" /\ Current(t, k) /\ HoldsLease(t, k)
    BY <1>1, <2>1 DEF RecordAttempt, RecordExecution
  <2>3. QED
    BY <2>1, <2>2 DEF Told, HoldsLease, Leased, LeasedStates
<1>2. ASSUME NEW x \in Tasks, NEW j \in Tokens, NEW e \in {"none", "waiting", "working"},
             ext' = [ext EXCEPT ![x][j] = e]
      PROVE  FALSE
  BY <1>0, <1>2
<1>3. ASSUME NEW x \in Tasks, NEW j \in Tokens, Accepted(x, j)
      PROVE  FALSE
  <2>1. ext[x][j] = "waiting" /\ ext' = [ext EXCEPT ![x][j] = "armed"]
    BY <1>3 DEF Accepted, LaunchStatus
  <2>2. QED
    BY <1>0, <2>1
<1>4. CASE UNCHANGED ext
  BY <1>4
<1>5. CASE Outside
  <2>1. UNCHANGED ext
    BY <1>5, Zenon DEF Outside, Submit, CancelCall, CancelTask, Panic, Unlock, execVars
  <2>2. QED
    BY <1>4, <2>1
<1>6. ASSUME NEW w \in Workers, Lifecycle(w) \/ Fault(w)
      PROVE  UNCHANGED ext
  BY <1>6, Zenon DEF Lifecycle, Fault, Boot, Start, StartDone, ShutdownEnd, Crash, Shutdown,
        StartFails, Abandon, HeartbeatFails, Orphan
<1>7. ASSUME NEW w \in Workers, NEW x \in Tasks, Dispatch(w, x) \/ Reconciliation(w, x)
      PROVE  UNCHANGED ext
  <2>1. CASE Dispatch(w, x)
    BY <2>1, Zenon DEF Dispatch, Claim, HeartbeatTick, HeartbeatRejected, Orphan
  <2>2. CASE Reconciliation(w, x)
    BY <2>2, Zenon DEF Reconciliation, Inspect, RequeueUntouched, CancelUntouched,
       CompleteVerified,
          ReconcileAnswered, ReconcileUnanswered, ProcessGone, Defer, MonitorTarget, AdoptProcess,
          AdoptAttempt, Settled, execVars
  <2>3. QED
    BY <1>7, <2>1, <2>2
<1>8. ASSUME NEW x \in Tasks, NEW j \in Tokens, Attempt(x, j)
      PROVE  row[t].state = "running"
  <2>1. ASSUME (\E c : SettleFailure(x, j, c)) \/ SettleSuccess(x, j)
        PROVE  UNCHANGED ext
    BY <2>1, Zenon DEF SettleFailure, SettleSuccess
  <2>2. CASE Spawn(x, j) \/ Refused(x, j) \/ LaunchUnknown(x, j)
    BY <1>2, <2>2 DEF Spawn, Refused, LaunchUnknown
  <2>3. CASE RecordVerified(x, j) \/ ManagedBusy(x, j)
    <3>1. UNCHANGED ext
      BY <2>1, <2>3, Zenon DEF RecordVerified, ManagedBusy
    <3>2. QED
      BY <1>4, <3>1
  <2>4. QED
    BY <1>1, <1>3, <1>4, <1>8, <2>1, <2>2, <2>3
    DEF Attempt, BeginFails, TargetReturns, TargetThrows, ManagedReturns, ManagedFails
<1>9. ASSUME NEW x \in Tasks, NEW j \in Tokens, Effect(x, j)
      PROVE  FALSE
  BY <1>2, <1>9 DEF Effect, Land, Vanish, Forward, ChildExit
<1>10. ASSUME NEW x \in Tasks, NEW j \in Tokens, Poll(x, j)
       PROVE  UNCHANGED ext
  BY <1>10, Zenon DEF Poll, PollTerminal, PollProcess, PollTarget
<1>11. ASSUME (\E x \in Tasks : Answer(x) \/ (DelayElapses(x) /\ UNCHANGED execVars)) \/ UNCHANGED vars
       PROVE  UNCHANGED ext
  BY <1>11, Zenon DEF Answer, execVars, vars
<1>12. QED
  BY <1>4, <1>5, <1>6, <1>7, <1>8, <1>9, <1>10, <1>11 DEF Next

\* With one process, no paste starts for a task whose cancellation is in the
\* store (onBeforeSubmit and the check of the abort signal behind it).
THEOREM NoPasteOnceCanceled ==
    ASSUME NEW w, Workers = {w}
    PROVE  Spec => NoPasteAfterCancel
<1> DEFINE AllTold == \A t \in Tasks, k \in Tokens : Told(t, k)
<1>1. Init => AllTold
  BY DEF Init, Told, NoRun
<1>2. IInv /\ AllTold /\ [Next]_vars => AllTold'
  BY ToldNext, StoreAssumption, ExecutorAssumption
<1>3. IInv /\ AllTold /\ [Next]_vars =>
        \A t \in TargetTasks, k \in Tokens :
          ext[t][k] = "none" /\ ext'[t][k] = "armed" => row[t].state = "running"
  BY PasteStep, StoreAssumption, ExecutorAssumption DEF ExecutorAssumption
<1>4. QED
  <2> HIDE DEF AllTold
  <2>1. QED
    BY <1>1, <1>2, <1>3, InvariantHolds, PTL DEF Spec, NoPasteAfterCancel

-----------------------------------------------------------------------------
(* The abstract promise about the watched task.                             *)

USE WatchedAssumption

LEMMA PromiseInit ==
    ASSUME Init
    PROVE  Promise!Init
<1>1. row[Watched] = AbsentRow /\ delivered[Watched] = 0 /\ \A k \in Tokens : ext[Watched][k] = "none"
  BY DEF Init, StoreInit
<1>2. QED
  BY <1>1 DEF Promise!Init, Status, Committed, Permitted, Verdict, AbsentRow, Terminal,
              TerminalStates, SaysUntouched, Intent

\* what the promise sees of a task, when neither its verdict nor its intent
\* nor its permit changes
LEMMA Stutters ==
    ASSUME Status(Watched)' = Status(Watched), Verdict(Watched)' = Verdict(Watched),
           Committed(Watched)' = Committed(Watched), Permitted(Watched)' = Permitted(Watched),
           delivered'[Watched] = delivered[Watched]
    PROVE  UNCHANGED Promise!vars
  BY DEF Promise!vars

LEMMA SameVerdict ==
    ASSUME NEW t \in Tasks, row'[t].state = row[t].state, row'[t].code = row[t].code
    PROVE  Status(t)' = Status(t) /\ Verdict(t)' = Verdict(t)
  BY DEF Status, Verdict, Terminal, SaysUntouched

LEMMA SamePermit ==
    ASSUME NEW t \in Tasks, EffectsKept(t)
    PROVE  Permitted(t)' = Permitted(t) /\ delivered'[t] = delivered[t]
  BY DEF EffectsKept, Permitted

\* A task that is neither absent nor closed is pending and has no verdict.
LEMMA PendingStatus ==
    ASSUME NEW t \in Tasks, row[t].state \in {"queued"} \cup LeasedStates
    PROVE  Status(t) = "pending" /\ Verdict(t) = "none"
  BY DEF Status, Verdict, Terminal, TerminalStates, LeasedStates, SaysUntouched

LEMMA PendingStatusNext ==
    ASSUME NEW t \in Tasks, row'[t].state \in {"queued"} \cup LeasedStates
    PROVE  Status(t)' = "pending" /\ Verdict(t)' = "none"
  BY DEF Status, Verdict, Terminal, TerminalStates, LeasedStates, SaysUntouched

\* Closing a task: the verdict is one the promise allows.
LEMMA ClosingPromised ==
    ASSUME IInv, EffectsKept(Watched), row'[Watched].exec = row[Watched].exec,
           row[Watched].state \in {"absent", "queued"} \cup LeasedStates,
           row'[Watched].state \in TerminalStates,
           row'[Watched].state = "completed" => delivered[Watched] = 1,
           SaysUntouched(Watched)' => row[Watched].exec \notin Intent
    PROVE  Promise!Close
<1>1. Status(Watched) \in {"absent", "pending"} /\ Status(Watched)' = "closed"
  BY DEF Status, Terminal, TerminalStates, LeasedStates
<1>2. /\ Committed(Watched)' = Committed(Watched)
      /\ Permitted(Watched)' = Permitted(Watched)
      /\ delivered'[Watched] = delivered[Watched]
  BY SamePermit DEF Committed
<1>3. \/ delivered[Watched] = 1 /\ Verdict(Watched)' = "done"
      \/ ~Committed(Watched) /\ Verdict(Watched)' = "untouched"
      \/ Verdict(Watched)' = "open"
  <2>1. CASE row'[Watched].state = "completed"
    BY <2>1 DEF Verdict, SaysUntouched
  <2>2. CASE SaysUntouched(Watched)'
    BY <2>2 DEF Verdict, SaysUntouched, Committed
  <2>3. CASE row'[Watched].state # "completed" /\ ~SaysUntouched(Watched)'
    BY <2>3 DEF Verdict, TerminalStates
  <2>4. QED
    BY <2>1, <2>2, <2>3
<1>4. QED
  BY <1>1, <1>2, <1>3 DEF Promise!Close

LEMMA PromiseNext ==
    ASSUME IInv, TaskStep(Watched)
    PROVE  [Promise!Next]_(Promise!vars)
<1>1. CASE Idle(Watched)
  <2>1. Committed(Watched)' = Committed(Watched)
    BY <1>1 DEF Idle, RowKept, Committed
  <2>2. QED
    BY <1>1, <2>1, SameVerdict, SamePermit, Stutters DEF Idle, Quiet, RowKept
<1>2. CASE Born(Watched)
  <2>1. Committed(Watched)' = Committed(Watched) /\ ~Committed(Watched)
    BY <1>2 DEF Born, Committed, IInv, RowClean, Intent
  <2>2. Status(Watched) = "absent" /\ Verdict(Watched) = "none"
    BY <1>2 DEF Born, Status, Verdict, Terminal, TerminalStates, SaysUntouched
  <2>3. CASE row'[Watched].state = "queued"
    BY <1>2, <2>1, <2>2, <2>3, PendingStatusNext, SamePermit DEF Born, Quiet, Promise!Accept,
       Promise!Next
  <2>4. CASE row'[Watched].state = "canceled"
    <3>1. Promise!Close
      BY <1>2, <2>1, <2>4, ClosingPromised DEF Born, Quiet, TerminalStates, Committed
    <3>2. QED
      BY <3>1 DEF Promise!Next
  <2>5. QED
    BY <1>2, <2>3, <2>4 DEF Born
<1>3. CASE Canceled(Watched)
  <2>1. CASE row[Watched].state = "queued" /\ row'[Watched].state = "canceled"
    <3>1. row[Watched].exec \notin Intent
      BY <2>1 DEF IInv, RowClean, Intent
    <3>2. Promise!Close
      BY <1>3, <2>1, <3>1, ClosingPromised DEF Canceled, Quiet, TerminalStates
    <3>3. QED
      BY <3>2 DEF Promise!Next
  <2>2. CASE row[Watched].state \in LeasedStates /\ row'[Watched].state = "cancel_requested"
    <3>1. Committed(Watched)' = Committed(Watched)
      BY <1>3 DEF Canceled, Committed
    <3>2. QED
      BY <1>3, <2>2, <3>1, PendingStatus, PendingStatusNext, SamePermit, Stutters
         DEF Canceled, Quiet, LeasedStates
  <2>3. QED
    BY <1>3, <2>1, <2>2 DEF Canceled
<1>4. CASE GivenBack(Watched)
  <2>1. ~Committed(Watched) /\ ~Committed(Watched)'
    BY <1>4 DEF GivenBack, Committed, Intent
  <2>2. QED
    BY <1>4, <2>1, PendingStatus, PendingStatusNext, SamePermit, Stutters
       DEF GivenBack, Quiet, LeasedStates, Committed
<1>5. CASE Closed(Watched)
  <2>1. row'[Watched].state = "completed" => delivered[Watched] = 1
    BY <1>5 DEF Closed, IInv, TypeOK, AtMostOnce
  <2>2. Promise!Close
    BY <1>5, <2>1, ClosingPromised DEF Closed, Quiet, Leased
  <2>3. QED
    BY <2>2 DEF Promise!Next
<1>6. CASE Answers(Watched)
  <2>1. Committed(Watched)' = Committed(Watched) /\ Permitted(Watched)' = Permitted(Watched)
    BY <1>6 DEF Answers, RowKept, Committed, Permitted
  <2>2. QED
    BY <1>6, <2>1, SameVerdict, Stutters DEF Answers, RowKept
<1>7. ASSUME NEW k \in Tokens, Claimed(Watched, k) \/ Adopted(Watched, k)
      PROVE  [Promise!Next]_(Promise!vars)
  <2>1. EffectsKept(Watched) /\ Committed(Watched)' = Committed(Watched)
    BY <1>7 DEF Claimed, Adopted, Taken, Committed
  <2>2. Status(Watched)' = Status(Watched) /\ Verdict(Watched)' = Verdict(Watched)
    BY <1>7, PendingStatus, PendingStatusNext DEF Claimed, Adopted, Taken, Leased,
       LeasedStates
  <2>3. QED
    BY <2>1, <2>2, SamePermit, Stutters
<1>8. ASSUME NEW k \in Tokens, Recorded(Watched, k)
      PROVE  [Promise!Next]_(Promise!vars)
  <2>1. /\ HoldsLease(Watched, k) /\ delivered'[Watched] = delivered[Watched]
        /\ row'[Watched].state = row[Watched].state
        /\ row'[Watched].code = row[Watched].code
    BY <1>8, Zenon DEF Recorded, Records
  <2>2. /\ Status(Watched) = "pending"
        /\ Status(Watched)' = Status(Watched) /\ Verdict(Watched)' = Verdict(Watched)
    BY <2>1, PendingStatus, SameVerdict DEF HoldsLease, Leased
  <2>3. CASE Records(Watched, k, "verified", "sure", ext[Watched][k]) /\ delivered[Watched] > 0
    <3>1. Committed(Watched) /\ Committed(Watched)'
      BY <2>3 DEF Records, Committed, Intent, IInv, IntentBeforeEffect
    <3>2. Permitted(Watched)' = Permitted(Watched)
      BY <2>3 DEF Records, Permitted
    <3>3. QED
      BY <2>1, <2>2, <3>1, <3>2, Stutters
  <2>4. CASE /\ run[Watched][k].at = "begun" \/ (run[Watched][k].at = "open" /\ ext[Watched][k] = "waiting")
             /\ row'[Watched].exec \in Intent
    <3>1. ~Committed(Watched) /\ Committed(Watched)'
      BY <2>1, <2>4, RecordsInTime DEF Committed
    <3>2. Permitted(Watched)' \in BOOLEAN
      BY DEF Permitted
    <3>3. QED
      BY <2>1, <2>2, <3>1, <3>2 DEF Promise!Commit, Promise!Next
  <2>5. CASE \/ run[Watched][k].at = "begun" /\ Records(Watched, k, "pid", "open", "waiting")
             \/ /\ run[Watched][k].at = "open" /\ ext[Watched][k] = "waiting"
                /\ \/ Records(Watched, k, "busy", "busy", "none")
                   \/ Records(Watched, k, "unknown", "open", "none")
    <3>1. row[Watched].exec \notin Intent
      BY <2>1, <2>5, RecordsInTime
    <3>2. ~Committed(Watched) /\ ~Committed(Watched)'
      BY <2>5, <3>1 DEF Records, Committed, Intent
    <3>3. ~Permitted(Watched) /\ ~Permitted(Watched)'
      BY <2>5, <3>1, NothingYet DEF Records, Permitted
    <3>4. QED
      BY <2>1, <2>2, <3>2, <3>3, Stutters DEF Committed, Permitted
  <2>6. QED
    BY <1>8, <2>3, <2>4, <2>5 DEF Recorded, Records, Intent
<1>9. ASSUME NEW k \in Tokens, Lands(Watched, k)
      PROVE  [Promise!Next]_(Promise!vars)
  <2>1. /\ Status(Watched)' = Status(Watched) /\ Verdict(Watched)' = Verdict(Watched)
        /\ Committed(Watched)' = Committed(Watched)
        /\ delivered'[Watched] = delivered[Watched] + 1
    BY <1>9, SameVerdict DEF Lands, OutsideOnly, RowKept, Committed
  <2>2. Permitted(Watched)
    BY <1>9 DEF Lands, Permitted
  <2>3. Permitted(Watched)' = FALSE
    BY <1>9 DEF Lands, OutsideOnly, Permitted, IInv, OnePermit
  <2>4. QED
    BY <2>1, <2>2, <2>3 DEF Promise!Deliver, Promise!Next
<1>10. ASSUME NEW k \in Tokens, Lapses(Watched, k)
       PROVE  [Promise!Next]_(Promise!vars)
  <2>1. /\ Status(Watched)' = Status(Watched) /\ Verdict(Watched)' = Verdict(Watched)
        /\ Committed(Watched)' = Committed(Watched)
        /\ delivered'[Watched] = delivered[Watched]
    BY <1>10, SameVerdict DEF Lapses, OutsideOnly, RowKept, Committed
  <2>2. CASE ext[Watched][k] = "armed"
    <3>1. Permitted(Watched)
      BY <2>2 DEF Permitted
    <3>2. Permitted(Watched)' = FALSE
      BY <1>10, <2>2 DEF Lapses, OutsideOnly, Permitted, IInv, OnePermit
    <3>3. QED
      BY <2>1, <3>1, <3>2 DEF Promise!Lapse, Promise!Next
  <2>3. CASE ext[Watched][k] # "armed"
    <3>1. Permitted(Watched)' = Permitted(Watched)
      BY <1>10, <2>3 DEF Lapses, OutsideOnly, Permitted
    <3>2. QED
      BY <2>1, <3>1, Stutters
  <2>4. QED
    BY <2>2, <2>3
<1>11. QED
  BY <1>1, <1>2, <1>3, <1>4, <1>5, <1>6, <1>7, <1>8, <1>9, <1>10 DEF TaskStep

\* The executor, with its leases, processes, crashes and reconciliation, does
\* to each task only what the abstract promise allows.
THEOREM ExecutorKeepsPromise == Spec => KeepsPromise
<1>1. Init => Promise!Init
  BY PromiseInit
<1>2. IInv /\ [Next]_vars => [Promise!Next]_(Promise!vars)
  BY StepOfTask, PromiseNext, ExecutorAssumption
<1>3. QED
  BY <1>1, <1>2, InvariantHolds, PTL DEF Spec, KeepsPromise, Promise!Spec
=============================================================================
