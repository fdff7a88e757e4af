------------------------------ MODULE VoiceJobs ------------------------------
(***************************************************************************)
(* The jobs of the voice application: rows in its own store, at most one     *)
(* execution for each in memory, and tasks of the same idempotency key in the *)
(* controller's executor, asked for, polled and canceled over requests that  *)
(* may be lost, late or unanswered.                                         *)
(***************************************************************************)
EXTENDS Naturals, FiniteSets

CONSTANT Jobs

VARIABLES status,  \* of the job's row, "none" without one
          targets, \* rows of kind tmux_agent_message; others are managed_agent
          at,      \* where its execution is: activeExecutions, "none" without one
          saw,     \* the status its reconciliation found
          final,   \* the task its reconciliation found was terminal
          timer,   \* reconciliationTimers
          call,    \* a cancelAgentTask waits for the controller
          lock, pending, \* the execution lock on disk, and remotePanicPending
          panic,   \* a panic under way: "none", "stop" or "retry"
          caught,  \* the jobs it asked to cancel
          retry,   \* panicRetryTimer
          phase,   \* the process: "down", "up" or "closing"
          task,    \* the executor's task, "absent" without one
          stopped, \* its cancellation is requested
          tombs,   \* cancellation reservations of the executor
          xlock,   \* the executor's panic lock
          post,    \* POST /executor/tasks: none, sent, accepted or refused
          sent,    \* how often that of a target was sent, counted up to two
          asks,    \* session/cancel requests under way, by who waits for them
          stop     \* a stop under way to the controller

rowVars  == <<status, targets>>
execVars == <<at, saw, final>>
lockVars == <<lock, pending>>
panicVars == <<panic, caught, retry>>
xVars    == <<task, stopped, tombs, xlock>>
wireVars == <<post, sent, asks, stop>>
vars == <<rowVars, execVars, timer, call, lockVars, panicVars, phase, xVars, wireVars>>

Terminal  == {"completed", "failed", "canceled", "outcome_unknown"}
Unsettled == {"reconciling", "cancel_requested"}
Open      == {"running"} \cup Unsettled
Ended     == {"completed", "canceled", "failed", "unknown"}
Callers   == {"call", "execution"}

VoiceInit ==
    /\ status = [j \in Jobs |-> "none"]
    /\ targets = {}
    /\ at = [j \in Jobs |-> "none"]
    /\ saw = [j \in Jobs |-> "none"]
    /\ final = [j \in Jobs |-> FALSE]
    /\ timer = [j \in Jobs |-> FALSE]
    /\ call = [j \in Jobs |-> FALSE]
    /\ lock = FALSE /\ pending = FALSE
    /\ panic = "none" /\ caught = {} /\ retry = FALSE
    /\ phase = "up"
    /\ task = [j \in Jobs |-> "absent"]
    /\ stopped = [j \in Jobs |-> FALSE]
    /\ tombs = {}
    /\ xlock = FALSE
    /\ post = [j \in Jobs |-> "none"]
    /\ sent = [j \in Jobs |-> 0]
    /\ asks = [j \in Jobs |-> {}]
    /\ stop = FALSE

Running == phase # "down"

-----------------------------------------------------------------------------
(* Compare-and-set on the row.  Each leaves a row of another status alone.   *)

\* completeJobCas, failJobCas, cancelJobCas and markJobOutcomeUnknown
Finish(j, to) ==
    status' = [status EXCEPT ![j] =
        IF @ \in Open \cup (IF to \in {"failed", "canceled"} THEN {"queued"} ELSE {})
        THEN to ELSE @]

\* deferJobReconciliation and _scheduleReconciliation
Deferred(j) == IF status[j] \in {"queued", "running"} THEN "reconciling" ELSE status[j]

\* bug: a row that was unsettled already gets no timer
DeferOnce(j) ==
    /\ status' = [status EXCEPT ![j] = Deferred(j)]
    /\ timer' = [timer EXCEPT ![j] = @ \/ (status[j] \notin Unsettled /\ Deferred(j) \in Unsettled)]

Defer(j) ==
    /\ status' = [status EXCEPT ![j] = Deferred(j)]
    /\ timer' = [timer EXCEPT ![j] = @ \/ Deferred(j) \in Unsettled]

\* bug: a running job is canceled at once
CancelingAtOnce(j) ==
    IF status[j] \in {"queued", "running", "reconciling"} THEN "canceled" ELSE status[j]

\* requestJobCancellation
Canceling(j) ==
    IF status[j] = "queued" THEN "canceled"
    ELSE IF status[j] \in {"running", "reconciling"} THEN "cancel_requested" ELSE status[j]

-----------------------------------------------------------------------------
(* An execution: _scheduleExecution, _execute and what it calls.             *)

ExecOnly == UNCHANGED <<targets, call, lockVars, panicVars, phase, xVars, asks, stop>>
NoPost   == UNCHANGED <<post, sent>>

\* it goes on, its row as it is
Goes(j, to) ==
    /\ at' = [at EXCEPT ![j] = to]
    /\ UNCHANGED <<status, timer>>

Moves(j, to) == Goes(j, to) /\ UNCHANGED <<saw, final>>

\* it is over: its row finished, or left for another reconciliation
Over(j) ==
    /\ at' = [at EXCEPT ![j] = "none"]
    /\ saw' = [saw EXCEPT ![j] = "none"]
    /\ final' = [final EXCEPT ![j] = FALSE]

Closes(j, to) == Over(j) /\ Finish(j, to) /\ UNCHANGED timer
Defers(j)     == Over(j) /\ Defer(j)

\* the executor's verdict as the broker reads it
VerdictOf(j) == IF task[j] = "unknown" THEN "outcome_unknown" ELSE task[j]

\* the row turns running and its task is asked for
Posts(j, to) ==
    /\ status' = [status EXCEPT ![j] = to]
    /\ at' = [at EXCEPT ![j] = "posting"]
    /\ saw' = [saw EXCEPT ![j] = "none"]
    /\ post' = [post EXCEPT ![j] = "sent"]
    /\ sent' = [sent EXCEPT ![j] = IF j \in targets /\ @ < 2 THEN @ + 1 ELSE @]
    /\ UNCHANGED <<final, timer>>

Scheduled(j) == [at EXCEPT ![j] = IF @ = "none" /\ phase = "up" THEN "scheduled" ELSE @]

\* the setImmediate of _scheduleExecution: an unsettled row is reconciled, a
\* queued one runs unless the lock is set
Execute(j) ==
    /\ at[j] = "scheduled" /\ phase = "up"
    /\ \/ /\ status[j] \in Unsettled
          /\ saw' = [saw EXCEPT ![j] = status[j]]
          /\ Goes(j, "looking")
          /\ UNCHANGED final /\ NoPost
       \/ /\ status[j] = "queued" /\ ~lock
          /\ IF j \in targets
             THEN Posts(j, "running")
             ELSE /\ status' = [status EXCEPT ![j] = "running"]
                  /\ at' = [at EXCEPT ![j] = "probing"]
                  /\ UNCHANGED <<saw, final, timer>> /\ NoPost
       \/ /\ status[j] \notin Unsettled /\ (status[j] = "queued" => lock)
          /\ Moves(j, "none") /\ NoPost
    /\ ExecOnly

\* A lookup by idempotency key is answered behind the managed POST before it, as
\* that handler does not wait; a target's is prepared in the meantime.
Answerable(j) == post[j] = "sent" => j \in targets

\* _resumeExistingDurableTask of a new run, whose failure counts as absence
Probe(j) ==
    /\ at[j] = "probing"
    /\ \/ Answerable(j) /\ task[j] # "absent" /\ Moves(j, "waiting") /\ NoPost
       \/ Posts(j, status[j])
    /\ ExecOnly

\* the submission is answered with a task, or refused with a status; of a target's
\* refused without a code the outcome is unknown
PostAnswered(j) ==
    /\ at[j] = "posting"
    /\ \/ post[j] = "accepted" /\ Moves(j, "waiting")
       \/ post[j] = "refused" /\ Closes(j, "failed")
       \/ post[j] = "refused" /\ j \in targets /\ Closes(j, "outcome_unknown")
    /\ post' = [post EXCEPT ![j] = "none"]
    /\ UNCHANGED sent /\ ExecOnly

\* or without any answer, in time or at all: recoverAmbiguousExecutorSubmission
PostUnanswered(j) ==
    /\ at[j] = "posting"
    /\ Moves(j, "retrieving")
    /\ post' = [post EXCEPT ![j] = IF @ = "sent" THEN @ ELSE "none"]
    /\ UNCHANGED sent /\ ExecOnly

\* its lookups find the task
Retrieve(j) ==
    /\ at[j] = "retrieving"
    /\ Answerable(j) /\ task[j] # "absent"
    /\ Moves(j, "waiting") /\ NoPost
    /\ ExecOnly

\* they do not, and the first error stands: a target's outcome is unknown, a
\* managed job is reconciled
RetrieveFails(j) ==
    /\ at[j] = "retrieving"
    /\ IF j \in targets THEN Closes(j, "outcome_unknown") ELSE Defers(j)
    /\ NoPost /\ ExecOnly

\* mapBridgeError makes AGENT_ERROR of an error it does not know, ECONNRESET for
\* one, and that is not uncertain; nor is a lookup for a target that ends in an
\* error with a code
RetrieveFailsPlainly(j) ==
    /\ at[j] = "retrieving"
    /\ Closes(j, "failed")
    /\ NoPost /\ ExecOnly

\* waitForExecutorTask of a submission: the terminal task; a timeout, which is
\* also how a failure that reports one is taken
WaitEnds(j) ==
    /\ at[j] = "waiting"
    /\ \/ task[j] \in Ended /\ Closes(j, VerdictOf(j))
       \/ task[j] \in {"live", "failed"} /\ Defers(j)
    /\ NoPost /\ ExecOnly

-----------------------------------------------------------------------------
(* _reconcileDurableJob.                                                    *)

LookupFails(j) ==
    /\ at[j] = "looking"
    /\ Defers(j)
    /\ NoPost /\ ExecOnly

\* bug: an absent target is sent once more
AbsentResent(j) ==
    \/ saw[j] = "cancel_requested" /\ Closes(j, "canceled") /\ NoPost
    \/ saw[j] = "reconciling" /\ Posts(j, IF status[j] = "reconciling" THEN "running" ELSE status[j])

\* the executor knows no task: a target was perhaps delivered, a canceled job is
\* canceled, any other is submitted again, whatever its row says by now
Absent(j) ==
    \/ j \in targets /\ Closes(j, "outcome_unknown") /\ NoPost
    \/ j \notin targets /\ saw[j] = "cancel_requested" /\ Closes(j, "canceled") /\ NoPost
    \/ /\ j \notin targets /\ saw[j] = "reconciling"
       /\ Posts(j, IF status[j] = "reconciling" THEN "running" ELSE status[j])

LookupAbsent(j) ==
    /\ at[j] = "looking"
    /\ Answerable(j) /\ task[j] = "absent"
    /\ Absent(j)
    /\ ExecOnly

LookupFinds(j) ==
    /\ at[j] = "looking"
    /\ Answerable(j) /\ task[j] # "absent"
    /\ final' = [final EXCEPT ![j] = task[j] \in Ended]
    /\ IF saw[j] = "cancel_requested"
       THEN /\ Goes(j, "stopping")
            /\ asks' = [asks EXCEPT ![j] = @ \cup {"execution"}]
       ELSE Goes(j, "watching") /\ UNCHANGED asks
    /\ NoPost
    /\ UNCHANGED <<targets, saw, stop, call, lockVars, panicVars, phase, xVars>>

\* cancelSession succeeds
StopConfirmed(j) ==
    /\ at[j] = "stopping" /\ "execution" \notin asks[j]
    /\ Moves(j, "watching")
    /\ NoPost /\ ExecOnly

StopUnconfirmed(j) ==
    /\ at[j] = "stopping"
    /\ Defers(j)
    /\ NoPost /\ ExecOnly

\* the wait for a task that was not terminal may time out, or end with a failure
\* that reports a timeout
Watch(j) ==
    /\ at[j] = "watching"
    /\ \/ task[j] \in Ended /\ Closes(j, VerdictOf(j))
       \/ ~final[j] /\ task[j] \in {"live", "failed"} /\ Defers(j)
    /\ NoPost /\ ExecOnly

\* a timer of _scheduleReconciliation; while an execution is active it only
\* finds that one
TimerFires(j) ==
    /\ timer[j] /\ Running
    /\ timer' = [timer EXCEPT ![j] = FALSE]
    /\ at' = Scheduled(j)
    /\ UNCHANGED <<status, saw, final>> /\ NoPost /\ ExecOnly

-----------------------------------------------------------------------------
(* Requests of the caller.                                                  *)

RequestOnly == UNCHANGED <<saw, final, lockVars, panicVars, phase, xVars, post, sent, stop>>

\* startAgentTask
Create(j) ==
    /\ phase = "up" /\ ~lock
    /\ status[j] = "none"
    /\ status' = [status EXCEPT ![j] = "queued"]
    /\ targets' \in {targets, targets \cup {j}}
    /\ at' = Scheduled(j)
    /\ UNCHANGED <<timer, call, asks>> /\ RequestOnly

\* cancelAgentTask up to its request to the controller
Cancel(j) ==
    /\ Running /\ ~call[j]
    /\ status[j] \in {"queued"} \cup Open
    /\ status' = [status EXCEPT ![j] = Canceling(j)]
    /\ IF status[j] = "queued"
       THEN UNCHANGED <<call, asks>>
       ELSE /\ call' = [call EXCEPT ![j] = TRUE]
            /\ asks' = [asks EXCEPT ![j] = @ \cup {"call"}]
    /\ UNCHANGED <<targets, at, timer>> /\ RequestOnly

\* the request is answered or given up; what is not terminal is reconciled
CancelReturns(j) ==
    /\ call[j]
    /\ call' = [call EXCEPT ![j] = FALSE]
    /\ Defer(j)
    /\ UNCHANGED <<targets, at, asks>> /\ RequestOnly

-----------------------------------------------------------------------------
(* Emergency stop and unlock.                                               *)

\* panicStop up to its first await; one at a time
Panic ==
    /\ Running /\ panic = "none"
    /\ lock' = TRUE /\ pending' = TRUE
    /\ panic' = "stop"
    /\ stop' = TRUE
    /\ status' = [j \in Jobs |-> Canceling(j)]
    /\ caught' = {j \in Jobs : Canceling(j) = "cancel_requested"}
    /\ UNCHANGED <<targets, execVars, timer, call, retry, phase, xVars, post, sent, asks>>

\* the timer of _scheduleRemotePanicRetry
RetryPanic ==
    /\ retry /\ Running /\ panic = "none"
    /\ retry' = FALSE
    /\ IF lock /\ pending
       THEN panic' = "retry" /\ stop' = TRUE
       ELSE UNCHANGED <<panic, stop>>
    /\ UNCHANGED <<rowVars, execVars, timer, call, lockVars, caught, phase, xVars, post, sent, asks>>

\* the answer of every plane, or none in time; a stop then awaits its jobs
PanicReturns(success) ==
    /\ panic # "none"
    /\ success => ~stop
    /\ pending' = ~success
    /\ retry' = IF success THEN retry /\ panic = "retry" ELSE TRUE
    /\ panic' = "none"
    /\ caught' = {}
    /\ timer' = [j \in Jobs |-> timer[j] \/ (j \in caught /\ status[j] = "cancel_requested")]
    /\ UNCHANGED <<rowVars, execVars, call, lock, phase, xVars, wireVars>>

\* recoverDurableJobs
Recover(locked, rows) ==
    /\ at' = [j \in Jobs |-> IF rows[j] = "queued" /\ ~locked /\ at[j] = "none"
                             THEN "scheduled" ELSE at[j]]
    /\ timer' = [j \in Jobs |-> timer[j] \/ rows[j] \in Unsettled]

\* unlockExecution; it is refused while a remote panic is unconfirmed
Unlock ==
    /\ phase = "up" /\ lock /\ ~pending
    /\ lock' = FALSE
    /\ Recover(FALSE, status)
    /\ UNCHANGED <<rowVars, saw, final, call, pending, panicVars, phase, xVars, wireVars>>

-----------------------------------------------------------------------------
(* Shutdown, crash and restart.                                             *)

\* close: nothing is scheduled any more, what runs is awaited
Close ==
    /\ phase = "up"
    /\ phase' = "closing"
    /\ at' = [j \in Jobs |-> IF at[j] = "scheduled" THEN "none" ELSE at[j]]
    /\ timer' = [j \in Jobs |-> FALSE]
    /\ retry' = FALSE
    /\ UNCHANGED <<rowVars, saw, final, call, lockVars, panic, caught, xVars, wireVars>>

Dies ==
    /\ phase' = "down"
    /\ at' = [j \in Jobs |-> "none"]
    /\ saw' = [j \in Jobs |-> "none"]
    /\ final' = [j \in Jobs |-> FALSE]
    /\ timer' = [j \in Jobs |-> FALSE]
    /\ call' = [j \in Jobs |-> FALSE]
    /\ panic' = "none" /\ caught' = {} /\ retry' = FALSE
    /\ post' = [j \in Jobs |-> IF post[j] = "sent" THEN "sent" ELSE "none"]
    /\ UNCHANGED <<rowVars, xVars, sent, asks, stop>>

Crash == Running /\ Dies /\ UNCHANGED lockVars

\* between the lock file and the rows of a panic
PanicAndDie == Running /\ panic = "none" /\ lock' = TRUE /\ pending' = TRUE /\ Dies

\* recoverInterruptedJobs and recoverDurableJobs
Start ==
    LET rows == [j \in Jobs |-> IF status[j] = "running" THEN "reconciling" ELSE status[j]] IN
    /\ phase = "down"
    /\ phase' = "up"
    /\ status' = rows
    /\ Recover(lock, rows)
    /\ retry' = (lock /\ pending)
    /\ UNCHANGED <<targets, saw, final, call, lockVars, panic, caught, xVars, wireVars>>

-----------------------------------------------------------------------------
(* The controller.                                                          *)

ControllerOnly ==
    UNCHANGED <<rowVars, execVars, timer, call, lockVars, panicVars, phase, sent>>

\* POST /executor/tasks: the task of the key, a canceled one under a reservation,
\* nothing under the lock or for another reason, or a new one
PostArrives(j) ==
    /\ post[j] = "sent"
    /\ \/ /\ task[j] # "absent" \/ (j \notin tombs /\ xlock)
          /\ UNCHANGED task
       \/ /\ task[j] = "absent" /\ j \in tombs
          /\ task' = [task EXCEPT ![j] = "canceled"]
       \/ /\ task[j] = "absent" /\ j \notin tombs /\ ~xlock
          /\ task' \in {task, [task EXCEPT ![j] = "live"]}
    /\ post' = [post EXCEPT ![j] =
          IF at[j] # "posting" THEN "none"
          ELSE IF task'[j] = "absent" THEN "refused" ELSE "accepted"]
    /\ UNCHANGED <<stopped, tombs, xlock, asks, stop>> /\ ControllerOnly

PostDies(j) ==
    /\ post[j] = "sent" /\ at[j] # "posting"
    /\ post' = [post EXCEPT ![j] = "none"]
    /\ UNCHANGED <<xVars, asks, stop>> /\ ControllerOnly

\* handleCancelSession: the task is asked to stop, or its key is reserved
AskArrives(j, who) ==
    /\ who \in asks[j]
    /\ asks' = [asks EXCEPT ![j] = @ \ {who}]
    /\ tombs' = IF task[j] = "absent" THEN tombs \cup {j} ELSE tombs
    /\ stopped' = [stopped EXCEPT ![j] = @ \/ task[j] = "live"]
    /\ UNCHANGED <<task, xlock, post, stop>> /\ ControllerOnly

\* a request nobody waits for any more is lost
AskDies(j, who) ==
    /\ who \in asks[j]
    /\ IF who = "call" THEN ~call[j] ELSE at[j] # "stopping"
    /\ asks' = [asks EXCEPT ![j] = @ \ {who}]
    /\ UNCHANGED <<xVars, post, stop>> /\ ControllerOnly

\* the stop locks the executor and asks every task to end
StopArrives ==
    /\ stop
    /\ stop' = FALSE
    /\ xlock' = TRUE
    /\ stopped' = [j \in Jobs |-> stopped[j] \/ task[j] = "live"]
    /\ UNCHANGED <<task, tombs, post, asks>> /\ ControllerOnly

StopDies ==
    /\ stop /\ panic = "none"
    /\ stop' = FALSE
    /\ UNCHANGED <<xVars, post, asks>> /\ ControllerOnly

\* a task ends; canceled only if that was asked for
TaskEnds(j) ==
    /\ task[j] = "live"
    /\ \E end \in Ended :
          /\ end = "canceled" => stopped[j]
          /\ task' = [task EXCEPT ![j] = end]
    /\ UNCHANGED <<stopped, tombs, xlock, post, asks, stop>> /\ ControllerOnly

\* the operator unlocks the quiesced executor
ExecutorUnlocks ==
    /\ xlock /\ \A j \in Jobs : task[j] # "live"
    /\ xlock' = FALSE
    /\ UNCHANGED <<task, stopped, tombs, post, asks, stop>> /\ ControllerOnly

-----------------------------------------------------------------------------
ExecSteps(j) ==
    \/ Execute(j) \/ Probe(j) \/ PostAnswered(j) \/ PostUnanswered(j)
    \/ Retrieve(j) \/ RetrieveFails(j) \/ RetrieveFailsPlainly(j) \/ WaitEnds(j)
    \/ LookupFails(j) \/ LookupAbsent(j) \/ LookupFinds(j)
    \/ StopConfirmed(j) \/ StopUnconfirmed(j) \/ Watch(j)

ControllerSteps(j) ==
    \/ PostArrives(j) \/ PostDies(j) \/ TaskEnds(j)
    \/ \E who \in Callers : AskArrives(j, who) \/ AskDies(j, who)

VoiceNext ==
    \/ \E j \in Jobs :
          \/ Create(j) \/ Cancel(j) \/ CancelReturns(j) \/ TimerFires(j)
          \/ ExecSteps(j) \/ ControllerSteps(j)
    \/ Panic \/ RetryPanic \/ Unlock \/ Close \/ Crash \/ PanicAndDie \/ Start
    \/ \E success \in BOOLEAN : PanicReturns(success)
    \/ StopArrives \/ StopDies \/ ExecutorUnlocks

VoiceSpec == VoiceInit /\ [][VoiceNext]_vars
=============================================================================
