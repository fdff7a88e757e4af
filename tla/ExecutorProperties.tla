-------------------------- MODULE ExecutorProperties --------------------------
(***************************************************************************)
(* What the executor promises about one task: its request takes effect at   *)
(* most once, never before the intent is durable, and the verdict in the    *)
(* row never contradicts what happened outside.                            *)
(***************************************************************************)
EXTENDS Executor

CONSTANT Watched   \* any task: the one whose promise is looked at

ASSUME WatchedAssumption == Watched \in Tasks

\* Types of the variables of the store and of the dispatchers.
TypeOK ==
    /\ row \in [Tasks -> Rows]
    /\ reserved \subseteq Tasks
    /\ locked \in BOOLEAN
    /\ snap \in [Workers -> [Tasks -> Snaps]]
    /\ disp \in [Workers -> {"down", "idle", "starting", "running", "stopping"}]
    /\ active \in [Workers -> [Tasks -> Tokens \cup {NoToken}]]
    /\ run \in [Tasks -> [Tokens -> Runs]]
    /\ ext \in [Tasks -> [Tokens -> ExtStages]]
    /\ delivered \in [Tasks -> Nat]
    /\ answered \in [Tasks -> BOOLEAN]

\* the stages that admit the effect may have happened
Intent == {"started", "attempt", "verified"}

\* Something of the task is under way that nothing in the controller stops.
InFlight(t) == \E k \in Tokens : ext[t][k] \in {"armed", "working"}

\* A request reaches its provider at most once, whatever processes crash,
\* lose their lease, restart or reconcile: leases, durable stages and the
\* revision check together, none alone.
AtMostOnce == \A t \in Tasks : delivered[t] <= 1

\* No effect without a durable intent: a paste under way, an acknowledged
\* launch or a delivery always has its stage in execution_json.
IntentBeforeEffect ==
    \A t \in Tasks : InFlight(t) \/ delivered[t] > 0 => row[t].exec \in Intent

\* A completed task was delivered, exactly once.
VerifiedCompletion ==
    \A t \in Tasks : row[t].state = "completed" => delivered[t] = 1

\* Verdicts that tell the caller nothing happened are true, and stay true: a
\* refusal, and for a mutation also its cancellation.
SaysUntouched(t) ==
    \/ row[t].state = "failed" /\ row[t].code = "refused"
    \/ row[t].state = "failed" /\ row[t].code = "failed" /\ t \in MutatingTasks
    \/ row[t].state = "canceled" /\ t \in MutatingTasks

HonestVerdict ==
    \A t \in Tasks : SaysUntouched(t) => delivered[t] = 0 /\ ~InFlight(t)

\* What a closed row tells the caller is true of the outside world.
TrueVerdict == VerifiedCompletion /\ HonestVerdict

\* While the panic lock is set no phone-originated task waits in the queue or
\* runs without a cancellation request: not by a late requeue, deferral,
\* adoption or submission either.
PanicFreezesQueue ==
    locked => \A t \in VoiceTasks : row[t].state \notin {"queued", "running"}

\* A closed task keeps its verdict: no late settlement, poll, cancellation or
\* reconciliation rewrites it.
TerminalIsFinal ==
    [][\A t \in Tasks : row[t].state \in TerminalStates =>
          row'[t].state = row[t].state /\ row'[t].code = row[t].code]_vars

\* Requeueing and deferral never forget that an effect was possible.
IntentNeverErased ==
    [][\A t \in Tasks : row[t].exec \in Intent => row'[t].exec \in Intent]_vars

\* A task whose cancellation was requested never goes back to work or to the
\* queue.
CancellationSticks ==
    [][\A t \in Tasks : row[t].state = "cancel_requested" =>
          row'[t].state \in {"cancel_requested"} \cup TerminalStates]_vars

\* With one process, no paste is started for a task whose cancellation is in
\* the store: the abort signal and the store agree.
NoPasteAfterCancel ==
    [][\A t \in TargetTasks, k \in Tokens :
          ext[t][k] = "none" /\ ext'[t][k] = "armed" => row[t].state = "running"]_vars

-----------------------------------------------------------------------------
(* The inductive invariant.  A row off its lease has no stage to forget, a  *)
(* reader's fresh copy is the row, the holder of the lease knows the stage   *)
(* its attempt is at, and deliveries come after intents.                    *)

\* Nothing is known of an execution before a claim, and the two kinds of task
\* keep to their stages.
RowClean(t) ==
    /\ row[t].state \in {"absent", "queued"} => row[t].exec = "none" /\ row[t].lease = NoToken
    /\ t \in ManagedTasks => row[t].exec \notin {"attempt", "verified"}
    /\ t \in TargetTasks => row[t].exec \in {"none", "attempt", "verified"}

\* What a reconciler acts on is what the row still says.
FreshIsCurrent(w, t) ==
    snap[w][t].mark = "fresh" =>
        /\ Leased(t)
        /\ snap[w][t].state = row[t].state
        /\ snap[w][t].exec = row[t].exec

\* The holder of the lease has written the stage its attempt is at, and
\* nobody else has since.
HolderKnows(t, k) ==
    HoldsLease(t, k) =>
        /\ run[t][k].at = "begun" => row[t].exec = "none"
        /\ run[t][k].at = "busy" => row[t].exec = "busy"
        /\ run[t][k].at = "open" /\ ext[t][k] = "waiting" => row[t].exec = "pid"

\* Each kind of attempt keeps to its own stages, and reports a verified result
\* only of a delivered request.
RunFits(t, k) ==
    /\ run[t][k].at = "busy" => t \in ManagedTasks
    /\ run[t][k].at = "sure" => t \in TargetTasks /\ delivered[t] > 0
    /\ ext[t][k] \in {"waiting", "working"} => t \in ManagedTasks
    /\ ext[t][k] = "working" => delivered[t] > 0

\* At most one attempt holds the permit, and only before the delivery.
OnePermit(t, j, k) ==
    ext[t][j] = "armed" => /\ ext[t][k] = "armed" => j = k
                           /\ delivered[t] = 0

\* Answers and verified stages come after the delivery.
AnswersFollow(t) ==
    answered[t] \/ row[t].exec = "verified" => delivered[t] > 0

UntouchedHasNoIntent(t) == SaysUntouched(t) => row[t].exec \notin Intent

IInv == /\ TypeOK
        /\ \A t \in Tasks : RowClean(t) /\ AnswersFollow(t) /\ UntouchedHasNoIntent(t)
        /\ \A w \in Workers, t \in Tasks : FreshIsCurrent(w, t)
        /\ \A t \in Tasks, k \in Tokens : HolderKnows(t, k) /\ RunFits(t, k)
        /\ \A t \in Tasks, j, k \in Tokens : OnePermit(t, j, k)
        /\ AtMostOnce /\ IntentBeforeEffect /\ VerifiedCompletion

-----------------------------------------------------------------------------
(* The state of module DeliveryPromise for one task.                        *)

Status(t) == CASE row[t].state = "absent" -> "absent"
               [] Terminal(t)             -> "closed"
               [] OTHER                   -> "pending"

Verdict(t) == CASE row[t].state = "completed"        -> "done"
                [] SaysUntouched(t)                  -> "untouched"
                [] row[t].state \in {"failed", "canceled"} /\ ~SaysUntouched(t) -> "open"
                [] OTHER                             -> "none"

Committed(t) == row[t].exec \in Intent
Permitted(t) == \E k \in Tokens : ext[t][k] = "armed"

Promise == INSTANCE DeliveryPromise WITH
    status <- Status(Watched),
    committed <- Committed(Watched),
    permit <- Permitted(Watched),
    delivered <- delivered[Watched],
    verdict <- Verdict(Watched)

\* The executor keeps the abstract promise about a task, any task: what its many
\* steps do to one request is an acceptance, a commitment, a delivery or a
\* closure the promise allows.
KeepsPromise == Promise!Spec

-----------------------------------------------------------------------------
(* Liveness.  Processes come back up and finish their sweep, attempts and   *)
(* the processes they started end, leases expire unless renewed, candidates *)
(* are reconciled and recovered records polled.  Claims are not needed.     *)

Others(w) == {v \in Workers \ {w} : disp[v] # "down"}

Fairness ==
    /\ \A w \in Workers : /\ WF_vars(Boot(w) /\ Others(w) = {}) /\ WF_vars(Start(w))
                          /\ SF_vars(StartDone(w)) /\ WF_vars(ShutdownEnd(w))
    /\ \A w \in Workers, t \in Tasks : /\ WF_vars(Reconciliation(w, t))
                                       /\ WF_vars(HeartbeatRejected(w, t))
    /\ \A t \in Tasks, k \in Tokens :
          WF_vars(Attempt(t, k)) /\ WF_vars(Effect(t, k)) /\ WF_vars(Poll(t, k))
    /\ \A t \in Tasks : WF_vars(LeaseExpires(t) /\ UNCHANGED execVars)

LiveSpec == Spec /\ Fairness

\* Faults end some day, and so do panics: each one rewrites every canceling
\* row, so that a sweep under way finds it changed and starts over.
Calm == /\ <>[][~ \E w \in Workers : Fault(w) \/ Panic(w)]_vars
        /\ <>[](\A w \in Workers : disp[w] # "down" => Others(w) = {})

\* A leased target-session message is closed or given back to the queue, and so
\* is a managed task whose wrapper has a durable identity.
TasksSettle ==
    Calm => /\ \A t \in TargetTasks : Leased(t) ~> ~Leased(t)
            /\ \A t \in ManagedTasks : (Leased(t) /\ row[t].pid # NoToken) ~> ~Leased(t)
=============================================================================
