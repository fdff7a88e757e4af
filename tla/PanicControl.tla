---------------------------- MODULE PanicControl ----------------------------
(***************************************************************************)
(* The emergency stop of the controller and its undoing: the voice lock    *)
(* file (lib/voice-execution-control.js), the panic lock of the executor    *)
(* queue (module ExecutorTaskStore), the worker session broker with its      *)
(* control lane and durable fence, and the root broker of privileged        *)
(* actions, driven by concurrent panic and unlock requests of               *)
(* claude-api-server/server.js.  What a claimed row does between its claim   *)
(* and its end is module Executor's matter; here it may start one worker    *)
(* operation and ends some time.                                            *)
(* An operator marked "bug" is used by no other.                            *)
(***************************************************************************)
EXTENDS ExecutorTaskStore, Sequences

CONSTANTS
    TargetTasks,   \* target_session_message submissions
    Requests,      \* slots for panic and unlock requests in flight
    Nobody,        \* the caller of a worker control call that stopped waiting
    Strict,        \* strictPersistentState of the voice lock file
    Privileged,    \* PRIVILEGED_ACTION_PROXY_ENABLED
    MaxLane        \* bound on the worker's control calls under way

ASSUME PanicAssumption ==
    /\ TargetTasks \subseteq VoiceTasks
    /\ Nobody \notin Requests
    /\ Strict \in BOOLEAN
    /\ Privileged \in BOOLEAN
    /\ MaxLane \in Nat \ {0}

VARIABLES
    up,         \* the controller is serving
    voice,      \* the lock file, and memoryLock of the process
    prepared,   \* target submissions past the voice gate, awaiting prepare
    worker,     \* worker_session_control.panic_locked, and the control lane
    op,         \* rows with a run in the worker's activeRuns
    root,       \* privileged_action_control.panic_locked, and whether an action runs
    req         \* the control requests, and what the answered ones were told

panicVars == <<row, reserved, locked, snap, up, voice, prepared, worker, op, root, req>>

-----------------------------------------------------------------------------
(* "torn" is a strict lock file whose transition marker was left behind.    *)
(* memoryLock is "unsaved" when the last write failed; without strict        *)
(* state it also mirrors a saved lock.                                      *)

Voices == [file : {"open", "locked", "torn"}, mem : {"none", "saved", "unsaved"}]

LockedIn(v) == v.mem # "none" \/ v.file # "open"
ErrorIn(v)  == v.mem = "unsaved" \/ (v.mem = "none" /\ v.file = "torn")

VoiceLocked == LockedIn(voice)

\* The operators below return what the method may leave behind, with what it
\* reports: ok is the persistent field of lock(), "not locked" of unlock().

\* _persistState of a locked state
Saves(v) ==
    LET saved  == [v |-> [file |-> "locked", mem |-> IF Strict THEN "none" ELSE "saved"], ok |-> TRUE]
        failed == {[v |-> [file |-> f, mem |-> "unsaved"], ok |-> FALSE] :
                      f \in {v.file, "locked"} \cup (IF Strict THEN {"torn"} ELSE {})}
        torn   == [v |-> [file |-> "torn", mem |-> "unsaved"], ok |-> FALSE]
    IN  IF v.file = "torn" THEN {torn} ELSE {saved} \cup failed

\* bug: a lock that is only in memory counts as saved
LocksTrusted(v) == IF LockedIn(v) THEN {[v |-> v, ok |-> TRUE]} ELSE Saves(v)

Locks(v) ==
    IF LockedIn(v) /\ ~ErrorIn(v) THEN {[v |-> v, ok |-> TRUE]} ELSE Saves(v)

\* A strict write may fail after the unlocked state was published.
Unlocks(v) ==
    LET open == [v |-> [file |-> "open", mem |-> "none"], ok |-> TRUE]
        kept == [v |-> v, ok |-> FALSE]
        unsaved == {[v |-> [file |-> f, mem |-> "unsaved"], ok |-> FALSE] :
                       f \in {"open", "locked", "torn"}}
    IN  IF ~Strict THEN {open, kept}
        ELSE IF ErrorIn(v) THEN {kept}
        ELSE IF ~LockedIn(v) THEN {open}
        ELSE {open} \cup unsaved

-----------------------------------------------------------------------------
(* Control requests.  said is what an acknowledged panic reported, since tells *)
(* whether an unlock has overlapped it ("mixed") or undone it ("undone")     *)
(* from its first step on.                                                   *)

Idle == [stage |-> "idle", kind |-> "none", fenced |-> FALSE, quiet |-> FALSE,
         root |-> "none", worker |-> "none", said |-> "none", since |-> "clean"]

Reqs == [stage : {"idle", "panic", "root", "worker", "health", "commit", "rollback"},
         kind : {"none", "panic", "unlock"},
         fenced : BOOLEAN, quiet : BOOLEAN,
         root   : {"none", "sent", "failed", "accepted", "quiesced"},
         worker : {"none", "sent", "failed", "accepted", "quiesced"},
         said   : {"none", "accepted", "stopped"},
         since  : {"clean", "mixed", "undone"}]

Flying(p)    == req[p].stage # "idle"
Unlocking(p) == Flying(p) /\ req[p].kind = "unlock"

Overlap(S, q) == [p \in Requests |->
    IF p \in S \ {q} /\ req[p] # Idle /\ req[p].since = "clean" THEN [req[p] EXCEPT !.since = "mixed"]
    ELSE req[p]]

\* the requests after r starts in slot p: an unlock taints whatever it
\* overlaps, and what overlaps an unlock taints it
Started(p, r) ==
    IF r.kind = "unlock"
    THEN [Overlap(Requests, p) EXCEPT ![p] =
             [r EXCEPT !.since = IF \E q \in Requests : Flying(q) THEN "mixed" ELSE "clean"]]
    ELSE [Overlap({q \in Requests : Unlocking(q)}, p) EXCEPT ![p] =
             [r EXCEPT !.since = IF \E q \in Requests : Unlocking(q) THEN "mixed" ELSE "clean"]]

\* bug: the callers stay
OrphanedNot(P) == worker.lane

\* the callers P stop waiting; their calls stay under way
Orphaned(P) ==
    [i \in DOMAIN worker.lane |->
        IF worker.lane[i].by \in P THEN [worker.lane[i] EXCEPT !.by = Nobody] ELSE worker.lane[i]]

\* p is answered; what an acknowledged panic was told is remembered
Ended(p, said) ==
    [req EXCEPT ![p] = IF said = "none" THEN Idle
                       ELSE [Idle EXCEPT !.kind = "panic", !.said = said, !.since = req[p].since]]

\* every panic so far, answered or not, is undone
Undone(r) == [p \in Requests |-> IF r[p] = Idle THEN Idle ELSE [r[p] EXCEPT !.since = "undone"]]

\* The worker's control lane takes one call at a time, in order of arrival.
Reached(p, kind) ==
    /\ Len(worker.lane) < MaxLane
    /\ worker' = [worker EXCEPT !.lane = Append(@, [kind |-> kind, by |-> p])]

\* a worker call on behalf of p, which gets through or not
CallsWorker(p, kind, sent) == IF sent THEN Reached(p, kind) ELSE UNCHANGED worker
Sent(sent) == IF sent THEN "sent" ELSE "failed"

PanicInit ==
    /\ StoreInit
    /\ up = TRUE
    /\ voice = [file |-> "open", mem |-> "none"]
    /\ prepared = {}
    /\ worker = [fence |-> FALSE, draining |-> FALSE, lane |-> <<>>]
    /\ op = {}
    /\ root = [locked |-> FALSE, busy |-> FALSE]
    /\ req = [p \in Requests |-> Idle]

-----------------------------------------------------------------------------
(* performVoicePanic                                                        *)

\* What runs before the first await: the voice lock, the two remote calls,
\* then the executor queue.  Either local write may fail.
PanicBegins(p) ==
    /\ up
    /\ ~Flying(p)
    /\ \E o \in Locks(voice), stored, sent \in BOOLEAN :
          /\ voice' = o.v
          /\ IF stored THEN PanicStore ELSE UNCHANGED storeVars
          /\ CallsWorker(p, "panic", sent)
          /\ req' = Started(p, [Idle EXCEPT
                !.stage = "panic", !.kind = "panic", !.fenced = o.ok /\ stored,
                !.quiet = stored /\ \A t \in VoiceTasks : row'[t].state \in {"absent"} \cup TerminalStates,
                !.root = IF Privileged THEN "sent" ELSE "quiesced",
                !.worker = Sent(sent)])
    /\ UNCHANGED <<up, prepared, op, root>>

\* bug: an action that still runs is not reported
RootPanicsAtOnce(p) ==
    /\ req[p].root = "sent"
    /\ root' = [root EXCEPT !.locked = TRUE]
    /\ req' = [req EXCEPT ![p].root = "quiesced"]
    /\ UNCHANGED <<storeVars, up, voice, prepared, worker, op>>

\* the root broker's panic, and its answer or the loss of either
RootPanics(p) ==
    /\ req[p].root = "sent"
    /\ \/ /\ root' = [root EXCEPT !.locked = TRUE]
          /\ \E a \in {IF root.busy THEN "accepted" ELSE "quiesced", "failed"} :
                req' = [req EXCEPT ![p].root = a]
       \/ /\ req' = [req EXCEPT ![p].root = "failed"]
          /\ UNCHANGED root
    /\ UNCHANGED <<storeVars, up, voice, prepared, worker, op>>

\* the answer: "stopped" is the plain text STOPPED
PanicAnswers(p) ==
    /\ req[p].stage = "panic"
    /\ req[p].root # "sent"
    /\ req[p].worker # "sent"
    /\ LET accepted == req[p].fenced /\ req[p].root # "failed" /\ req[p].worker # "failed"
           quiesced == req[p].quiet /\ req[p].root = "quiesced" /\ req[p].worker = "quiesced"
       IN  req' = Ended(p, IF ~accepted THEN "none"
                           ELSE IF ~quiesced THEN "accepted" ELSE "stopped")
    /\ UNCHANGED <<storeVars, up, voice, prepared, worker, op, root>>

-----------------------------------------------------------------------------
(* The worker session broker's side.                                        *)

\* the head of the lane is answered, if somebody still waits
Answered(answer) ==
    LET p == Head(worker.lane).by
    IN  req' = IF p \in Requests THEN [req EXCEPT ![p].worker = answer] ELSE req

\* panicAllImpl: the durable fence first, then providers and active runs are
\* drained up to a deadline
WorkerPanicBegins ==
    /\ worker.lane # <<>>
    /\ Head(worker.lane).kind = "panic"
    /\ ~worker.draining
    /\ \/ /\ worker' = [worker EXCEPT !.fence = TRUE, !.draining = TRUE]
          /\ UNCHANGED req
       \/ /\ worker' = [worker EXCEPT !.lane = Tail(@)]
          /\ Answered("failed")
    /\ UNCHANGED <<storeVars, up, voice, prepared, op, root>>

\* bug: the active runs are aborted and not waited for
WorkerPanicEndsEarly ==
    /\ worker.draining
    /\ worker' = [worker EXCEPT !.draining = FALSE, !.lane = Tail(@)]
    /\ \E a \in {"failed", "accepted", "quiesced"} : Answered(a)
    /\ UNCHANGED <<storeVars, up, voice, prepared, op, root>>

WorkerPanicEnds ==
    /\ worker.draining
    /\ worker' = [worker EXCEPT !.draining = FALSE, !.lane = Tail(@)]
    /\ \E a \in {"failed", "accepted"} \cup (IF op = {} THEN {"quiesced"} ELSE {}) : Answered(a)
    /\ UNCHANGED <<storeVars, up, voice, prepared, op, root>>

\* unlockAllImpl: refused while a run is active; re-fenced when a provider
\* does not confirm
WorkerUnlocks ==
    /\ worker.lane # <<>>
    /\ Head(worker.lane).kind = "unlock"
    /\ \/ /\ op # {}
          /\ worker' = [worker EXCEPT !.lane = Tail(@)]
          /\ Answered("failed")
       \/ /\ op = {}
          /\ worker' = [worker EXCEPT !.fence = TRUE, !.lane = Tail(@)]
          /\ Answered("failed")
       \/ /\ op = {}
          /\ worker' = [worker EXCEPT !.fence = FALSE, !.lane = Tail(@)]
          /\ Answered("quiesced")
    /\ UNCHANGED <<storeVars, up, voice, prepared, op, root>>

\* the proxy times out; the call stays in the lane
WorkerUnheard(p) ==
    /\ req[p].worker = "sent"
    /\ worker' = [worker EXCEPT !.lane = Orphaned({p})]
    /\ req' = [req EXCEPT ![p].worker = "failed"]
    /\ UNCHANGED <<storeVars, up, voice, prepared, op, root>>

-----------------------------------------------------------------------------
(* performVoiceUnlock                                                       *)

\* bug: the durable work is not looked at
UnlockBeginsAnyway(p) ==
    /\ up
    /\ ~Flying(p)
    /\ req' = Started(p, [Idle EXCEPT !.stage = "root", !.kind = "unlock"])
    /\ UNCHANGED <<storeVars, up, voice, prepared, worker, op, root>>

\* The one look at the durable work; what follows it is awaited.
UnlockBegins(p) ==
    /\ up
    /\ ~Flying(p)
    /\ Quiesced
    /\ req' = Started(p, [Idle EXCEPT !.stage = "root", !.kind = "unlock"])
    /\ UNCHANGED <<storeVars, up, voice, prepared, worker, op, root>>

\* the health of the root broker, then the worker's unlock is sent
UnlockSeesRoot(p) ==
    /\ req[p].stage = "root"
    /\ \/ /\ ~root.locked
          /\ Reached(p, "unlock")
          /\ req' = [req EXCEPT ![p].stage = "worker", ![p].worker = "sent"]
       \/ /\ req' = Ended(p, "none")
          /\ UNCHANGED worker
    /\ UNCHANGED <<storeVars, up, voice, prepared, op, root>>

UnlockHearsWorker(p) ==
    /\ req[p].stage = "worker"
    /\ \/ /\ req[p].worker = "quiesced"
          /\ req' = [req EXCEPT ![p].stage = "health"]
       \/ /\ req[p].worker = "failed"
          /\ req' = Ended(p, "none")
    /\ UNCHANGED <<storeVars, up, voice, prepared, worker, op, root>>

\* refreshWorkerSessionBoundaryHealth; not ready sends the fence back
UnlockSeesHealth(p) ==
    /\ req[p].stage = "health"
    /\ \/ /\ ~worker.fence
          /\ worker.lane = <<>>
          /\ req' = [req EXCEPT ![p].stage = "commit"]
          /\ UNCHANGED worker
       \/ \E sent \in BOOLEAN :
             /\ CallsWorker(p, "panic", sent)
             /\ req' = [req EXCEPT ![p].stage = "rollback", ![p].worker = Sent(sent)]
    /\ UNCHANGED <<storeVars, up, voice, prepared, op, root>>

UnlockSucceeds(p) ==
    /\ req[p].stage = "commit"
    /\ \E o \in Unlocks(voice) : o.ok /\ voice' = o.v
    /\ UnlockPanic
    /\ req' = Undone(Ended(p, "none"))
    /\ UNCHANGED <<up, prepared, worker, op, root>>

\* bug: only the voice lock is put back
CompensatesHalf(p) ==
    /\ req[p].stage = "commit"
    /\ \E threw, stored, sent \in BOOLEAN :
          /\ \E v \in IF threw THEN {voice} ELSE {o.v : o \in {u \in Unlocks(voice) : ~u.ok}} :
                \E o \in Locks(v) : voice' = o.v
          /\ locked' = (locked /\ threw)
          /\ CallsWorker(p, "panic", sent)
          /\ LET r == [req EXCEPT ![p].stage = "rollback", ![p].worker = Sent(sent)]
             IN  req' = IF ~threw /\ ~stored THEN Undone(r) ELSE r
    /\ UNCHANGED <<row, reserved, snap, up, prepared, op, root>>

\* The queue's unlock threw, or it went through and the voice lock's failed:
\* compensateIncoherentVoiceUnlock locks both again, and either may fail too.
\* When the queue was unlocked and cannot be locked again the panic is not
\* in force any more.
UnlockCompensates(p) ==
    /\ req[p].stage = "commit"
    /\ \E threw, stored, sent \in BOOLEAN :
          /\ \E v \in IF threw THEN {voice} ELSE {o.v : o \in {u \in Unlocks(voice) : ~u.ok}} :
                \E o \in Locks(v) : voice' = o.v
          /\ \/ stored /\ PanicStore
             \/ /\ ~stored
                /\ locked' = (locked /\ threw)
                /\ UNCHANGED <<row, reserved, snap>>
          /\ CallsWorker(p, "panic", sent)
          /\ LET r == [req EXCEPT ![p].stage = "rollback", ![p].worker = Sent(sent)]
             IN  req' = IF ~threw /\ ~stored THEN Undone(r) ELSE r
    /\ UNCHANGED <<up, prepared, op, root>>

RollbackEnds(p) ==
    /\ req[p].stage = "rollback"
    /\ req[p].worker # "sent"
    /\ req' = Ended(p, "none")
    /\ UNCHANGED <<storeVars, up, voice, prepared, worker, op, root>>

-----------------------------------------------------------------------------
(* The work that is stopped.                                                *)

\* prepareTargetSessionSubmission: the voice gate, then a worker call is awaited
Prepare(t) ==
    /\ up
    /\ t \in TargetTasks \ prepared
    /\ row[t].state = "absent"
    /\ ~VoiceLocked
    /\ prepared' = prepared \cup {t}
    /\ UNCHANGED <<storeVars, up, voice, worker, op, root, req>>

\* POST /executor/tasks, its transaction
Submit(t) ==
    /\ up
    /\ IF t \in TargetTasks THEN t \in prepared ELSE t \in VoiceTasks => ~VoiceLocked
    /\ SubmitTask(t)
    /\ prepared' = prepared \ {t}
    /\ UNCHANGED <<up, voice, worker, op, root, req>>

Claim(t, k) ==
    /\ up
    /\ ClaimNext(t, k)
    /\ UNCHANGED <<up, voice, prepared, worker, op, root, req>>

\* the row of a claimed task ends
Finish(t, k) ==
    /\ up
    /\ CompleteTask(t, k, TRUE)
    /\ UNCHANGED <<up, voice, prepared, worker, op, root, req>>

\* bug: only a control call under way is noticed, not the durable fence
AdmitsUnfenced == worker.lane = <<>>

\* assertMutationUnlocked
Admits == ~worker.fence /\ worker.lane = <<>>

\* a run of a claimed row enters the worker's activeRuns
StartOperation(t) ==
    /\ up
    /\ Leased(t)
    /\ t \in VoiceTasks \ TargetTasks => ~VoiceLocked
    /\ t \notin op
    /\ Admits
    /\ op' = op \cup {t}
    /\ UNCHANGED <<storeVars, up, voice, prepared, worker, root, req>>

EndOperation(t) ==
    /\ t \in op
    /\ op' = op \ {t}
    /\ UNCHANGED <<storeVars, up, voice, prepared, worker, root, req>>

\* a privileged action starts or ends
RootWorks ==
    /\ Privileged
    /\ \/ ~root.locked /\ ~root.busy /\ root' = [root EXCEPT !.busy = TRUE]
       \/ root.busy /\ root' = [root EXCEPT !.busy = FALSE]
    /\ UNCHANGED <<storeVars, up, voice, prepared, worker, op, req>>

\* control.js unlock-panic, by an operator on the host
RootUnlocks ==
    /\ root.locked
    /\ ~root.busy
    /\ root' = [root EXCEPT !.locked = FALSE]
    /\ req' = Overlap(Requests, Nobody)
    /\ UNCHANGED <<storeVars, up, voice, prepared, worker, op>>

-----------------------------------------------------------------------------
(* Crash and restart of the controller.                                     *)

Crash ==
    /\ up
    /\ up' = FALSE
    /\ voice' = [voice EXCEPT !.mem = "none"]
    /\ prepared' = {}
    /\ worker' = [worker EXCEPT !.lane = Orphaned(Requests)]
    /\ req' = [p \in Requests |-> IF Flying(p) THEN Idle ELSE req[p]]
    /\ UNCHANGED <<storeVars, op, root>>

\* bug: the voice lock is not restored from the queue's
SynchronizeQueue ==
    IF VoiceLocked /\ ~locked THEN PanicStore /\ UNCHANGED voice
    ELSE UNCHANGED <<storeVars, voice>>

\* A store.panic that throws ends the start.
SynchronizePanicControls ==
    IF VoiceLocked /\ ~locked THEN PanicStore /\ UNCHANGED voice
    ELSE IF locked /\ ~VoiceLocked
         THEN (\E o \in Locks(voice) : voice' = o.v) /\ UNCHANGED storeVars
         ELSE UNCHANGED <<storeVars, voice>>

\* A strict voice lock that cannot be read keeps the process from starting.
Start ==
    /\ ~up
    /\ Strict => ~ErrorIn(voice)
    /\ SynchronizePanicControls
    /\ up' = TRUE
    /\ UNCHANGED <<prepared, worker, op, root, req>>

-----------------------------------------------------------------------------
PanicNext ==
    \/ \E p \in Requests : \/ PanicBegins(p) \/ RootPanics(p) \/ PanicAnswers(p)
                           \/ WorkerUnheard(p)
                           \/ UnlockBegins(p) \/ UnlockSeesRoot(p) \/ UnlockHearsWorker(p)
                           \/ UnlockSeesHealth(p) \/ UnlockSucceeds(p)
                           \/ UnlockCompensates(p) \/ RollbackEnds(p)
    \/ WorkerPanicBegins \/ WorkerPanicEnds \/ WorkerUnlocks
    \/ \E t \in Tasks : Prepare(t) \/ Submit(t) \/ StartOperation(t) \/ EndOperation(t)
    \/ \E t \in Tasks, k \in Tokens : Claim(t, k) \/ Finish(t, k)
    \/ RootWorks \/ RootUnlocks \/ Crash \/ Start

PanicSpec == PanicInit /\ [][PanicNext]_panicVars

=============================================================================
