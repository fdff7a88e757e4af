-------------------------- MODULE PrivilegedActions --------------------------
(***************************************************************************)
(* The privileged action broker: its store, the dispatcher that runs one    *)
(* approved root command after the other, the sweep over process records at *)
(* start and shutdown, and control.js, the operator's local unlock.         *)
(***************************************************************************)
EXTENDS Naturals, FiniteSets

CONSTANTS Actions,     \* approved actions, one idempotency key each
          Observed,    \* those whose plan has an observe_argv
          NoAction     \* the dispatcher runs nothing

ASSUME PrivilegedAssumption == Observed \subseteq Actions /\ NoAction \notin Actions

VARIABLES action,    \* state in privileged_actions, "absent" if there is no row
          stage,     \* stage in execution_json
          tombs,     \* keys in privileged_action_cancellations
          record,    \* state in privileged_action_processes
          locked,    \* panic_locked
          barrier,   \* recovery_blocked
          os,        \* the process and the rest of its group
          exit,      \* how the process ended
          spawns,    \* how often it was started
          phase,     \* where the broker's process is at
          run,       \* the dispatcher's one run
          todo,      \* process records the sweep has still to look at
          ctl        \* where control.js unlock-panic is at

rowVars == <<action, stage, tombs>>
osVars  == <<os, exit, spawns>>
vars    == <<rowVars, record, locked, barrier, osVars, phase, run, todo, ctl>>

Parts    == {"main", "observation"}
States   == {"absent", "queued", "running", "cancel_requested",
             "completed", "failed", "canceled", "outcome_unknown"}
Terminal == {"completed", "failed", "canceled", "outcome_unknown"}
Records  == {"none", "prepared", "spawned", "recovery_blocked", "quiesced"}

\* points of a run: "claimed" to "spawned", "judging" and "failing" are passed
\* without an await, so that no request is served in between
Points == {"idle", "claimed", "prepared", "spawned", "running", "ended", "thrown",
           "judging", "failing"}
Sync   == {"claimed", "prepared", "spawned", "judging", "failing"}

Runs == [of : Actions \cup {NoAction}, part : Parts, at : Points,
         aborted : BOOLEAN,     \* the controller's signal
         stopped : BOOLEAN,     \* the process was told to stop: aborted or timedOut
         lost : BOOLEAN,        \* postSpawnError
         signalled : BOOLEAN,   \* members of its group were found alive
         touched : BOOLEAN]     \* processSpawned

NewRun(a, p, signal) ==
    [of |-> a, part |-> p, at |-> "claimed", aborted |-> signal, stopped |-> FALSE,
     lost |-> FALSE, signalled |-> FALSE, touched |-> FALSE]
NoRun == [NewRun(NoAction, "main", FALSE) EXCEPT !.at = "idle"]

Leased(a)    == action[a] \in {"running", "cancel_requested"}
Live(a, p)   == os[a][p] \in {"alive", "group"}
Pending(a, p) == record[a][p] \notin {"none", "quiesced"}
PendingSet   == {ap \in Actions \X Parts : Pending(ap[1], ap[2])}
NoneLive     == \A a \in Actions, p \in Parts : ~Live(a, p)
AllQuiesced  == (\A a \in Actions : ~Leased(a)) /\ PendingSet = {}

PrivilegedInit ==
    /\ action = [a \in Actions |-> "absent"]
    /\ stage = [a \in Actions |-> "none"]
    /\ tombs = {}
    /\ record = [a \in Actions |-> [p \in Parts |-> "none"]]
    /\ locked = FALSE /\ barrier = FALSE
    /\ os = [a \in Actions |-> [p \in Parts |-> "none"]]
    /\ exit = [a \in Actions |-> [p \in Parts |-> "none"]]
    /\ spawns = [a \in Actions |-> [p \in Parts |-> 0]]
    /\ phase = "down"
    /\ run = NoRun
    /\ todo = {}
    /\ ctl = "idle"

-----------------------------------------------------------------------------
(* Requests over the Unix socket.  While the server closes, requests that   *)
(* were accepted before are still served.                                   *)

Handles == phase \in {"serving", "stopping"} /\ run.at \notin Sync

\* cancelAll: the signal stops the process of a run that is waiting for it
Abort(r) == [r EXCEPT !.aborted = (r.at # "idle"), !.stopped = @ \/ r.at = "running"]

\* bug: the tombstone is not consulted
SubmitAnyway(a) ==
    /\ Handles
    /\ action[a] = "absent"
    /\ ~locked
    /\ action' = [action EXCEPT ![a] = "queued"]
    /\ UNCHANGED <<stage, tombs, record, locked, barrier, osVars, phase, run, todo, ctl>>

\* broker.submit: the transaction looks for the tombstone and the row again
Submit(a) ==
    /\ Handles
    /\ a \notin tombs
    /\ action[a] = "absent"
    /\ ~locked
    /\ action' = [action EXCEPT ![a] = "queued"]
    /\ UNCHANGED <<stage, tombs, record, locked, barrier, osVars, phase, run, todo, ctl>>

Canceling(s) == IF s = "queued" THEN "canceled"
                ELSE IF s = "running" THEN "cancel_requested" ELSE s

\* broker.cancel, and cancelByIdempotency of a submitted action
Cancel(a) ==
    /\ Handles
    /\ action[a] \in {"queued", "running"}
    /\ action' = [action EXCEPT ![a] = Canceling(@)]
    /\ run' = IF run.of = a THEN Abort(run) ELSE run
    /\ UNCHANGED <<stage, tombs, record, locked, barrier, osVars, phase, todo, ctl>>

\* cancelByIdempotency of a key that was never submitted
Entomb(a) ==
    /\ Handles
    /\ action[a] = "absent"
    /\ tombs' = tombs \cup {a}
    /\ UNCHANGED <<action, stage, record, locked, barrier, osVars, phase, run, todo, ctl>>

Panic ==
    /\ Handles
    /\ locked' = TRUE
    /\ action' = [a \in Actions |-> Canceling(action[a])]
    /\ run' = IF \E a \in Actions : run.of = a /\ Leased(a) THEN Abort(run) ELSE run
    /\ UNCHANGED <<stage, tombs, record, barrier, osVars, phase, todo, ctl>>

Request ==
    \/ \E a \in Actions : Submit(a) \/ Cancel(a) \/ Entomb(a)
    \/ Panic

-----------------------------------------------------------------------------
(* The dispatcher's run, one command at a time.                             *)

At(point) == run.at = point

Claim(a) ==
    /\ phase \in {"serving", "stopping"}
    /\ run.at = "idle"
    /\ ~locked
    /\ action[a] = "queued"
    /\ action' = [action EXCEPT ![a] = "running"]
    /\ stage' = [stage EXCEPT ![a] = "intent"]
    /\ run' = NewRun(a, "main", FALSE)
    /\ UNCHANGED <<tombs, record, locked, barrier, osVars, phase, todo, ctl>>

\* bug: the lease is not asserted
CloseAnyway(a, s) == action' = [action EXCEPT ![a] = s]

\* _finish asserts the lease; whoever closed the row first wins
Close(a, s) == action' = IF Leased(a) THEN [action EXCEPT ![a] = s] ELSE action

\* bug: only the stage on disk is asked
StageVerdict(a) == IF stage[a] = "spawned" THEN "outcome_unknown" ELSE "failed"

\* the catch of _runOnce
ErrorVerdict(a) == IF run.touched \/ stage[a] = "spawned" THEN "outcome_unknown" ELSE "failed"

RunFails ==
    /\ Close(run.of, ErrorVerdict(run.of))
    /\ run' = NoRun
    /\ UNCHANGED <<stage, tombs, record, locked, barrier, osVars, phase, todo, ctl>>

\* The execution boundary or the observation's path is not safe (any more), or
\* the lease is gone: nothing is prepared.
Refuse == At("claimed") /\ RunFails

Prepare ==
    /\ At("claimed")
    /\ Leased(run.of)
    /\ record' = [record EXCEPT ![run.of][run.part] = "prepared"]
    /\ stage' = [stage EXCEPT ![run.of] = "prepared"]
    /\ run' = [run EXCEPT !.at = "prepared"]
    /\ UNCHANGED <<action, tombs, locked, barrier, osVars, phase, todo, ctl>>

Spawn ==
    /\ At("prepared")
    /\ os' = [os EXCEPT ![run.of][run.part] = "alive"]
    /\ spawns' = [spawns EXCEPT ![run.of][run.part] = @ + 1]
    /\ run' = [run EXCEPT !.at = "spawned", !.touched = TRUE, !.stopped = run.aborted]
    /\ UNCHANGED <<rowVars, record, locked, barrier, exit, phase, todo, ctl>>

\* spawn throws, or hands out a child without a process whose identity fails
SpawnFails ==
    /\ At("prepared")
    /\ \E handed \in BOOLEAN : run' = [run EXCEPT !.at = "thrown", !.touched = handed]
    /\ UNCHANGED <<rowVars, record, locked, barrier, osVars, phase, todo, ctl>>

RecordSpawned ==
    /\ At("spawned")
    /\ Leased(run.of)
    /\ record' = [record EXCEPT ![run.of][run.part] = "spawned"]
    /\ stage' = [stage EXCEPT ![run.of] = "spawned"]
    /\ run' = [run EXCEPT !.at = "running"]
    /\ UNCHANGED <<action, tombs, locked, barrier, osVars, phase, todo, ctl>>

\* the identity cannot be bound, the lease is gone or the write fails
RecordFails ==
    /\ At("spawned")
    /\ run' = [run EXCEPT !.at = "running", !.lost = TRUE, !.stopped = TRUE]
    /\ UNCHANGED <<rowVars, record, locked, barrier, osVars, phase, todo, ctl>>

Timeout ==
    /\ At("running")
    /\ ~run.stopped
    /\ run' = [run EXCEPT !.stopped = TRUE]
    /\ UNCHANGED <<rowVars, record, locked, barrier, osVars, phase, todo, ctl>>

\* the child's close event
Closed ==
    /\ At("running")
    /\ os[run.of][run.part] # "alive"
    /\ run' = [run EXCEPT !.at = IF run.lost THEN "thrown" ELSE "ended"]
    /\ UNCHANGED <<rowVars, record, locked, barrier, osVars, phase, todo, ctl>>

\* _terminateProcessRecord after the close or in the catch: what is left of the
\* group is signalled and waited for
Signal ==
    /\ At("ended") \/ At("thrown")
    /\ Live(run.of, run.part)
    /\ ~run.signalled
    /\ run' = [run EXCEPT !.signalled = TRUE, !.touched = TRUE]
    /\ UNCHANGED <<rowVars, record, locked, barrier, osVars, phase, todo, ctl>>

\* bug: the group is taken for gone with its leader
LeaderGone(a, p) == os[a][p] # "alive"

Gone(a, p) == ~Live(a, p)

Quiesce ==
    /\ At("ended") \/ At("thrown")
    /\ Gone(run.of, run.part)
    /\ record' = [record EXCEPT ![run.of][run.part] = "quiesced"]
    /\ run' = [run EXCEPT !.at = IF @ = "ended" THEN "judging" ELSE "failing"]
    /\ UNCHANGED <<rowVars, locked, barrier, osVars, phase, todo, ctl>>

SetBarrier == locked' = TRUE /\ barrier' = TRUE

\* The group survives the kill or cannot be inspected.  After the close this is
\* an error, whose catch tries again.
Block ==
    /\ At("ended") \/ At("thrown")
    /\ record' = [record EXCEPT ![run.of][run.part] = "recovery_blocked"]
    /\ SetBarrier
    /\ run' = [run EXCEPT !.at = IF @ = "ended" THEN "thrown" ELSE "failing",
                          !.touched = @ \/ run.at = "ended", !.signalled = FALSE]
    /\ UNCHANGED <<rowVars, osVars, phase, todo, ctl>>

\* bug: the exit code is not read
UnclearStop(a, p) == run.stopped \/ run.signalled

Unclear(a, p) == run.stopped \/ run.signalled \/ exit[a][p] # "ok"

\* bug: the cancellation is not read again
JudgeMainAnyway ==
    /\ At("judging") /\ run.part = "main"
    /\ LET a == run.of IN
       IF Unclear(a, "main")
       THEN Close(a, "outcome_unknown") /\ run' = NoRun
       ELSE IF a \in Observed
       THEN run' = NewRun(a, "observation", run.aborted) /\ UNCHANGED action
       ELSE Close(a, "completed") /\ run' = NoRun
    /\ UNCHANGED <<stage, tombs, record, locked, barrier, osVars, phase, todo, ctl>>

\* _runOnce after the main command
JudgeMain ==
    /\ At("judging") /\ run.part = "main"
    /\ LET a == run.of IN
       IF Unclear(a, "main") \/ action[a] = "cancel_requested"
       THEN Close(a, "outcome_unknown") /\ run' = NoRun
       ELSE IF a \in Observed
       THEN run' = NewRun(a, "observation", run.aborted) /\ UNCHANGED action
       ELSE Close(a, "completed") /\ run' = NoRun
    /\ UNCHANGED <<stage, tombs, record, locked, barrier, osVars, phase, todo, ctl>>

\* and after the observation; a cancellation makes completeAction throw
JudgeObservation ==
    /\ At("judging") /\ run.part = "observation"
    /\ LET a == run.of IN
       Close(a, IF Unclear(a, "observation") \/ action[a] = "cancel_requested"
                THEN "outcome_unknown" ELSE "completed")
    /\ run' = NoRun
    /\ UNCHANGED <<stage, tombs, record, locked, barrier, osVars, phase, todo, ctl>>

Fail == At("failing") /\ RunFails

Step ==
    \/ Refuse \/ Prepare \/ Spawn \/ SpawnFails \/ RecordSpawned \/ RecordFails
    \/ Closed \/ Signal \/ Quiesce \/ Block \/ JudgeMain \/ JudgeObservation \/ Fail

-----------------------------------------------------------------------------
(* The processes, which live on without the broker.                         *)

Exits(a, p) ==
    /\ os[a][p] = "alive"
    /\ \E left \in {"group", "gone"}, code \in {"ok", "bad"} :
          os' = [os EXCEPT ![a][p] = left] /\ exit' = [exit EXCEPT ![a][p] = code]
    /\ UNCHANGED <<rowVars, record, locked, barrier, spawns, phase, run, todo, ctl>>

GroupDies(a, p) ==
    /\ os[a][p] = "group"
    /\ os' = [os EXCEPT ![a][p] = "gone"]
    /\ UNCHANGED <<rowVars, record, locked, barrier, exit, spawns, phase, run, todo, ctl>>

-----------------------------------------------------------------------------
(* Start, shutdown and crash of the broker.                                 *)

\* bug: canceled runs are not looked for
InterruptedRunning(s) == IF s = "running" THEN "outcome_unknown" ELSE s

\* bug: an interrupted action is run again
InterruptedRequeued(s) == IF s = "running" THEN "queued"
                          ELSE IF s = "cancel_requested" THEN "canceled" ELSE s

Interrupted(s) == IF s \in {"running", "cancel_requested"} THEN "outcome_unknown" ELSE s

\* recoverInterrupted
RecoverInterrupted == action' = [a \in Actions |-> Interrupted(action[a])]

\* recoverStartup with nothing to recover
StartClean ==
    /\ phase = "down"
    /\ AllQuiesced /\ NoneLive /\ ~barrier
    /\ phase' = "serving"
    /\ UNCHANGED <<rowVars, record, locked, barrier, osVars, run, todo, ctl>>

\* and with something; when the scan fails the broker serves, unresolved
StartRecovery ==
    /\ phase = "down"
    /\ SetBarrier
    /\ RecoverInterrupted
    /\ \/ ~(AllQuiesced /\ NoneLive /\ ~barrier) /\ phase' = "recovering" /\ todo' = PendingSet
       \/ phase' = "serving" /\ UNCHANGED todo
    /\ UNCHANGED <<stage, tombs, record, osVars, run, ctl>>

\* One record of _recoverProcessRecords: its group is gone, of itself or of the
\* signals, or it stays unresolved.
SweepRecord(a, p) ==
    /\ phase \in {"recovering", "sweeping"}
    /\ <<a, p>> \in todo
    /\ todo' = todo \ {<<a, p>>}
    /\ \E verdict \in {"quiesced", "recovery_blocked"} :
          /\ verdict = "quiesced" => Gone(a, p)
          /\ record' = [record EXCEPT ![a][p] = verdict]
    /\ UNCHANGED <<rowVars, locked, barrier, osVars, phase, run, ctl>>

\* The end of the sweep, whose last scan may fail; ordinary panic stays locked.
Swept == todo = {} /\ PendingSet = {} /\ NoneLive

StartDone ==
    /\ phase = "recovering"
    /\ todo = {}
    /\ barrier' \in {TRUE, ~Swept}
    /\ phase' = "serving"
    /\ UNCHANGED <<rowVars, record, locked, osVars, run, todo, ctl>>

\* socketServer.close: the dispatcher still runs
Stop ==
    /\ phase = "serving"
    /\ phase' = "stopping"
    /\ UNCHANGED <<rowVars, record, locked, barrier, osVars, run, todo, ctl>>

\* dispatcher.close
CloseDispatcher ==
    /\ phase = "stopping"
    /\ run.at \notin Sync
    /\ IF run.at # "idle" \/ PendingSet # {} THEN SetBarrier ELSE UNCHANGED <<locked, barrier>>
    /\ run' = Abort(run)
    /\ phase' = "closing"
    /\ UNCHANGED <<rowVars, record, osVars, todo, ctl>>

\* Nothing is swept when the scan before it fails.
RunsSettled ==
    /\ phase = "closing"
    /\ run.at = "idle"
    /\ phase' = "sweeping"
    /\ todo' \in {PendingSet, {}}
    /\ UNCHANGED <<rowVars, record, locked, barrier, osVars, run, ctl>>

CloseDone ==
    /\ phase = "sweeping"
    /\ todo = {}
    /\ \/ Swept /\ barrier' = FALSE /\ phase' = "down" /\ UNCHANGED locked
       \/ SetBarrier /\ phase' = "resident"
    /\ UNCHANGED <<rowVars, record, osVars, run, todo, ctl>>

\* The broker dies; the service manager may kill the rest of its control group.
Crash ==
    /\ phase # "down"
    /\ phase' = "down"
    /\ run' = NoRun
    /\ todo' = {}
    /\ \/ UNCHANGED <<os, exit>>
       \/ /\ os' = [a \in Actions |-> [p \in Parts |-> IF Live(a, p) THEN "gone" ELSE os[a][p]]]
          /\ exit' = [a \in Actions |-> [p \in Parts |->
                        IF os[a][p] = "alive" THEN "bad" ELSE exit[a][p]]]
    /\ UNCHANGED <<rowVars, record, locked, barrier, spawns, ctl>>

-----------------------------------------------------------------------------
(* control.js unlock-panic, in a process of its own: it probes the socket   *)
(* and scans, terminalizes what is leased, and then unlocks.                *)

ControlScans ==
    /\ ctl = "idle"
    /\ phase # "serving"
    /\ ctl' = IF NoneLive THEN "clean" ELSE "dirty"
    /\ UNCHANGED <<rowVars, record, locked, barrier, osVars, phase, run, todo>>

ControlRecovers ==
    /\ ctl \in {"clean", "dirty"}
    /\ RecoverInterrupted
    /\ ctl' = IF ctl = "clean" THEN "recovered" ELSE "idle"
    /\ UNCHANGED <<stage, tombs, record, locked, barrier, osVars, phase, run, todo>>

\* bug: the process records are not counted
UnlockableEarly == (\A a \in Actions : ~Leased(a)) /\ ~barrier

Unlockable == AllQuiesced /\ ~barrier

ControlUnlocks ==
    /\ ctl = "recovered"
    /\ locked' = (locked /\ ~Unlockable)
    /\ ctl' = "idle"
    /\ UNCHANGED <<rowVars, record, barrier, osVars, phase, run, todo>>

-----------------------------------------------------------------------------
PrivilegedNext ==
    \/ Request
    \/ \E a \in Actions : Claim(a)
    \/ Step \/ Timeout
    \/ \E a \in Actions, p \in Parts : Exits(a, p) \/ GroupDies(a, p) \/ SweepRecord(a, p)
    \/ StartClean \/ StartRecovery \/ StartDone
    \/ Stop \/ CloseDispatcher \/ RunsSettled \/ CloseDone \/ Crash
    \/ ControlScans \/ ControlRecovers \/ ControlUnlocks

PrivilegedSpec == PrivilegedInit /\ [][PrivilegedNext]_vars
=============================================================================
