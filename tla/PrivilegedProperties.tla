------------------------ MODULE PrivilegedProperties ------------------------
(***************************************************************************)
(* What the privileged broker promises: a root command runs at most once,   *)
(* its verdict is true, and nothing runs that the store does not know of.   *)
(***************************************************************************)
EXTENDS PrivilegedActions

\* Types of the store, of the processes and of the broker's memory.
PrivilegedTypeOK ==
    /\ action \in [Actions -> States]
    /\ stage \in [Actions -> {"none", "intent", "prepared", "spawned"}]
    /\ tombs \subseteq Actions
    /\ record \in [Actions -> [Parts -> Records]]
    /\ locked \in BOOLEAN /\ barrier \in BOOLEAN
    /\ os \in [Actions -> [Parts -> {"none", "alive", "group", "gone"}]]
    /\ exit \in [Actions -> [Parts -> {"none", "ok", "bad"}]]
    /\ spawns \in [Actions -> [Parts -> Nat]]
    /\ phase \in {"down", "recovering", "serving", "stopping", "closing", "sweeping", "resident"}
    /\ run \in Runs
    /\ todo \subseteq Actions \X Parts
    /\ ctl \in {"idle", "clean", "dirty", "recovered"}

\* A command is started at most once, whatever restarts and recoveries come
\* between its intent and its verdict.
SpawnedAtMostOnce == \A a \in Actions, p \in Parts : spawns[a][p] <= 1

\* A verdict that says nothing ran is true: a cancellation, and a failure of
\* an action that is not observed.
HonestRefusal ==
    \A a \in Actions :
        action[a] = "canceled" \/ (action[a] = "failed" /\ a \notin Observed)
        => \A p \in Parts : spawns[a][p] = 0

\* A completed action ended well and left nothing behind, and its observation
\* too if it has one.
CompletedIsWhole ==
    \A a \in Actions : action[a] = "completed" =>
        /\ \A p \in Parts : ~Live(a, p) /\ ~Pending(a, p)
        /\ exit[a]["main"] = "ok"
        /\ a \in Observed => exit[a]["observation"] = "ok"

\* No process lives that the store counts as quiesced or does not know: what
\* panic answers and what unlock counts is true of the machine.
ProcessesRecorded == \A a \in Actions, p \in Parts : Live(a, p) => Pending(a, p)

\* Never two root commands at once, nor one beside what a dead broker left.
OneAtATime ==
    \A a, b \in Actions, p, q \in Parts : Live(a, p) /\ Live(b, q) => a = b /\ p = q

\* A verdict is never rewritten: not by a late run after control.js closed the
\* action, nor by a recovery.
VerdictIsFinal ==
    [][\A a \in Actions : action[a] \in Terminal => action'[a] = action[a]]_vars

\* the store knows of its cancellation, by its row or, before it, by a tombstone
CancelStored(a) == action[a] = "cancel_requested" \/ a \in tombs

\* Once its cancellation is in the store, no process of an action is started,
\* and a submission that comes after it is not queued to run.
NothingSpawnsAfterCancel ==
    [][\A a \in Actions : CancelStored(a) => spawns'[a] = spawns[a]]_vars

\* docs/PRIVILEGED-ACTIONS.md: observation failure after an exit-zero action is
\* also outcome_unknown.  So an observed action that failed did not run.
ObservationFailureIsUnknown ==
    \A a \in Observed : action[a] = "failed" => spawns[a]["main"] = 0

-----------------------------------------------------------------------------
(* The invariant behind the safety properties.                              *)

\* A row says what its process records may be, and a record what its process.
RowsFit ==
    /\ \A a \in tombs : action[a] = "absent"
    /\ \A a \in Actions : action[a] \in {"absent", "queued", "canceled"}
                          => \A p \in Parts : record[a][p] = "none"
    /\ \A a \in Actions, p \in Parts : record[a][p] = "none"
                          => os[a][p] = "none" /\ exit[a][p] = "none" /\ spawns[a][p] = 0

\* Where the run is, its row and its records agree.
RunFits ==
    /\ run.of = NoAction <=> run.at = "idle"
    /\ run.at # "idle" =>
          /\ phase \in {"serving", "stopping", "closing"}
          /\ action[run.of] \in {"running", "cancel_requested", "outcome_unknown"}
          /\ run.at \in {"claimed", "prepared"} => action[run.of] # "cancel_requested"
          /\ run.at = "claimed" => record[run.of][run.part] = "none"
          /\ run.at = "prepared" =>
                Pending(run.of, run.part) /\ spawns[run.of][run.part] = 0
          /\ run.at \in {"spawned", "running", "ended", "thrown"} => Pending(run.of, run.part)
          /\ run.at = "judging" => record[run.of][run.part] = "quiesced"
          /\ run.part = "main" => record[run.of]["observation"] = "none"
          /\ run.part = "main" /\ ~run.touched => spawns[run.of]["main"] = 0
          /\ run.part = "observation" =>
                /\ run.of \in Observed
                /\ record[run.of]["main"] = "quiesced" /\ exit[run.of]["main"] = "ok"

\* At most one process is unaccounted for.  It is the one the run is about; or
\* the lock is set, or the broker is down.  The same of a leased row.
PendingKnown ==
    /\ \A a, b \in Actions, p, q \in Parts : Pending(a, p) /\ Pending(b, q) => a = b /\ p = q
    /\ \A a \in Actions, p \in Parts : Pending(a, p) =>
          /\ locked \/ phase = "down" \/ run.at \notin {"idle", "failing"}
          /\ run.at # "idle" => run.of = a /\ run.part = p
    /\ \A a \in Actions : Leased(a) => phase = "down" \/ run.of = a
    /\ todo \subseteq PendingSet
    /\ phase \notin {"recovering", "sweeping"} => todo = {}

\* Every step keeps the rows, the process records, the run and the processes in
\* agreement: what the safety properties rest on.
PInv ==
    /\ PrivilegedTypeOK
    /\ RowsFit /\ RunFits /\ PendingKnown
    /\ SpawnedAtMostOnce /\ HonestRefusal /\ CompletedIsWhole /\ ProcessesRecorded

-----------------------------------------------------------------------------
\* Something is leased, or a process record is not quiesced.
Busy == ~AllQuiesced
Plane == INSTANCE RootPlane WITH locked <- locked, busy <- Busy

\* The broker behaves as the emergency stop takes it to: claims only before
\* the lock, and an unlock only when nothing is left.
KeepsRootPlane == Plane!Spec

-----------------------------------------------------------------------------
(* Liveness.  The broker is started again and runs go on; a command that was *)
(* told to stop ends, by SIGKILL in the end.                                *)

PrivilegedFairness ==
    /\ WF_vars(Step) /\ WF_vars(Timeout)
    /\ WF_vars(StartClean \/ StartRecovery)
    /\ \A a \in Actions, p \in Parts :
          WF_vars(run.of = a /\ run.part = p /\ run.stopped /\ Exits(a, p))

PrivilegedLiveSpec == PrivilegedSpec /\ PrivilegedFairness

\* If the broker crashes only so often, a claimed action gets its verdict.
ActionsSettle ==
    <>[][~Crash]_vars => \A a \in Actions : Leased(a) ~> ~Leased(a)
=============================================================================
