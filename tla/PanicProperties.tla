--------------------------- MODULE PanicProperties ---------------------------
(* What the emergency stop promises, and what an unlock may undo.           *)
EXTENDS PanicControl

\* Types: what every variable of the emergency stop ranges over.
LaneCalls == [kind : {"panic", "unlock"}, by : Requests \cup {Nobody}]

PanicTypeOK ==
    /\ row \in [Tasks -> Rows]
    /\ locked \in BOOLEAN
    /\ up \in BOOLEAN
    /\ voice \in Voices
    /\ prepared \subseteq TargetTasks
    /\ worker \in [fence : BOOLEAN, draining : BOOLEAN, lane : Seq(LaneCalls)]
    /\ Len(worker.lane) <= MaxLane
    /\ op \subseteq Tasks
    /\ root \in [locked : BOOLEAN, busy : BOOLEAN]
    /\ req \in [Requests -> Reqs]

\* The queue is never locked beside an open voice gate while the controller
\* serves: /ask and the start of a managed run look at the voice lock alone.
LockedTogether == up /\ locked => VoiceLocked

\* the panics whose caller was told that they hold
Acknowledged(p) == req[p].said \in {"accepted", "stopped"}

\* An acknowledged panic that no unlock has overlapped is on disk at every
\* plane: a crash of the controller at any moment finds the voice lock file,
\* the queue's lock and the worker's fence in place.  An unlock that fails half
\* way does not lift it: one of the two durable locks of the controller is left,
\* whatever failed, unless the queue could neither be kept locked nor locked
\* again.
AcceptedIsDurable ==
    \A p \in Requests : Acknowledged(p) =>
        /\ req[p].since = "clean" => voice.file # "open" /\ locked /\ worker.fence
        /\ req[p].since # "undone" => voice.file # "open" \/ locked

\* STOPPED is true and stays true until an unlock is asked for, here or at the
\* root broker: no durable voice row is active, no run is left in the worker
\* and no privileged action runs, through crashes and restarts of the
\* controller.
StoppedIsTrue ==
    \A p \in Requests : req[p].said = "stopped" /\ req[p].since = "clean" =>
        Quiesced /\ op = {} /\ ~root.busy

\* No run enters the worker for a row once a panic was acknowledged, until an
\* unlock is asked for: the row may still be leased, its fence is the worker's.
NothingStartsAfterPanic ==
    [][(\E p \in Requests : Acknowledged(p) /\ req[p].since = "clean") => op' \subseteq op]_panicVars

\* An unlock that no other control request overlapped opens the queue only
\* while every durable voice row is terminal.
LoneUnlockIsQuiesced ==
    [][\A p \in Requests :
          /\ req[p].stage = "commit" /\ req[p].since = "clean" /\ req'[p].stage # "commit"
          /\ locked /\ ~locked'
          => Quiesced]_panicVars

\* What README.md says of the unlock routes: they refuse to unlock until
\* durable work is truly quiesced.  Here for the step that lifts both locks.
UnlockNeedsQuiescence ==
    [][VoiceLocked /\ locked /\ ~VoiceLocked' /\ ~locked' => Quiesced]_panicVars

\* What PanicControl takes the two brokers to be is what they promise: each
\* moves as a RootPlane, which PrivilegedActions and WorkerOperations implement.
RootSide == INSTANCE RootPlane WITH locked <- root.locked, busy <- root.busy
WorkerSide == INSTANCE RootPlane WITH locked <- worker.fence, busy <- (op # {})

TakesPlanes == RootSide!Spec /\ WorkerSide!Spec

-----------------------------------------------------------------------------
(* What links a request to the planes it has reached.  Together these parts *)
(* are inductive, and the four properties follow from them (PanicProofs).   *)

\* The lock's memory mirrors only a save that reached the file; a root broker
\* that is not deployed does nothing.
PlanesFit ==
    /\ voice.mem = "saved" => voice.file = "locked"
    /\ root.busy => Privileged

\* A controller that is down serves nobody.
UpFits(p) == Flying(p) => up

\* A call waits in the worker's lane exactly while its request waits for the
\* answer; the fence stands while a panic drains.
LaneFits ==
    /\ worker.draining => worker.lane # <<>> /\ worker.lane[1].kind = "panic" /\ worker.fence
    /\ \A i, j \in DOMAIN worker.lane :
          worker.lane[i].by = worker.lane[j].by /\ worker.lane[i].by \in Requests => i = j
    /\ \A i \in DOMAIN worker.lane : worker.lane[i].by \in Requests =>
          /\ req[worker.lane[i].by].worker = "sent"
          /\ worker.lane[i].kind = "unlock" => req[worker.lane[i].by].stage = "worker"

\* Where a request is, and what it may hold there.
StageFits(p) ==
    /\ req[p].said # "none" => req[p].stage = "idle" /\ req[p].kind = "panic"
    /\ req[p].stage = "idle" =>
          ~req[p].fenced /\ ~req[p].quiet /\ req[p].worker = "none" /\ req[p].root = "none"
    /\ req[p].stage = "panic" => req[p].kind = "panic" /\ req[p].worker # "none"
    /\ req[p].stage \notin {"idle", "panic"} => req[p].kind = "unlock"
    /\ req[p].worker = "sent" => req[p].stage \in {"panic", "worker", "rollback"}

\* a panic, answered or not, that no unlock has overlapped
Clean(p) == req[p].kind = "panic" /\ req[p].since = "clean"

\* a panic that wrote both locks of the controller
Stands(p) == req[p].kind = "panic" /\ (req[p].fenced \/ Acknowledged(p))

ApartFits(p) == Clean(p) => \A q \in Requests : ~Unlocking(q)

LocksFit(p) ==
    /\ Stands(p) /\ Clean(p) => voice.file # "open" /\ locked
    /\ Stands(p) /\ req[p].since # "undone" => voice.file # "open" \/ locked

QuietFits(p) ==
    Clean(p) /\ ((req[p].fenced /\ req[p].quiet) \/ req[p].said = "stopped") => Quiesced

\* No unlock is behind a clean panic's call in the lane, and none is left in
\* it once the worker answered.
WorkerFits(p) ==
    Clean(p) =>
        /\ \A i, j \in DOMAIN worker.lane :
              i <= j /\ worker.lane[i].by = p => worker.lane[j].kind = "panic"
        /\ req[p].worker \in {"accepted", "quiesced"} \/ Acknowledged(p) =>
              worker.fence /\ \A i \in DOMAIN worker.lane : worker.lane[i].kind = "panic"
        /\ req[p].worker = "quiesced" \/ req[p].said = "stopped" => op = {}

RootFits(p) ==
    Clean(p) /\ (req[p].root = "quiesced" \/ req[p].said = "stopped") =>
        ~root.busy /\ (Privileged => root.locked)

\* An unlock that overlaps nothing is the only request in flight; the queue is
\* locked under it only if it was quiet at the one look the unlock took.
UnlockFits(p) ==
    Unlocking(p) /\ req[p].since = "clean" =>
        /\ \A q \in Requests \ {p} : ~Flying(q)
        /\ req[p].stage # "rollback" /\ locked => Quiesced

RequestFits(p) ==
    /\ UpFits(p) /\ StageFits(p) /\ ApartFits(p) /\ LocksFit(p) /\ QuietFits(p)
    /\ WorkerFits(p) /\ RootFits(p) /\ UnlockFits(p)

PanicInv == PanicTypeOK /\ PlanesFit /\ LaneFits /\ \A p \in Requests : RequestFits(p)
=============================================================================
