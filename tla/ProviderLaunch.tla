---------------------------- MODULE ProviderLaunch ----------------------------
(***************************************************************************)
(* Launches of model providers: the supervisors that admit them, the root  *)
(* boundary that launches and terminates their systemd units, the egress   *)
(* brokers that hold their capabilities, and the root transactions that    *)
(* stop and reopen every plane.                                            *)
(***************************************************************************)
EXTENDS FiniteSets

CONSTANTS Launches,   \* launch ids
          Providers,
          PlaneOf,    \* the provider of each launch
          NoLaunch

ASSUME ProviderAssumption ==
    PlaneOf \in [Launches -> Providers] /\ NoLaunch \notin Launches

VARIABLES launcher,  \* the boundary's launch: where it is at, "gone" once it exited
          record,    \* the readiness file: its last record, "none" without one
          unit,      \* the systemd unit of a launch
          ran,       \* launches whose provider was ever spawned
          tombs,     \* cancellation tombstones
          cap,       \* the capability at the egress broker
          glock,     \* the global launch lock
          panicFile, recoveryFile, masked,  \* root's panic and recovery files, the mask
          sup,       \* a supervisor: "down", "starting", "up" or "closing"
          fence,     \* its panic.lock
          sure,      \* its boundaryRecovered
          ctl,       \* the head of its control lane
          rec,       \* where its boundary recovery is at
          live,      \* launches in its set active
          told,      \* the last frame of each launch
          attempted, \* providerExecutionAttempted
          inspected, \* inspectAndFinish has had its answer
          sawUnit, sawRecord,  \* what its status call has read: the unit, then the record
          term,      \* the terminate call of a launch
          root, kind, proved,  \* the root transaction: its stage, what it is, and so far quiesced
          retained,  \* the holder of the lock it found
          calm       \* a root panic was answered quiesced, and no unlock since

boundaryVars == <<launcher, record, unit, ran, tombs, cap, glock>>
fileVars     == <<panicFile, recoveryFile, masked>>
superVars    == <<sup, fence, sure, ctl, rec>>
lookVars     == <<inspected, sawUnit, sawRecord>>
launchVars   == <<live, told, attempted, lookVars, term>>
rootVars     == <<root, kind, proved, retained, calm>>
vars == <<boundaryVars, fileVars, superVars, launchVars, rootVars>>

Of(p) == {l \in Launches : PlaneOf[l] = p}
Plane(l) == PlaneOf[l]

\* globalProviderPanicLocked: a stranded recovery is a lock too
PanicLocked == panicFile \/ recoveryFile

Runs(l)    == launcher[l] \notin {"none", "gone"}
Visible(l) == unit[l] \in {"boundary", "intending", "provider"}   \* list-units shows it
Started(l) == told[l] = "accepted"                                \* providerStarted

ProviderInit ==
    /\ launcher = [l \in Launches |-> "none"]
    /\ record = [l \in Launches |-> "none"]
    /\ unit = [l \in Launches |-> "absent"]
    /\ ran = {} /\ tombs = {}
    /\ cap = [l \in Launches |-> "none"]
    /\ glock = NoLaunch
    /\ panicFile = FALSE /\ recoveryFile = FALSE /\ masked = FALSE
    /\ sup = [p \in Providers |-> "starting"]
    /\ fence = [p \in Providers |-> FALSE]
    /\ sure = [p \in Providers |-> FALSE]
    /\ ctl = [p \in Providers |-> "none"]
    /\ rec = [p \in Providers |-> "egress"]
    /\ live = {} /\ attempted = {} /\ inspected = {}
    /\ sawUnit = [l \in Launches |-> "none"] /\ sawRecord = [l \in Launches |-> "none"]
    /\ told = [l \in Launches |-> "nothing"]
    /\ term = [l \in Launches |-> "none"]
    /\ root = "idle" /\ kind = "none" /\ proved = FALSE /\ retained = NoLaunch /\ calm = FALSE

-----------------------------------------------------------------------------
(* The boundary's launch, a process of its own for each launch.             *)

LauncherOnly == UNCHANGED <<ran, tombs, fileVars, superVars, launchVars, rootVars>>

Release == glock' = NoLaunch

\* createGlobalLaunchLock, unless canceled before
TakeLock(l) ==
    /\ launcher[l] = "starting"
    /\ IF l \in tombs \/ glock # NoLaunch
       THEN launcher' = [launcher EXCEPT ![l] = "gone"] /\ UNCHANGED glock
       ELSE launcher' = [launcher EXCEPT ![l] = "held"] /\ glock' = l
    /\ UNCHANGED <<record, unit, cap>> /\ LauncherOnly

\* the checks behind it, which may refuse, and the readiness file
Plan(l) ==
    /\ launcher[l] = "held"
    /\ \/ /\ ~PanicLocked
          /\ launcher' = [launcher EXCEPT ![l] = "planned"]
          /\ record' = [record EXCEPT ![l] = "planned"]
          /\ UNCHANGED glock
       \/ /\ launcher' = [launcher EXCEPT ![l] = "gone"]
          /\ Release /\ UNCHANGED record
    /\ UNCHANGED <<unit, cap>> /\ LauncherOnly

\* register at the egress broker; a capability revoked before conflicts, and of
\* an answer that was lost nothing is known
Register(l) ==
    /\ launcher[l] = "planned"
    /\ \/ /\ PanicLocked
          /\ launcher' = [launcher EXCEPT ![l] = "gone"]
          /\ Release /\ UNCHANGED cap
       \/ /\ ~PanicLocked /\ cap[l] = "none"
          /\ cap' = [cap EXCEPT ![l] = "active"]
          /\ launcher' \in {[launcher EXCEPT ![l] = to] : to \in {"registered", "unwinding"}}
          /\ UNCHANGED glock
       \/ /\ ~PanicLocked
          /\ launcher' = [launcher EXCEPT ![l] = "unwinding"]
          /\ UNCHANGED <<cap, glock>>
    /\ UNCHANGED <<record, unit>> /\ LauncherOnly

\* what is checked last before the model may start: canceled, locked or not admitted
Submit(l) ==
    /\ launcher[l] = "registered"
    /\ \/ /\ l \notin tombs /\ ~PanicLocked
          /\ launcher' = [launcher EXCEPT ![l] = "admitted"]
       \/ launcher' = [launcher EXCEPT ![l] = "unwinding"]
    /\ UNCHANGED <<record, unit, cap, glock>> /\ LauncherOnly

\* systemd-run
Sends(l) ==
    /\ launcher[l] = "admitted"
    /\ launcher' = [launcher EXCEPT ![l] = "running"]
    /\ unit' = [unit EXCEPT ![l] = "sent"]
    /\ UNCHANGED <<record, cap, glock>> /\ LauncherOnly

\* the helper exits: with code 0 behind a unit that ran and is gone, or in any
\* other way, of which the unit need not know anything
HelperEnds(l) ==
    /\ launcher[l] = "running"
    /\ \/ /\ unit[l] = "absent" /\ l \in ran
          /\ launcher' = [launcher EXCEPT ![l] = "revoking"]
       \/ launcher' = [launcher EXCEPT ![l] = "stranded"]
    /\ UNCHANGED <<record, unit, cap, glock>> /\ LauncherOnly

\* a revocation: confirmed, or without an answer
Revoked(l)  == cap' = [cap EXCEPT ![l] = "revoked"]
MaybeRevoked(l) == UNCHANGED cap \/ Revoked(l)

\* bug: the lock is given up whatever became of the unit
UnwindAlways(l) ==
    /\ launcher[l] \in {"unwinding", "revoking", "stranded"}
    /\ Revoked(l) /\ Release
    /\ launcher' = [launcher EXCEPT ![l] = "gone"]
    /\ UNCHANGED <<record, unit>> /\ LauncherOnly

\* the last revocation; the lock is given up when both the model and the
\* capability are known to be quiesced
Unwind(l) ==
    /\ launcher[l] \in {"unwinding", "revoking", "stranded"}
    /\ \/ Revoked(l) /\ IF launcher[l] = "stranded" THEN UNCHANGED glock ELSE Release
       \/ MaybeRevoked(l) /\ UNCHANGED glock
    /\ launcher' = [launcher EXCEPT ![l] = "gone"]
    /\ UNCHANGED <<record, unit>> /\ LauncherOnly

LauncherDies(l) ==
    /\ Runs(l)
    /\ launcher' = [launcher EXCEPT ![l] = "gone"]
    /\ UNCHANGED <<record, unit, cap, glock>> /\ LauncherOnly

Launcher(l) == TakeLock(l) \/ Plan(l) \/ Register(l) \/ Submit(l) \/ Sends(l)
               \/ HelperEnds(l) \/ Unwind(l)

-----------------------------------------------------------------------------
(* systemd and the unit: its wrapper writes what it is about to do.          *)

UnitOnly == UNCHANGED <<launcher, tombs, cap, glock, fileVars, superVars, launchVars, rootVars>>
Becomes(l, state) == unit' = [unit EXCEPT ![l] = state]

\* the request to start it reaches systemd, which refuses a masked name, or does
\* not; it may be late
Arrives(l) ==
    /\ unit[l] = "sent"
    /\ Becomes(l, "absent") \/ (l \notin tombs /\ Becomes(l, "boundary"))
    /\ UNCHANGED <<record, ran>> /\ UnitOnly

\* persistProviderStartIntent, which needs the planned record
Intent(l) ==
    /\ unit[l] = "boundary"
    /\ IF record[l] = "planned"
       THEN Becomes(l, "intending") /\ record' = [record EXCEPT ![l] = "intent"]
       ELSE Becomes(l, "absent") /\ UNCHANGED record
    /\ UNCHANGED ran /\ UnitOnly

Spawn(l) ==
    /\ unit[l] = "intending"
    /\ Becomes(l, "provider")
    /\ ran' = ran \cup {l}
    /\ UNCHANGED record /\ UnitOnly

\* persistProviderSpawn, which needs the intent
Mark(l) ==
    /\ unit[l] = "provider" /\ record[l] # "spawned"
    /\ IF record[l] = "intent"
       THEN record' = [record EXCEPT ![l] = "spawned"] /\ UNCHANGED unit
       ELSE Becomes(l, "absent") /\ UNCHANGED record
    /\ UNCHANGED ran /\ UnitOnly

UnitEnds(l) ==
    /\ Visible(l)
    /\ Becomes(l, "absent")
    /\ UNCHANGED <<record, ran>> /\ UnitOnly

\* a broker that starts again revokes every capability
EgressRestarts(p) ==
    /\ \E l \in Of(p) : cap[l] = "active"
    /\ cap' = [l \in Launches |-> IF l \in Of(p) /\ cap[l] = "active" THEN "revoked" ELSE cap[l]]
    /\ UNCHANGED <<launcher, record, unit, ran, tombs, glock, fileVars, superVars, launchVars,
                   rootVars>>

-----------------------------------------------------------------------------
(* A supervisor: what it observes of a launch, and its last frame.           *)

\* an empty cgroup; a request systemd has not seen does not show
Quiesced(l) == unit[l] \in {"absent", "sent"}

SuperOnly == UNCHANGED <<launcher, ran, glock, fileVars, rootVars>>
NoBoundary == UNCHANGED <<record, unit, tombs, cap>>

\* markBoundaryUncertain
Uncertain(p) == /\ sure' = [sure EXCEPT ![p] = FALSE]
                /\ fence' = [fence EXCEPT ![p] = TRUE]
Certain == UNCHANGED <<sure, fence>>

\* a terminate call that proved nothing; a panic that waits for it will not be quiesced
Unproved(p) ==
    /\ Uncertain(p)
    /\ ctl' = [ctl EXCEPT ![p] = IF @ = "panic" /\ rec[p] = "none" THEN "unproved" ELSE @]

\* observeProviderReadiness, of a record that was read
Observe(l, seen) ==
    /\ attempted' = attempted \cup (IF seen \in {"intent", "spawned"} THEN {l} ELSE {})
    /\ told' = [told EXCEPT ![l] =
          IF seen = "spawned" /\ @ = "nothing" /\ l \in live THEN "accepted" ELSE @]

\* finishRuntime, and what was observed before
Finish(l, seen) ==
    /\ live' = live \ {l} /\ attempted' = attempted \ {l} /\ inspected' = inspected \ {l}
    /\ told' = [told EXCEPT ![l] =
          IF l \notin live THEN @
          ELSE IF @ = "accepted" \/ seen = "spawned" THEN "exit"
          ELSE IF l \in attempted \/ seen = "intent" THEN "unknown"
          ELSE "notStarted"]

Asked(who) == [l \in Launches |-> IF l \in who /\ term[l] = "none" THEN "asked" ELSE term[l]]

\* a launch frame is admitted
Admit(l) ==
    LET p == Plane(l) IN
    /\ sup[p] = "up" /\ ctl[p] = "none" /\ sure[p] /\ ~fence[p]
    /\ live \cap Of(p) = {}
    /\ launcher[l] = "none"
    /\ launcher' = [launcher EXCEPT ![l] = "starting"]
    /\ live' = live \cup {l}
    /\ UNCHANGED <<record, unit, ran, tombs, cap, glock, fileVars, superVars, told, attempted,
                   lookVars, term, rootVars>>

\* waitForProviderReadiness; what it reads does not get less true while it waits
Poll(l) ==
    /\ l \in live /\ launcher[l] # "gone" /\ told[l] = "nothing"
    /\ record[l] # "none"
    /\ Observe(l, record[l])
    /\ UNCHANGED <<superVars, live, lookVars, term>> /\ NoBoundary /\ SuperOnly

PollFails(l) ==
    /\ l \in live /\ launcher[l] # "gone" /\ told[l] = "nothing"
    /\ term' = Asked({l})
    /\ Uncertain(Plane(l))
    /\ UNCHANGED <<sup, ctl, rec, live, told, attempted, lookVars>> /\ NoBoundary /\ SuperOnly

\* the client is gone, signals, sends input too early; too much output; not ready in
\* time
StopAsked(l) ==
    /\ l \in live /\ term[l] = "none"
    /\ term' = Asked({l})
    /\ UNCHANGED <<superVars, live, told, attempted, lookVars>> /\ NoBoundary /\ SuperOnly

\* inspectAndFinish, once the launcher exited: the status call looks at the unit, for
\* which "sent" looks like "absent"
LookAtUnit(l) ==
    /\ l \in live /\ launcher[l] = "gone" /\ l \notin inspected /\ sawUnit[l] = "none"
    /\ sawUnit' = [sawUnit EXCEPT ![l] = IF Quiesced(l) THEN unit[l] ELSE "shown"]
    /\ UNCHANGED <<superVars, live, told, attempted, inspected, sawRecord, term>>
    /\ NoBoundary /\ SuperOnly

\* then at the record
LookAtRecord(l) ==
    /\ sawUnit[l] # "none" /\ sawRecord[l] = "none"
    /\ sawRecord' = [sawRecord EXCEPT ![l] = IF record[l] = "none" THEN "missing" ELSE record[l]]
    /\ UNCHANGED <<superVars, live, told, attempted, inspected, sawUnit, term>>
    /\ NoBoundary /\ SuperOnly

Looked(l) == /\ sawUnit' = [sawUnit EXCEPT ![l] = "none"]
             /\ sawRecord' = [sawRecord EXCEPT ![l] = "none"]
AskAfter(l) == term' = Asked({l}) /\ inspected' = inspected \cup {l} /\ UNCHANGED live

\* bug: an absent unit is enough
InspectUnitOnly(l) ==
    /\ sawRecord[l] # "none"
    /\ Looked(l)
    /\ IF l \in live
       THEN IF sawUnit[l] # "shown"
            THEN Finish(l, sawRecord[l]) /\ UNCHANGED term
            ELSE Observe(l, sawRecord[l]) /\ AskAfter(l)
       ELSE UNCHANGED <<live, told, attempted, inspected, term>>
    /\ UNCHANGED superVars /\ NoBoundary /\ SuperOnly

\* and answers.  Without its record a launch is never quiesced; of one that a
\* terminate call has finished meanwhile nothing more is said.
Inspect(l) ==
    /\ sawRecord[l] # "none"
    /\ Looked(l)
    /\ IF l \in live
       THEN IF sawUnit[l] # "shown" /\ sawRecord[l] # "missing"
            THEN Finish(l, sawRecord[l]) /\ UNCHANGED term
            ELSE Observe(l, sawRecord[l]) /\ AskAfter(l)
       ELSE UNCHANGED <<live, told, attempted, inspected, term>>
    /\ UNCHANGED superVars /\ NoBoundary /\ SuperOnly

\* or fails
InspectFails(l) ==
    /\ sawUnit[l] # "none" \/ (l \in live /\ launcher[l] = "gone" /\ l \notin inspected)
    /\ Looked(l)
    /\ Uncertain(Plane(l))
    /\ IF l \in live THEN AskAfter(l) ELSE UNCHANGED <<term, inspected, live>>
    /\ UNCHANGED <<sup, ctl, rec, told, attempted>> /\ NoBoundary /\ SuperOnly

-----------------------------------------------------------------------------
(* terminateUnit for a supervisor, whose call may be cut off at any point.   *)

\* the tombstone, and the revocation
TermFence(l) ==
    /\ term[l] = "asked"
    /\ tombs' = tombs \cup {l}
    /\ \/ Revoked(l) /\ term' = [term EXCEPT ![l] = "cut"]
       \/ MaybeRevoked(l) /\ term' = [term EXCEPT ![l] = "loose"]
    /\ UNCHANGED <<record, unit, superVars, live, told, attempted, lookVars>> /\ SuperOnly

TermFails(l) ==
    /\ term[l] \in {"asked", "cut", "loose"}
    /\ term' = [term EXCEPT ![l] = "none"]
    /\ Unproved(Plane(l))
    /\ UNCHANGED <<sup, rec, live, told, attempted, lookVars>> /\ NoBoundary /\ SuperOnly

\* its unit is stopped, and nothing was left to doubt: its record is read and removed
Stopped(l) ==
    /\ term[l] = "cut"
    /\ Becomes(l, IF Visible(l) THEN "absent" ELSE unit[l])
    /\ record[l] # "none"
    /\ record' = [record EXCEPT ![l] = "none"]

TermStop(l) ==
    /\ Stopped(l)
    /\ IF launcher[l] = "gone" /\ l \in live
       THEN Finish(l, record[l]) /\ term' = [term EXCEPT ![l] = "none"]
       ELSE /\ Observe(l, record[l])
            /\ term' = [term EXCEPT ![l] = IF l \in live THEN "drain" ELSE "none"]
            /\ UNCHANGED <<live, inspected>>
    /\ UNCHANGED <<tombs, cap, superVars, sawUnit, sawRecord>> /\ SuperOnly

\* its answer is lost, and what its record said with it
TermLost(l) ==
    /\ Stopped(l)
    /\ term' = [term EXCEPT ![l] = "none"]
    /\ Unproved(Plane(l))
    /\ UNCHANGED <<tombs, cap, sup, rec, live, told, attempted, lookVars>> /\ SuperOnly

\* the stop or the revocation is unconfirmed, or there is no record
TermUnproved(l) ==
    /\ term[l] \in {"cut", "loose"}
    /\ \E stops \in BOOLEAN : Becomes(l, IF stops /\ Visible(l) THEN "absent" ELSE unit[l])
    /\ term' = [term EXCEPT ![l] = "none"]
    /\ Unproved(Plane(l))
    /\ UNCHANGED <<record, tombs, cap, sup, rec, live, told, attempted, lookVars>>
    /\ SuperOnly

\* leaderPromise
Drained(l) ==
    /\ term[l] = "drain" /\ launcher[l] = "gone"
    /\ Finish(l, record[l])
    /\ term' = [term EXCEPT ![l] = "none"]
    /\ UNCHANGED <<superVars, sawUnit, sawRecord>> /\ NoBoundary /\ SuperOnly

Watching(l) == Poll(l) \/ LookAtUnit(l) \/ LookAtRecord(l) \/ Inspect(l)
               \/ TermFence(l) \/ TermStop(l) \/ TermUnproved(l) \/ Drained(l)
CallFails(l) == PollFails(l) \/ InspectFails(l) \/ TermFails(l) \/ TermLost(l)

-----------------------------------------------------------------------------
(* Its control lane, shutdown and start.                                    *)

ControlOnly == UNCHANGED <<live, told, attempted, lookVars>>

\* panicAllImpl up to its first await
Panic(p) ==
    /\ sup[p] = "up" /\ ctl[p] = "none"
    /\ ctl' = [ctl EXCEPT ![p] = "panic"]
    /\ fence' = [fence EXCEPT ![p] = TRUE]
    /\ term' = Asked(live \cap Of(p))
    /\ UNCHANGED <<sup, sure, rec>> /\ ControlOnly /\ NoBoundary /\ SuperOnly

\* unlockAllImpl
Unlock(p) ==
    /\ sup[p] = "up" /\ ctl[p] = "none"
    /\ ctl' = [ctl EXCEPT ![p] = "unlock"]
    /\ rec' = [rec EXCEPT ![p] = "egress"]
    /\ UNCHANGED <<sup, fence, sure, term>> /\ ControlOnly /\ NoBoundary /\ SuperOnly

\* close, behind what its lane holds
Close(p) ==
    /\ sup[p] = "up" /\ ctl[p] = "none"
    /\ sup' = [sup EXCEPT ![p] = "closing"]
    /\ fence' = [fence EXCEPT ![p] = TRUE]
    /\ term' = Asked(live \cap Of(p))
    /\ UNCHANGED <<sure, ctl, rec>> /\ ControlOnly /\ NoBoundary /\ SuperOnly

\* every terminate call of a panic or of close has its answer
Answered(p) ==
    /\ ctl[p] \in {"panic", "unproved"} \/ sup[p] = "closing"
    /\ rec[p] = "none"
    /\ ctl[p] = "unproved" \/ \A l \in live \cap Of(p) : term[l] = "none"
    /\ rec' = [rec EXCEPT ![p] = "egress"]
    /\ UNCHANGED <<sup, fence, sure, ctl, term>> /\ ControlOnly /\ NoBoundary /\ SuperOnly

\* the boundary's recover: every capability, then what systemd lists
RecoverEgress(p) ==
    /\ rec[p] = "egress"
    /\ \E ok, revoked \in BOOLEAN :
          /\ ok => revoked
          /\ rec' = [rec EXCEPT ![p] = IF ok THEN "units" ELSE "loose"]
          /\ cap' = [l \in Launches |->
                IF revoked /\ l \in Of(p) /\ cap[l] = "active" THEN "revoked" ELSE cap[l]]
    /\ UNCHANGED <<record, unit, tombs, sup, fence, sure, ctl, term>> /\ ControlOnly /\ SuperOnly

RecoverUnits(p) ==
    LET seen == {l \in Of(p) : Visible(l)} IN
    /\ rec[p] \in {"units", "loose"}
    /\ tombs' = tombs \cup seen
    /\ \/ /\ \A l \in seen : record[l] # "none"
          /\ unit' = [l \in Launches |-> IF l \in seen THEN "absent" ELSE unit[l]]
          /\ record' = [l \in Launches |-> IF l \in seen THEN "none" ELSE record[l]]
          /\ cap' = [l \in Launches |-> IF l \in seen THEN "revoked" ELSE cap[l]]
          /\ rec' = [rec EXCEPT ![p] = IF @ = "units" THEN "purge" ELSE "failed"]
       \/ /\ seen # {}
          /\ UNCHANGED <<unit, record, cap>>
          /\ rec' = [rec EXCEPT ![p] = "failed"]
    /\ UNCHANGED <<sup, fence, sure, ctl, term>> /\ ControlOnly /\ SuperOnly

\* the process ends, and with it what it started: launchers and boundary calls
Down(ps) ==
    LET its == {l \in Launches : Plane(l) \in ps} IN
    /\ launcher' = [l \in Launches |-> IF l \in its /\ Runs(l) THEN "gone" ELSE launcher[l]]
    /\ sup' = [p \in Providers |-> IF p \in ps THEN "down" ELSE sup[p]]
    /\ sure' = [p \in Providers |-> sure[p] /\ p \notin ps]
    /\ ctl' = [p \in Providers |-> IF p \in ps THEN "none" ELSE ctl[p]]
    /\ rec' = [p \in Providers |-> IF p \in ps THEN "none" ELSE rec[p]]
    /\ live' = live \ its /\ attempted' = attempted \ its /\ inspected' = inspected \ its
    /\ term' = [l \in Launches |-> IF l \in its THEN "none" ELSE term[l]]
    /\ sawUnit' = [l \in Launches |-> IF l \in its THEN "none" ELSE sawUnit[l]]
    /\ sawRecord' = [l \in Launches |-> IF l \in its THEN "none" ELSE sawRecord[l]]
    /\ UNCHANGED <<ran, glock, told>>

\* what its caller makes of the recovery
Recovered(p, ok) ==
    \/ /\ sup[p] = "starting"
       /\ IF ok THEN /\ sup' = [sup EXCEPT ![p] = "up"]
                     /\ sure' = [sure EXCEPT ![p] = TRUE]
                     /\ rec' = [rec EXCEPT ![p] = "none"]
                     /\ UNCHANGED <<fence, ctl, launcher, ran, glock, term>> /\ ControlOnly
          ELSE Down({p}) /\ UNCHANGED fence
    \/ /\ ctl[p] # "none"
       /\ IF ~ok \/ ctl[p] = "unproved" \/ (ctl[p] = "panic" /\ live \cap Of(p) # {})
          THEN Uncertain(p)
          ELSE IF live \cap Of(p) # {} THEN Certain
          ELSE /\ sure' = [sure EXCEPT ![p] = TRUE]
               /\ IF ctl[p] = "panic"
                  THEN UNCHANGED fence
                  ELSE fence' = [fence EXCEPT ![p] = FALSE]
       /\ ctl' = [ctl EXCEPT ![p] = "none"]
       /\ rec' = [rec EXCEPT ![p] = "none"]
       /\ UNCHANGED <<sup, launcher, ran, glock, term>> /\ ControlOnly
    \/ sup[p] = "closing" /\ Down({p}) /\ UNCHANGED fence

\* purgeProviderReadinessArtifacts, and the answer
RecoverPurge(p) ==
    /\ rec[p] = "purge"
    /\ record' = [l \in Launches |-> IF l \in Of(p) THEN "none" ELSE record[l]]
    /\ Recovered(p, TRUE) \/ Recovered(p, FALSE)
    /\ UNCHANGED <<unit, tombs, cap, fileVars, rootVars>>

RecoverFails(p) ==
    /\ rec[p] = "failed"
    /\ Recovered(p, FALSE)
    /\ UNCHANGED <<record, unit, tombs, cap, fileVars, rootVars>>

Crash(p) ==
    /\ sup[p] # "down"
    /\ Down({p})
    /\ UNCHANGED <<fence, record, unit, tombs, cap, fileVars, rootVars>>

\* assertSupervisorStartAdmitted, in its unit; then its recovery
Start(p) ==
    /\ sup[p] = "down" /\ ~masked
    /\ PanicLocked => recoveryFile
    /\ sup' = [sup EXCEPT ![p] = "starting"]
    /\ rec' = [rec EXCEPT ![p] = "egress"]
    /\ UNCHANGED <<fence, sure, ctl, term>> /\ ControlOnly /\ NoBoundary /\ SuperOnly

Supervise(p) == Answered(p) \/ RecoverEgress(p) \/ RecoverUnits(p) \/ RecoverPurge(p) \/ RecoverFails(p)

-----------------------------------------------------------------------------
(* Root's transactions over both planes, one at a time: panicAllProviderPlanes *)
(* and unlockAllProviderPlanes, which begins with it.                        *)

RootOnly == UNCHANGED <<ran, told>>
Ends == root' = "idle" /\ kind' = "none" /\ proved' = FALSE /\ retained' = NoLaunch
NoSuper  == UNCHANGED <<launcher, superVars, live, attempted, lookVars, term>>

RootBegins(what) ==
    /\ root = "idle"
    /\ root' = "stopping" /\ kind' = what /\ proved' = TRUE
    /\ panicFile' = TRUE
    /\ UNCHANGED <<record, unit, tombs, cap, glock, recoveryFile, masked, retained, calm>>
    /\ NoSuper /\ RootOnly

\* the supervisors are stopped, in good order or killed
RootStops ==
    /\ root = "stopping"
    /\ \E ps \in SUBSET Providers : \E locked \in SUBSET ps :
          /\ Down(ps)
          /\ fence' = [p \in Providers |-> fence[p] \/ p \in locked]
          /\ proved' = (ps = Providers)
    /\ root' = "masking"
    /\ UNCHANGED <<record, unit, tombs, cap, fileVars, kind, retained, calm>>

RootMasks ==
    /\ root = "masking"
    /\ \/ masked' = TRUE /\ UNCHANGED proved
       \/ UNCHANGED masked /\ proved' = FALSE
    /\ root' = "retained"
    /\ UNCHANGED <<record, unit, tombs, cap, glock, panicFile, recoveryFile, kind, retained, calm>>
    /\ NoSuper /\ RootOnly

\* terminateUnit for root, for which a missing record is no error
Terminate(ls) ==
    /\ tombs' = tombs \cup ls
    /\ \/ /\ unit' = [l \in Launches |-> IF l \in ls /\ Visible(l) THEN "absent" ELSE unit[l]]
          /\ record' = [l \in Launches |-> IF l \in ls THEN "none" ELSE record[l]]
          /\ cap' = [l \in Launches |-> IF l \in ls THEN "revoked" ELSE cap[l]]
          /\ UNCHANGED proved
       \/ /\ ls # {}
          /\ proved' = FALSE
          /\ UNCHANGED <<unit, record, cap>>

\* bug: the holder of the lock is not terminated
RootSkipsRetained ==
    /\ root = "retained"
    /\ root' = "units" /\ retained' = glock
    /\ UNCHANGED <<record, unit, tombs, cap, proved, glock, fileVars, kind, calm>>
    /\ NoSuper /\ RootOnly

\* the launch that holds the lock, though no unit of it may show
RootRetained ==
    /\ root = "retained"
    /\ Terminate({glock} \ {NoLaunch})
    /\ root' = "units" /\ retained' = glock
    /\ UNCHANGED <<glock, fileVars, kind, calm>> /\ NoSuper /\ RootOnly

RootUnits ==
    /\ root = "units"
    /\ Terminate({l \in Launches : Visible(l)})
    /\ root' = "egress"
    /\ UNCHANGED <<glock, fileVars, kind, retained, calm>> /\ NoSuper /\ RootOnly

\* recoverProviderEgress, which restarts a broker that does not answer
RootEgress ==
    /\ root = "egress"
    /\ \/ /\ cap' = [l \in Launches |-> IF cap[l] = "active" THEN "revoked" ELSE cap[l]]
          /\ UNCHANGED proved
       \/ UNCHANGED cap /\ proved' = FALSE
    /\ root' = "clearing"
    /\ UNCHANGED <<record, unit, tombs, glock, fileVars, kind, retained, calm>>
    /\ NoSuper /\ RootOnly

\* clearStaleGlobalLaunchLockAfterQuiescence refuses a lock that changed or whose
\* owner lives; then a panic has its answer
RootClears ==
    /\ root = "clearing"
    /\ IF proved /\ glock = retained /\ (glock # NoLaunch => ~Runs(glock))
       THEN /\ Release
            /\ calm' = TRUE
            /\ IF kind = "unlock"
               THEN root' = "restarting" /\ UNCHANGED <<kind, proved, retained>>
               ELSE Ends
       ELSE UNCHANGED <<glock, calm>> /\ Ends
    /\ UNCHANGED <<record, unit, tombs, cap, fileVars>> /\ NoSuper /\ RootOnly

RootRestarts ==
    /\ root = "restarting"
    /\ recoveryFile' = TRUE
    /\ \/ masked' = FALSE /\ root' = "probing" /\ UNCHANGED <<kind, proved, retained>>
       \/ UNCHANGED masked /\ Ends
    /\ UNCHANGED <<record, unit, tombs, cap, glock, panicFile, calm>>
    /\ NoSuper /\ RootOnly

\* isLockedSupervisorHealth
LockedIdle(p) == sup[p] = "up" /\ fence[p] /\ sure[p] /\ live \cap Of(p) = {}

RootProbes ==
    /\ root = "probing"
    /\ \A p \in Providers : LockedIdle(p)
    /\ recoveryFile' = FALSE
    /\ root' = "committing"
    /\ UNCHANGED <<record, unit, tombs, cap, glock, panicFile, masked, kind, proved, retained,
                   calm>>
    /\ NoSuper /\ RootOnly

\* rollback
RootRollsBack ==
    /\ root \in {"probing", "committing"}
    /\ \E ps \in SUBSET Providers : \E locked \in SUBSET ps :
          /\ Down(ps)
          /\ fence' = [p \in Providers |-> fence[p] \/ p \in locked]
    /\ masked' \in {masked, TRUE} /\ recoveryFile' = FALSE
    /\ Ends
    /\ UNCHANGED <<record, unit, tombs, cap, panicFile, calm>>

RootCommits ==
    /\ root = "committing"
    /\ panicFile' = FALSE
    /\ calm' = FALSE
    /\ Ends
    /\ UNCHANGED <<record, unit, tombs, cap, glock, recoveryFile, masked>>
    /\ NoSuper /\ RootOnly

\* the transaction is killed, or throws
RootDies ==
    /\ root # "idle"
    /\ Ends
    /\ UNCHANGED <<record, unit, tombs, cap, glock, fileVars, calm>>
    /\ NoSuper /\ RootOnly

Root == \/ RootStops \/ RootMasks \/ RootRetained \/ RootUnits \/ RootEgress \/ RootClears
        \/ RootRestarts \/ RootProbes \/ RootRollsBack \/ RootCommits \/ RootDies

-----------------------------------------------------------------------------
\* what a launch and a transaction come to, and what may cut them short
Course ==
    \/ \E l \in Launches :
          \/ Admit(l) \/ Launcher(l) \/ Watching(l)
          \/ Arrives(l) \/ Intent(l) \/ Spawn(l) \/ Mark(l) \/ UnitEnds(l)
    \/ \E p \in Providers : Start(p) \/ Supervise(p)
    \/ Root

Trouble ==
    \/ \E l \in Launches : LauncherDies(l) \/ StopAsked(l) \/ CallFails(l)
    \/ \E p \in Providers :
          Panic(p) \/ Unlock(p) \/ Close(p) \/ Crash(p) \/ EgressRestarts(p)
    \/ RootBegins("panic") \/ RootBegins("unlock")

ProviderNext == Course \/ Trouble

ProviderSpec == ProviderInit /\ [][ProviderNext]_vars
=============================================================================
