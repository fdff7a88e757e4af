-------------------------- MODULE ProviderProperties --------------------------
(***************************************************************************)
(* What the provider planes promise: one model at a time, a stop that       *)
(* covers what cannot be seen, and answers a caller may act on.             *)
(***************************************************************************)
EXTENDS ProviderLaunch

\* Types of the boundary's files and units, of the supervisors and of root.
BoundaryTypes ==
    /\ launcher \in [Launches -> {"none", "starting", "held", "planned", "registered", "admitted",
                                  "running", "unwinding", "revoking", "stranded", "gone"}]
    /\ record \in [Launches -> {"none", "planned", "intent", "spawned"}]
    /\ unit \in [Launches -> {"absent", "sent", "boundary", "intending", "provider"}]
    /\ cap \in [Launches -> {"none", "active", "revoked"}]
    /\ ran \subseteq Launches /\ tombs \subseteq Launches
    /\ glock \in Launches \cup {NoLaunch}
PlaneTypes ==
    /\ sup \in [Providers -> {"down", "starting", "up", "closing"}]
    /\ fence \in [Providers -> BOOLEAN] /\ sure \in [Providers -> BOOLEAN]
    /\ ctl \in [Providers -> {"none", "panic", "unproved", "unlock"}]
    /\ rec \in [Providers -> {"none", "egress", "units", "loose", "purge", "failed"}]
WatchTypes ==
    /\ live \subseteq Launches /\ attempted \subseteq Launches /\ inspected \subseteq Launches
    /\ sawUnit \in [Launches -> {"none", "absent", "sent", "shown"}]
    /\ sawRecord \in [Launches -> {"none", "missing", "planned", "intent", "spawned"}]
    /\ told \in [Launches -> {"nothing", "accepted", "exit", "unknown", "notStarted"}]
    /\ term \in [Launches -> {"none", "asked", "cut", "loose", "drain"}]
RootTypes ==
    /\ panicFile \in BOOLEAN /\ recoveryFile \in BOOLEAN /\ masked \in BOOLEAN
    /\ root \in {"idle", "stopping", "masking", "retained", "units", "egress", "clearing",
                 "restarting", "probing", "committing"}
    /\ kind \in {"none", "panic", "unlock"} /\ proved \in BOOLEAN
    /\ retained \in Launches \cup {NoLaunch} /\ calm \in BOOLEAN
PTypeOK == BoundaryTypes /\ PlaneTypes /\ WatchTypes /\ RootTypes

\* A unit that shows, and a request that may still reach systemd, hold the global
\* launch lock through whatever became of their launcher; a canceled request need not.
LockIsHeld ==
    \A l \in Launches :
        /\ launcher[l] \notin {"none", "starting", "gone"} => glock = l
        /\ launcher[l] \notin {"running", "stranded", "gone"} => unit[l] = "absent"
        /\ Visible(l) => glock = l
        /\ unit[l] = "sent" => glock = l \/ l \in tombs

\* What root has established at each stage of a stop still holds there, whatever
\* supervisors and launches do meanwhile, and behind a stop answered quiesced too.
RootGains ==
    LET past(stages) == calm \/ (proved /\ root \in stages) IN
    /\ root # "idle" \/ calm => panicFile
    /\ past({"masking", "retained", "units", "egress", "clearing"}) =>
          \A l \in Launches : /\ launcher[l] \in {"none", "starting", "held", "gone"}
                              /\ sawUnit[l] # "sent"
                              /\ l \in live => unit[l] = "absent"
    /\ past({"units", "egress", "clearing"}) =>
          \A l \in Launches : unit[l] = "sent" => l \in tombs
    /\ past({"egress", "clearing"}) => \A l \in Launches : ~Visible(l)
    /\ past({"clearing"}) => \A l \in Launches : cap[l] # "active"

\* After a root stop was answered quiesced nothing of a model runs, no request to
\* start one is under way that is not canceled, and no capability is left.
PanicMeansStopped ==
    calm => \A l \in Launches : /\ ~Visible(l)
                                /\ unit[l] = "sent" => l \in tombs
                                /\ cap[l] # "active"

\* The readiness record, while there is one, is behind what the unit does; what is
\* drained was canceled before, and nothing was missed.
RecordsFit ==
    \A l \in Launches :
        /\ launcher[l] \in {"none", "starting", "held"} => record[l] = "none"
        /\ launcher[l] \notin {"running", "revoking", "stranded", "gone"} => l \notin ran
        /\ unit[l] = "sent" => l \notin ran
        /\ record[l] = "planned" => l \notin ran /\ unit[l] \notin {"intending", "provider"}
        /\ record[l] = "spawned" \/ unit[l] = "provider" \/ told[l] = "accepted" => l \in ran
        /\ term[l] \in {"cut", "loose", "drain"} => l \in tombs
        /\ term[l] = "drain" => ~Visible(l)
        /\ term[l] = "drain" /\ l \in live \ attempted /\ told[l] # "accepted" => l \notin ran

\* What the status call of a launcher that is gone has read is still true, but for a
\* request it could not see: that one came to nothing, or its launch holds the lock.
LooksFit ==
    \A l \in Launches :
        /\ sawUnit[l] # "none" => launcher[l] = "gone"
        /\ sawUnit[l] = "none" => sawRecord[l] = "none"
        /\ sawRecord[l] = "spawned" => l \in ran
        /\ sawUnit[l] = "absent" => unit[l] = "absent"
        /\ sawUnit[l] = "absent" /\ sawRecord[l] = "planned" => l \notin ran
        /\ sawUnit[l] = "sent" => glock = l \/ (unit[l] \in {"absent", "sent"} /\ l \notin ran)

\* Every step keeps the lock with its launch, root's gains and the records: what
\* the safety properties rest on.
PInv == PTypeOK /\ LockIsHeld /\ RootGains /\ RecordsFit /\ LooksFit

\* However launchers, supervisors and root die, one model runs at a time on both
\* planes together.
OneProvider ==
    \A l, m \in Launches : unit[l] = "provider" /\ unit[m] = "provider" => l = m

\* The last frame of a launch is true when it is sent: an exit of a model that
\* did run, PROVIDER_NOT_STARTED of one that did not, and each with no unit left.
\* The one exception is an answer that rests on a status that was taken while the
\* request to start the unit was on its way to systemd; its launch then holds the
\* global lock, so that the retry it invites is refused until root stops the planes.
AnswersAreTrue ==
    [][\A l \in Launches : told'[l] # told[l] =>
          /\ told'[l] \in {"accepted", "exit"} => l \in ran
          /\ told'[l] \in {"exit", "unknown", "notStarted"} =>
                \/ ~Visible(l)' /\ (told'[l] = "notStarted" => l \notin ran)
                \/ sawUnit[l] = "sent" /\ sawUnit'[l] = "none" /\ glock = l]_vars

=============================================================================
