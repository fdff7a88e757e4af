---------------------------- MODULE OutboundCalls ----------------------------
(***************************************************************************)
(* The outbound plane of the voice application: durable call requests, one  *)
(* dial for each, its stop and unlock, the barrier a call of unknown outcome *)
(* leaves behind, and the outbox of callbacks that feed the plane.          *)
(***************************************************************************)
EXTENDS Naturals, FiniteSets

CONSTANTS Calls,      \* idempotency keys
          Callbacks   \* those of job callbacks; the others are of API clients

ASSUME OutboundAssumption == Callbacks \subseteq Calls

VARIABLES row,      \* state in outbound_call_inbox, "none" without a row
          asked,    \* cancellation_requested_at is set
          barrier,  \* recovery barrier: "none", "armed" or "resolved"
          lockRow,  \* the execution lock on disk
          outbox,   \* state in job_callback_outbox, "none" without a row
          bound,    \* it names its outbound call
          at,       \* where the operation of a call is, "none" without one
          aborted,  \* its AbortController
          clean,    \* its cleanup
          why,      \* what ended its dial or its conversation
          leg,      \* the call at the PBX
          dials,    \* INVITEs sent
          phase,    \* the process: "down", "starting" or "up"
          accepting, locked,  \* outboundAccepting, outboundPanicLocked
          stopping, \* operations stopOutboundPlane waits for, {"none"} without one
          verdict,  \* what the last one reported
          busy,     \* callbackDeliveries
          wire,     \* a callback's request under way to the plane
          timer     \* callbackRetryTimer

callVars   == <<row, asked, barrier>>
boxVars    == <<outbox, bound>>
opVars     == <<at, aborted, clean, why>>
pbxVars    == <<leg, dials>>
planeVars  == <<accepting, locked>>
senderVars == <<busy, wire, timer>>
vars == <<callVars, lockRow, boxVars, opVars, pbxVars, phase, planeVars, stopping, verdict,
          senderVars>>

Terminal     == {"completed", "failed", "canceled", "outcome_unknown"}
ActiveStates == {"queued", "dial_intent", "cancel_requested"}
RowStates    == ActiveStates \cup Terminal \cup {"none"}
Due          == {"pending", "delivering"}
NoStop       == {"none"}

Running     == phase # "down"
Operations  == {c \in Calls : at[c] # "none"}
ActiveCalls == {c \in Calls : row[c] \in ActiveStates}
Barriers    == {c \in Calls : barrier[c] = "armed"}
Unconfirmed == {c \in Calls : asked[c] /\ row[c] \in {"cancel_requested", "outcome_unknown"}}

OutboundInit ==
    /\ row = [c \in Calls |-> "none"]
    /\ asked = [c \in Calls |-> FALSE]
    /\ barrier = [c \in Calls |-> "none"]
    /\ lockRow = FALSE
    /\ outbox = [c \in Calls |-> "none"]
    /\ bound = [c \in Calls |-> FALSE]
    /\ at = [c \in Calls |-> "none"]
    /\ aborted = [c \in Calls |-> FALSE]
    /\ clean = [c \in Calls |-> "no"]
    /\ why = [c \in Calls |-> "none"]
    /\ leg = [c \in Calls |-> "none"]
    /\ dials = [c \in Calls |-> 0]
    /\ phase = "down"
    /\ accepting = FALSE
    /\ locked = FALSE
    /\ stopping = NoStop
    /\ verdict = "none"
    /\ busy = [c \in Calls |-> "no"]
    /\ wire = [c \in Calls |-> FALSE]
    /\ timer = FALSE

-----------------------------------------------------------------------------
(* The store.                                                               *)

\* the outbox state that belongs to a state of the call
OutboxOf(state) ==
    CASE state = "completed" -> "delivered"
      [] state \in {"failed", "canceled"} -> "failed"
      [] state = "outcome_unknown" -> "outcome_unknown"
      [] OTHER -> "awaiting_outbound"

\* bug: only a completed call is passed on
ReconciledDelivered(rows) ==
    outbox' = [c \in Calls |->
        IF bound[c] /\ rows[c] = "completed" THEN "delivered" ELSE outbox[c]]

\* _reconcileCallbackForOutbound, in the transaction that writes rows
Reconciled(rows) ==
    outbox' = [c \in Calls |->
        IF bound[c] /\ outbox[c] # "delivered" THEN OutboxOf(rows[c]) ELSE outbox[c]]

\* requestOutboundCallCancellation
CanceledRow(c) ==
    CASE row[c] = "queued" -> "canceled"
      [] row[c] = "dial_intent" -> "cancel_requested"
      [] OTHER -> row[c]

CancelRows(S) ==
    LET rows == [c \in Calls |-> IF c \in S THEN CanceledRow(c) ELSE row[c]] IN
    /\ row' = rows
    /\ asked' = [c \in Calls |-> asked[c] \/ rows[c] # row[c]]
    /\ Reconciled(rows)
    /\ UNCHANGED <<barrier, bound>>

\* markOutboundCallTerminal of c, and refreshRecoveryBarrier after an unknown
\* outcome
MarkTerminal(c, state) ==
    LET rows == [row EXCEPT ![c] = state] IN
    /\ row' = rows
    /\ Reconciled(rows)
    /\ IF state = "outcome_unknown"
       THEN /\ barrier' = [barrier EXCEPT ![c] = "armed"]
            /\ accepting' = FALSE
            /\ locked' = TRUE
       ELSE UNCHANGED <<barrier, planeVars>>
    /\ UNCHANGED <<asked, bound>>

-----------------------------------------------------------------------------
(* A request: reserved, bound to its outbox row, and claimed before anything *)
(* else can run.                                                            *)

\* reserveOutboundCall; a row that exists stays as it is
Reserved(c) ==
    LET rows == [row EXCEPT ![c] = IF @ = "none" THEN "queued" ELSE @] IN
    /\ bound' = [bound EXCEPT ![c] = @ \/ outbox[c] # "none"]
    /\ outbox' = [outbox EXCEPT ![c] =
           IF @ \in {"none", "delivered"} THEN @ ELSE OutboxOf(rows[c])]

CanReach(c) == IF c \in Callbacks THEN wire[c] ELSE TRUE

\* POST /outbound-call while the plane accepts
Request(c) ==
    /\ Running /\ accepting
    /\ CanReach(c)
    /\ wire' = [wire EXCEPT ![c] = FALSE]
    /\ Reserved(c)
    /\ IF row[c] \in {"none", "queued"}
       THEN /\ row' = [row EXCEPT ![c] = "dial_intent"]
            /\ at' = [at EXCEPT ![c] = "endpoint"]
       ELSE UNCHANGED <<row, at>>
    /\ verdict' = "none"
    /\ UNCHANGED <<asked, barrier, lockRow, aborted, clean, why, pbxVars, phase, planeVars,
                   stopping, busy, timer>>

\* a plane that does not accept answers 503
Refuse(c) ==
    /\ Running /\ ~accepting
    /\ c \in Callbacks /\ wire[c]
    /\ wire' = [wire EXCEPT ![c] = FALSE]
    /\ UNCHANGED <<callVars, lockRow, boxVars, opVars, pbxVars, phase, planeVars, stopping,
                   verdict, busy, timer>>

\* what a crash leaves of the process and of the requests to it
Gone ==
    /\ phase' = "down"
    /\ at' = [c \in Calls |-> "none"]
    /\ aborted' = [c \in Calls |-> FALSE]
    /\ clean' = [c \in Calls |-> "no"]
    /\ why' = [c \in Calls |-> "none"]
    /\ accepting' = FALSE
    /\ locked' = FALSE
    /\ stopping' = NoStop
    /\ verdict' = "none"
    /\ busy' = [c \in Calls |-> "no"]
    /\ wire' = [c \in Calls |-> FALSE]
    /\ timer' = FALSE

\* the process dies between the reservation and the claim
RequestAndDie(c) ==
    /\ Running /\ accepting
    /\ CanReach(c)
    /\ row[c] = "none"
    /\ Reserved(c)
    /\ row' = [row EXCEPT ![c] = "queued"]
    /\ Gone
    /\ UNCHANGED <<asked, barrier, lockRow, pbxVars>>

-----------------------------------------------------------------------------
(* One dial: initiateOutboundCall and the conversation.                     *)

\* an operation moves on, its request unharmed
Moves(c, to) ==
    /\ at' = [at EXCEPT ![c] = to]
    /\ UNCHANGED <<callVars, lockRow, boxVars, aborted, phase, planeVars, stopping, verdict,
                   senderVars>>

StartCleanup(c) == clean' = [clean EXCEPT ![c] = IF @ = "no" THEN "under way" ELSE @]

EndpointReady(c) ==
    /\ at[c] = "endpoint"
    /\ IF aborted[c]
       THEN Moves(c, "failing") /\ StartCleanup(c) /\ UNCHANGED <<why, pbxVars>>
       ELSE /\ Moves(c, "inviting")
            /\ leg' = [leg EXCEPT ![c] = "ringing"]
            /\ dials' = [dials EXCEPT ![c] = @ + 1]
            /\ UNCHANGED <<clean, why>>

EndpointFails(c) ==
    /\ at[c] = "endpoint"
    /\ Moves(c, "failing")
    /\ clean' = [clean EXCEPT ![c] = "ok"]
    /\ UNCHANGED <<why, pbxVars>>

\* createUAC answers with a dialog
Answered(c) ==
    /\ at[c] = "inviting"
    /\ leg[c] \in {"up", "gone"}
    /\ IF aborted[c]
       THEN Moves(c, "failing") /\ StartCleanup(c)
       ELSE Moves(c, "answered") /\ UNCHANGED clean
    /\ UNCHANGED <<why, pbxVars>>

\* createUAC fails: with a final status, or without one
InviteFails(c) ==
    /\ at[c] = "inviting"
    /\ Moves(c, "failing")
    /\ StartCleanup(c)
    /\ \/ leg[c] = "refused" /\ why' = [why EXCEPT ![c] = "known"]
       \/ why' = [why EXCEPT ![c] = "unclear"]
    /\ UNCHANGED pbxVars

\* endpoint.modify; the hangup of the other side is heard from here on
MediaReady(c) ==
    /\ at[c] = "answered"
    /\ ~aborted[c]
    /\ Moves(c, "talking")
    /\ UNCHANGED <<clean, why, pbxVars>>

MediaFails(c) ==
    /\ at[c] = "answered"
    /\ Moves(c, "failing")
    /\ StartCleanup(c)
    /\ UNCHANGED <<why, pbxVars>>

\* playMessage or the conversation returns
TalkEnds(c) ==
    /\ at[c] = "talking"
    /\ Moves(c, IF aborted[c] THEN "broken" ELSE "done")
    /\ StartCleanup(c)
    /\ UNCHANGED <<why, pbxVars>>

TalkFails(c) ==
    /\ at[c] = "talking"
    /\ Moves(c, "broken")
    /\ StartCleanup(c)
    /\ UNCHANGED <<why, pbxVars>>

\* dialog.destroy and endpoint.destroy; without a dialog the call at the PBX is
\* out of reach
CleanupEnds(c) ==
    /\ clean[c] = "under way"
    /\ Moves(c, at[c])
    /\ \/ /\ clean' = [clean EXCEPT ![c] = "ok"]
          /\ leg' = [leg EXCEPT ![c] =
                IF why[c] # "unclear" /\ @ = "up" THEN "gone" ELSE @]
       \/ /\ clean' = [clean EXCEPT ![c] = "failed"]
          /\ UNCHANGED leg
    /\ UNCHANGED <<why, dials>>

\* bug: an INVITE without an answer counts as ended
OutcomeTrusting(c) ==
    IF at[c] = "done" /\ clean[c] = "ok" THEN "completed"
    ELSE IF clean[c] # "ok" THEN "outcome_unknown"
    ELSE IF aborted[c] THEN "canceled"
    ELSE CASE why[c] = "remote" -> "completed"
           [] why[c] = "known" -> "failed"
           [] OTHER -> "outcome_unknown"

\* what scheduleOutboundCall makes of the end of an operation
Outcome(c) ==
    IF at[c] = "done" /\ clean[c] = "ok" THEN "completed"
    ELSE IF clean[c] # "ok" \/ why[c] = "unclear" THEN "outcome_unknown"
    ELSE IF aborted[c] THEN "canceled"
    ELSE CASE why[c] = "remote" -> "completed"
           [] why[c] = "known" -> "failed"
           [] OTHER -> "outcome_unknown"

Ends(c) ==
    /\ at[c] \in {"done", "broken", "failing"}
    /\ clean[c] \in {"ok", "failed"}
    /\ at' = [at EXCEPT ![c] = "none"]
    /\ aborted' = [aborted EXCEPT ![c] = FALSE]
    /\ clean' = [clean EXCEPT ![c] = "no"]
    /\ why' = [why EXCEPT ![c] = "none"]
    /\ UNCHANGED <<lockRow, pbxVars, phase, stopping, verdict, senderVars>>

Finish(c) == Ends(c) /\ MarkTerminal(c, Outcome(c))

\* the catch around it: what the terminal write could not record is unknown
FinishUnrecorded(c) == Ends(c) /\ MarkTerminal(c, "outcome_unknown")

-----------------------------------------------------------------------------
(* The PBX: its calls go on whatever becomes of the process.                *)

PbxOnly ==
    UNCHANGED <<callVars, lockRow, boxVars, at, aborted, dials, phase, planeVars, stopping,
                verdict, senderVars>>

PbxAnswers(c) ==
    /\ leg[c] = "ringing"
    /\ leg' = [leg EXCEPT ![c] = "up"]
    /\ PbxOnly /\ UNCHANGED <<clean, why>>

PbxRefuses(c) ==
    /\ leg[c] = "ringing"
    /\ leg' = [leg EXCEPT ![c] = "refused"]
    /\ PbxOnly /\ UNCHANGED <<clean, why>>

\* the other side hangs up: remote_hangup of a session that has its dialog
RemoteHangup(c) ==
    /\ leg[c] = "up"
    /\ leg' = [leg EXCEPT ![c] = "gone"]
    /\ IF at[c] = "talking"
       THEN why' = [why EXCEPT ![c] = "remote"] /\ StartCleanup(c)
       ELSE UNCHANGED <<why, clean>>
    /\ PbxOnly

-----------------------------------------------------------------------------
(* Cancel, stop and unlock.                                                 *)

\* interruptOutboundOperation: before the dialog is published there is nothing
\* to tear down yet
Interrupt(S) ==
    /\ aborted' = [c \in Calls |-> aborted[c] \/ c \in S]
    /\ clean' = [c \in Calls |->
          IF c \in S /\ at[c] \in {"answered", "talking"} /\ clean[c] = "no"
          THEN "under way" ELSE clean[c]]
    /\ UNCHANGED <<at, why>>

\* cancelOutboundCall
Cancel(c) ==
    /\ Running
    /\ row[c] # "none"
    /\ CancelRows({c})
    /\ Interrupt({c} \cap Operations)
    /\ UNCHANGED <<lockRow, pbxVars, phase, planeVars, stopping, verdict, senderVars>>

\* the broker persists its lock before it stops the plane
LockExecution ==
    /\ Running
    /\ lockRow' = TRUE
    /\ UNCHANGED <<callVars, boxVars, opVars, pbxVars, phase, planeVars, stopping, verdict,
                   senderVars>>

\* stopOutboundPlane up to its first await: of a panic, or of the shutdown,
\* which calls off what was queued at the start
Stop(lock) ==
    /\ Running
    /\ stopping = NoStop
    /\ lock => lockRow
    /\ accepting' = FALSE
    /\ locked' = (locked \/ lock)
    /\ CancelRows(ActiveCalls)
    /\ Interrupt(Operations)
    /\ stopping' = Operations
    /\ verdict' = "none"
    /\ phase' = IF lock THEN phase ELSE "up"
    /\ UNCHANGED <<lockRow, pbxVars, senderVars>>

\* bug: the report looks at the operations alone
NothingRuns == Operations = {}

\* the plane holds nothing that may still be a call
NothingLeft == Operations = {} /\ Unconfirmed = {} /\ ActiveCalls = {} /\ Barriers = {}

\* its answer, which waits for the cleanups and a bounded time for the rest
StopAnswers ==
    /\ stopping # NoStop
    /\ \A c \in stopping : ~(at[c] \in {"talking", "done", "broken"} /\ clean[c] = "under way")
    /\ verdict' \in IF NothingLeft THEN {"quiesced", "unconfirmed"} ELSE {"unconfirmed"}
    /\ stopping' = NoStop
    /\ IF Barriers # {} THEN accepting' = FALSE /\ locked' = TRUE ELSE UNCHANGED planeVars
    /\ UNCHANGED <<callVars, lockRow, boxVars, opVars, pbxVars, phase, senderVars>>

\* unlockOutboundCalls as the broker's unlock calls it; it is ready or it is not.
\* An unlock that goes through ends with recoverDurableJobs.
Unlock ==
    /\ Running
    /\ NothingLeft
    /\ \E ready \in BOOLEAN :
          /\ accepting' = ready
          /\ locked' = ~ready
          /\ lockRow' = (lockRow /\ ~ready)
          /\ busy' = [c \in Calls |->
                IF ready /\ outbox[c] = "pending" /\ busy[c] = "no" THEN "claiming" ELSE busy[c]]
          /\ timer' = (timer \/ (ready /\ \E c \in Calls : outbox[c] \in Due))
    /\ verdict' = "none"
    /\ UNCHANGED <<callVars, boxVars, opVars, pbxVars, phase, stopping, wire>>

-----------------------------------------------------------------------------
(* Crash, restart and the operator's resolution of a barrier in between.    *)

Crash ==
    /\ Running
    /\ Gone
    /\ UNCHANGED <<callVars, lockRow, boxVars, pbxVars>>

\* recoverInterruptedOutboundCalls
RecoveredRow(c) ==
    IF row[c] \in {"dial_intent", "cancel_requested"} THEN "outcome_unknown" ELSE row[c]

\* bug: the new plane looks at the lock alone
StartOpen(barriers) == lockRow

\* setupRoutes: why a new plane is locked
StartLocked(barriers) == lockRow \/ \E c \in Calls : barriers[c] = "armed"

Start ==
    LET rows     == [c \in Calls |-> RecoveredRow(c)]
        barriers == [c \in Calls |-> IF rows[c] # row[c] THEN "armed" ELSE barrier[c]]
    IN
    /\ phase = "down"
    /\ phase' = "starting"
    /\ row' = rows
    /\ barrier' = barriers
    /\ Reconciled(rows)
    /\ locked' = StartLocked(barriers)
    /\ accepting' = ~StartLocked(barriers)
    /\ busy' = [c \in Calls |-> IF outbox[c] = "pending" THEN "claiming" ELSE "no"]
    /\ timer' = (\E c \in Calls : outbox[c] \in Due)
    /\ UNCHANGED <<asked, lockRow, bound, opVars, pbxVars, stopping, verdict, wire>>

\* the setImmediate of setupRoutes resumes what is queued
Resume ==
    LET queued == {c \in Calls : accepting /\ Barriers = {} /\ row[c] = "queued"} IN
    /\ phase = "starting"
    /\ phase' = "up"
    /\ row' = [c \in Calls |-> IF c \in queued THEN "dial_intent" ELSE row[c]]
    /\ at' = [c \in Calls |-> IF c \in queued THEN "endpoint" ELSE at[c]]
    /\ UNCHANGED <<asked, barrier, lockRow, boxVars, aborted, clean, why, pbxVars, planeVars,
                   stopping, verdict, senderVars>>

\* resolveOutboundRecoveryBarrier, under the fence and after the operator has
\* seen the call gone
Resolve(c) ==
    /\ phase = "down"
    /\ barrier[c] = "armed"
    /\ leg[c] \notin {"ringing", "up"}
    /\ barrier' = [barrier EXCEPT ![c] = "resolved"]
    /\ UNCHANGED <<row, asked, lockRow, boxVars, opVars, pbxVars, phase, planeVars, stopping,
                   verdict, senderVars>>

-----------------------------------------------------------------------------
(* Callbacks.  The outbox row is written with the end of the job; one         *)
(* delivery of it is under way at a time.                                   *)

SenderOnly == UNCHANGED <<callVars, lockRow, opVars, pbxVars, phase, planeVars, stopping, verdict>>

\* a job ends, and its callback is dispatched
Enqueue(c) ==
    /\ Running
    /\ c \in Callbacks /\ outbox[c] = "none"
    /\ outbox' = [outbox EXCEPT ![c] = "pending"]
    /\ busy' = [busy EXCEPT ![c] = "claiming"]
    /\ UNCHANGED <<bound, wire, timer>>
    /\ SenderOnly

\* bug: an answer that was lost is not followed by another attempt
KeepTimer == UNCHANGED timer

\* _scheduleCallbackDrain
Rearm == timer' = (\E c \in Calls : outbox'[c] \in Due)

\* claimCallbackOutbox of a row that is due: pending, or its lease has run out
Claim(c) ==
    /\ busy[c] = "claiming"
    /\ outbox[c] \in Due
    /\ outbox' = [outbox EXCEPT ![c] = "delivering"]
    /\ busy' = [busy EXCEPT ![c] = "sent"]
    /\ wire' = [wire EXCEPT ![c] = TRUE]
    /\ UNCHANGED <<bound, timer>>
    /\ SenderOnly

\* of one that is not, or not yet
ClaimNothing(c) ==
    /\ busy[c] = "claiming"
    /\ outbox[c] # "pending"
    /\ busy' = [busy EXCEPT ![c] = "no"]
    /\ UNCHANGED <<boxVars, wire>>
    /\ Rearm
    /\ SenderOnly

\* retryCallbackOutbox
Retried(c) ==
    outbox' = [outbox EXCEPT ![c] = IF @ = "delivering" THEN "pending" ELSE @]

\* the request is answered, or given up and perhaps still under way: a durable
\* handoff is enough, all else is tried again
Answer(c) ==
    /\ busy[c] = "sent"
    /\ busy' = [busy EXCEPT ![c] = "no"]
    /\ wire' \in {wire, [wire EXCEPT ![c] = FALSE]}
    /\ Retried(c)
    /\ Rearm
    /\ UNCHANGED bound
    /\ SenderOnly

\* _drainPendingCallbacks finds a row due
Drain(c) ==
    /\ Running /\ timer
    /\ outbox[c] \in Due /\ busy[c] = "no"
    /\ busy' = [busy EXCEPT ![c] = "claiming"]
    /\ UNCHANGED <<boxVars, wire, timer>>
    /\ SenderOnly

-----------------------------------------------------------------------------
CallSteps(c) ==
    \/ EndpointReady(c) \/ EndpointFails(c) \/ Answered(c) \/ InviteFails(c)
    \/ MediaReady(c) \/ MediaFails(c) \/ TalkEnds(c) \/ TalkFails(c)
    \/ CleanupEnds(c) \/ Finish(c) \/ FinishUnrecorded(c)

PbxSteps(c) == PbxAnswers(c) \/ PbxRefuses(c) \/ RemoteHangup(c)

CallbackSteps(c) == Claim(c) \/ ClaimNothing(c) \/ Answer(c) \/ Drain(c)

OutboundNext ==
    \/ \E c \in Calls :
          \/ Request(c) \/ RequestAndDie(c) \/ Refuse(c) \/ Cancel(c) \/ Resolve(c)
          \/ CallSteps(c) \/ PbxSteps(c) \/ CallbackSteps(c) \/ Enqueue(c)
    \/ \E lock \in BOOLEAN : Stop(lock)
    \/ LockExecution \/ StopAnswers \/ Unlock \/ Crash \/ Start \/ Resume

OutboundSpec == OutboundInit /\ [][OutboundNext]_vars
=============================================================================
