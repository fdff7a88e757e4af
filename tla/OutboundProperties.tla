-------------------------- MODULE OutboundProperties --------------------------
(***************************************************************************)
(* What the outbound plane promises: a phone rings once for a request, the   *)
(* store never claims more than the PBX did, a stop that reports quiescence  *)
(* leaves no call, and a callback arrives.                                  *)
(***************************************************************************)
EXTENDS OutboundCalls

OutboundTypeOK ==
    /\ row \in [Calls -> RowStates]
    /\ asked \in [Calls -> BOOLEAN]
    /\ barrier \in [Calls -> {"none", "armed", "resolved"}]
    /\ lockRow \in BOOLEAN
    /\ outbox \in [Calls -> Due \cup {"none", "awaiting_outbound", "delivered", "failed",
                                     "outcome_unknown"}]
    /\ bound \in [Calls -> BOOLEAN]
    /\ at \in [Calls -> {"none", "endpoint", "inviting", "answered", "talking", "done",
                        "broken", "failing"}]
    /\ aborted \in [Calls -> BOOLEAN]
    /\ clean \in [Calls -> {"no", "under way", "ok", "failed"}]
    /\ why \in [Calls -> {"none", "known", "unclear", "remote"}]
    /\ leg \in [Calls -> {"none", "ringing", "up", "refused", "gone"}]
    /\ dials \in [Calls -> Nat]
    /\ phase \in {"down", "starting", "up"}
    /\ accepting \in BOOLEAN /\ locked \in BOOLEAN
    /\ stopping = NoStop \/ stopping \subseteq Calls
    /\ verdict \in {"none", "quiesced", "unconfirmed"}
    /\ busy \in [Calls -> {"no", "claiming", "sent"}]
    /\ wire \in [Calls -> BOOLEAN]
    /\ timer \in BOOLEAN

\* The phone rings at most once for one request, however often it is posted and
\* wherever the process died.
DialedOnce == \A c \in Calls : dials[c] <= 1

\* The store is not wrong about the PBX: a call recorded as completed, failed or
\* canceled is no longer there.
CallQuiet(c) == row[c] \in {"completed", "failed", "canceled"} => leg[c] \notin {"ringing", "up"}

TerminalIsQuiet == \A c \in Calls : CallQuiet(c)

\* A callback is delivered, failed or unknown exactly as its call is.
OutboxTold(c) ==
    IF bound[c] THEN row[c] # "none" /\ outbox[c] = OutboxOf(row[c])
                ELSE outbox[c] \in Due \cup {"none"}

OutboxTells == \A c \in Calls : OutboxTold(c)

\* Rows, operations and the PBX agree.
OperationFits(c) ==
    /\ at[c] # "none" => row[c] \in {"dial_intent", "cancel_requested"} /\ Running
    /\ row[c] \in {"none", "queued"} => leg[c] = "none" /\ dials[c] = 0 /\ ~asked[c]
    /\ Running /\ row[c] \in {"dial_intent", "cancel_requested"} => at[c] # "none"
    /\ at[c] = "none" => ~aborted[c] /\ clean[c] = "no" /\ why[c] = "none"
    /\ at[c] = "endpoint" => leg[c] = "none" /\ dials[c] = 0 /\ why[c] = "none" /\ clean[c] = "no"
    /\ at[c] = "inviting" => leg[c] # "none" /\ clean[c] = "no" /\ why[c] = "none"
    /\ at[c] \in {"answered", "talking", "done", "broken"} =>
          leg[c] \in {"up", "gone"} /\ why[c] \in {"none", "remote"}
    /\ at[c] \in {"done", "broken", "failing"} => clean[c] # "no"
    /\ at[c] = "failing" /\ why[c] # "unclear" => leg[c] # "ringing"
    /\ why[c] = "known" => leg[c] = "refused"
    /\ clean[c] = "ok" /\ why[c] # "unclear" => leg[c] # "up"
    /\ row[c] = "outcome_unknown" => barrier[c] # "none"
    /\ barrier[c] # "none" => row[c] = "outcome_unknown"
    /\ barrier[c] = "resolved" => leg[c] \notin {"ringing", "up"}

OperationsFit == \A c \in Calls : OperationFits(c)

\* A plane with an unresolved barrier accepts nothing.
BarrierCloses == Running /\ accepting => Barriers = {}

OInv == OutboundTypeOK /\ DialedOnce /\ TerminalIsQuiet /\ OutboxTells /\ OperationsFit /\ BarrierCloses

\* A stop that reports quiescence is true: until the plane accepts again no call
\* is at the PBX and none is about to be.
QuietStop ==
    verdict = "quiesced" =>
        \A c \in Calls : leg[c] \notin {"ringing", "up"} /\ at[c] = "none" /\ row[c] # "queued"

\* README-OUTBOUND.md: while a barrier is unresolved not even a queued call is
\* claimed.
NoClaimUnderBarrier ==
    [][\A c \in Calls : row[c] \in {"none", "queued"} /\ row'[c] = "dial_intent" => Barriers = {}]_vars

\* README-OUTBOUND.md: the plane is locked until the operator has verified
\* quiescence offline.  So, all barriers resolved and nothing under way, the
\* unlock of a locked plane finds nothing left.
ResolvedUnlocks ==
    Running /\ locked /\ Operations = {} /\ ActiveCalls = {} /\ Barriers = {} => NothingLeft

-----------------------------------------------------------------------------
(* Liveness, stated for callbacks: nobody waits for the answer to one.  The  *)
(* supervisor restarts the application; SIP transactions have timers; a      *)
(* conversation is bounded; the requests of a callback are repeated until one *)
(* arrives.                                                                 *)

OutboundFairness ==
    /\ WF_vars(Start) /\ WF_vars(Resume)
    /\ \A c \in Callbacks :
          /\ WF_vars(CallSteps(c))
          /\ SF_vars(Request(c)) /\ SF_vars(Claim(c))
          /\ WF_vars(ClaimNothing(c)) /\ WF_vars(Answer(c)) /\ WF_vars(Drain(c))

OutboundLiveSpec == OutboundSpec /\ OutboundFairness

\* A canceled call comes to an end, by its operation or by the next start; and a
\* callback reaches the plane once the plane is open for good: no lost answer and
\* no restart leaves it waiting.
CallsSettle ==
    /\ \A c \in Callbacks : row[c] = "cancel_requested" ~> row[c] \in Terminal
    /\ <>[](Running /\ accepting) => \A c \in Callbacks : outbox[c] = "pending" ~> bound[c]
=============================================================================
