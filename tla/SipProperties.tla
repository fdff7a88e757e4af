---------------------------- MODULE SipProperties ----------------------------
(***************************************************************************)
(* What the SIP gateway promises: a call is accepted once, none is live     *)
(* that its store does not know of, and a shutdown leaves none behind.      *)
(***************************************************************************)
EXTENDS SipGateway

\* Types of the store, of the operations and of the provider's calls.
SipTypeOK ==
    /\ row \in [Calls -> RowStates]
    /\ hook \in [Webhooks -> {"none", "verified", "processing", "completed"}]
    /\ healthy \in BOOLEAN
    /\ handling \subseteq Webhooks
    /\ flight \in [Calls -> {"none", "accepting", "rejecting", "connecting", "hanging"}]
    /\ hanging \in [Calls -> SUBSET {"background", "close"}]
    /\ session \in [Calls -> {"none", "connecting", "open"}]
    /\ remote \in [Calls -> {"ringing", "live", "ended"}]
    /\ accepts \in [Calls -> Nat]
    /\ phase \in {"recovering", "serving", "draining", "closing", "stuck", "released", "down"}
    /\ todo \subseteq Calls

\* A call is never accepted a second time, whatever is delivered again and
\* wherever the process died: acceptance is not idempotent at the provider.
AcceptedOnce == \A c \in Calls : accepts[c] <= 1

\* A live call has a row that is recovered, resumed and counted: what is closed
\* or rejected in the store has ended.
LiveIsTracked == \A c \in Calls : remote[c] = "live" => Active(c)

\* what a row may become while its call is hung up
UnsettledOrClosed == {"hangup_intent", "closed", "outcome_unknown"}

\* The operation, the row and the sideband of a call agree.
CallFits(c) ==
    /\ flight[c] = "accepting" => row[c] = "accept_intent"
    /\ flight[c] = "rejecting" => row[c] = "reject_intent" /\ remote[c] # "live"
    /\ flight[c] = "connecting" => row[c] = "sideband_attaching" /\ session[c] = "connecting"
    /\ session[c] = "connecting" => flight[c] = "connecting"
    /\ session[c] = "open" /\ phase \notin {"closing", "stuck"} => row[c] = "attached"
    /\ row[c] = "none" => accepts[c] = 0
    /\ row[c] \in {"none", "reject_intent", "rejected"} => remote[c] # "live"
    /\ flight[c] = "hanging" => row[c] \in UnsettledOrClosed /\ session[c] = "none"
    /\ hanging[c] # {} => row[c] \in UnsettledOrClosed /\ Up
    /\ flight[c] # "none" => phase \in {"recovering", "serving", "draining"}
    /\ session[c] # "none" => phase \notin {"down", "released"}

FlightsFit == \A c \in Calls : CallFits(c)

\* A restart does not serve before it has looked at every call that was attached.
RecoveryFinds ==
    \A c \in Calls : phase = "recovering" /\ row[c] = "attached" => session[c] = "open" \/ c \in todo

\* maxActiveCalls bounds what is live at the provider, and what may become so:
\* an accept or a hangup without an answer keeps its place.
Held == {c \in Calls : remote[c] = "live" \/ (flight[c] = "accepting" /\ remote[c] = "ringing")}

CapacityHolds == IsFiniteSet(ActiveCalls) /\ Cardinality(Held) <= MaxActive

\* Every step keeps the calls, their operations and the provider in agreement:
\* what the safety properties rest on.
SInv == /\ SipTypeOK /\ FlightsFit /\ AcceptedOnce /\ LiveIsTracked
        /\ RecoveryFinds /\ CapacityHolds

\* A call the store calls attached has its sideband: when it closes the call is
\* hung up, unless the store itself failed, which the health endpoint reports.
NoDeafCall ==
    \A c \in Calls : healthy /\ phase = "serving" /\ row[c] = "attached" => session[c] = "open"

\* A shutdown that reports quiescence, and gives up the lock for a successor,
\* leaves no call live.
ReleasedIsQuiet == phase = "released" => \A c \in Calls : remote[c] # "live"

\* README.md: outcome_unknown is for a hangup that cannot be confirmed.  So a
\* call whose hangup was confirmed stays closed.
ConfirmedStaysClosed ==
    [][\A c \in Calls : row[c] = "closed" => row'[c] = "closed"]_vars

-----------------------------------------------------------------------------
(* Liveness.  Requests to the provider and the sideband have timeouts.      *)

SipFairness ==
    /\ \A c \in Calls : WF_vars(Answers(c)) /\ WF_vars(Recover(c))
    /\ \A c \in Calls, who \in {"background", "close"} : WF_vars(HungUpBy(c, who))
    /\ \A w \in Webhooks : WF_vars(Completed(w))
    /\ WF_vars(Listen) /\ WF_vars(GatewayClose) /\ WF_vars(CloseAnswers)

SipLiveSpec == SipSpec /\ SipFairness

\* A shutdown gets an answer: it is quiescent, or it is told to be stuck, or the
\* process is gone.
ShutdownAnswered == phase = "draining" ~> phase \in {"released", "stuck", "down"}
=============================================================================
