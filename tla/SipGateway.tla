------------------------------ MODULE SipGateway ------------------------------
(***************************************************************************)
(* The Realtime SIP gateway: signed webhooks, the durable calls and webhook *)
(* events, one operation in flight per call, the sideband that controls an  *)
(* accepted call, recovery at start and the shutdown that must end them all.*)
(***************************************************************************)
EXTENDS Naturals, FiniteSets

CONSTANTS Calls,      \* call ids
          Webhooks,   \* webhook ids
          CallOf,     \* the call a webhook is about
          MaxActive   \* config.maxActiveCalls

ASSUME SipAssumption == CallOf \in [Webhooks -> Calls] /\ MaxActive \in Nat

VARIABLES row,        \* state in calls, "none" without a row
          hook,       \* state in webhook_events, "none" without a row
          handling,   \* webhooks whose handler is under way
          flight,     \* the operation of a call in #inFlight, or of recover
          hanging,    \* hangups under way outside of it, and who made them
          session,    \* the sideband
          remote,     \* the call at the provider
          accepts,    \* how often it was asked to accept it
          phase,      \* the process
          todo,       \* what recover has still to look at
          healthy     \* no write of the store has failed

storeVars == <<row, hook, healthy>>
vars == <<storeVars, handling, flight, hanging, session, remote, accepts, phase, todo>>

ActiveStates == {"accept_intent", "accepted", "sideband_attaching", "attached",
                 "reject_intent", "hangup_intent", "outcome_unknown"}
RecoverableStates == {"accepted", "sideband_attaching", "attached"}
RowStates == ActiveStates \cup {"none", "closed", "rejected"}

Active(c)   == row[c] \in ActiveStates
ActiveCalls == {c \in Calls : Active(c)}
InFlight    == {c \in Calls : flight[c] # "none"}
Up          == phase \in {"recovering", "serving", "draining", "closing", "stuck"}

SipInit ==
    /\ row = [c \in Calls |-> "none"]
    /\ hook = [w \in Webhooks |-> "none"]
    /\ healthy = TRUE
    /\ handling = {}
    /\ flight = [c \in Calls |-> "none"]
    /\ hanging = [c \in Calls |-> {}]
    /\ session = [c \in Calls |-> "none"]
    /\ remote = [c \in Calls |-> "ringing"]
    /\ accepts = [c \in Calls |-> 0]
    /\ phase = "recovering"
    /\ todo = {}

-----------------------------------------------------------------------------
(* What operations have in common: each starts with what it writes before    *)
(* its first await.                                                         *)

\* #attachSideband
Attach(c) ==
    /\ row' = [row EXCEPT ![c] = "sideband_attaching"]
    /\ flight' = [flight EXCEPT ![c] = "connecting"]
    /\ session' = [session EXCEPT ![c] = "connecting"]

\* #conservativeHangup in the operation itself; a sideband that did not come
\* up was detached before
Hang(c) ==
    /\ row' = [row EXCEPT ![c] = "hangup_intent"]
    /\ flight' = [flight EXCEPT ![c] = "hanging"]
    /\ session' = [session EXCEPT ![c] = "none"]

\* bug: an interrupted accept is made again
ResumeAccepting(c) ==
    \/ row[c] \in {"closed", "rejected"} /\ UNCHANGED <<row, flight, session, accepts>>
    \/ /\ row[c] \in RecoverableStates
       /\ IF session[c] # "none" THEN UNCHANGED <<row, flight, session>> ELSE Attach(c)
       /\ UNCHANGED accepts
    \/ /\ row[c] = "accept_intent"
       /\ flight' = [flight EXCEPT ![c] = "accepting"]
       /\ accepts' = [accepts EXCEPT ![c] = @ + 1]
       /\ UNCHANGED <<row, session>>
    \/ row[c] \in {"reject_intent", "hangup_intent", "outcome_unknown"} /\ Hang(c) /\ UNCHANGED accepts

\* #resumeExisting: an intent whose outcome is not known ends in a hangup
Resume(c) ==
    /\ \/ row[c] \in {"closed", "rejected"} /\ UNCHANGED <<row, flight, session>>
       \/ /\ row[c] \in RecoverableStates
          /\ IF session[c] # "none" THEN UNCHANGED <<row, flight, session>> ELSE Attach(c)
       \/ /\ row[c] \in {"accept_intent", "reject_intent", "hangup_intent", "outcome_unknown"}
          /\ Hang(c)
    /\ UNCHANGED accepts

\* bug: an unconfirmed call gives up its place
Taken == Cardinality({c \in Calls : Active(c) /\ row[c] # "outcome_unknown"})

\* the rows that count against maxActiveCalls
Reserved == Cardinality(ActiveCalls)

\* #reserveCall of a new call, and what follows it up to the first await
Reserve(c) ==
    /\ row[c] = "none"
    /\ UNCHANGED session
    /\ \/ /\ Reserved < MaxActive
          /\ row' = [row EXCEPT ![c] = "accept_intent"]
          /\ flight' = [flight EXCEPT ![c] = "accepting"]
          /\ accepts' = [accepts EXCEPT ![c] = @ + 1]
       \/ /\ row' = [row EXCEPT ![c] = "reject_intent"]   \* by the policy, or for capacity
          /\ flight' = [flight EXCEPT ![c] = "rejecting"]
          /\ UNCHANGED accepts

-----------------------------------------------------------------------------
(* Webhooks.  The provider delivers one again until it is answered with 200, *)
(* and may do so while the first delivery is still processed.               *)

\* recordVerifiedWebhook, and the operation of a call that has none in flight;
\* while one is in flight the handler only waits for it
Deliver(w) ==
    LET c == CallOf[w] IN
    /\ phase = "serving"
    /\ hook[w] # "completed"
    /\ w \notin handling
    /\ handling' = handling \cup {w}
    /\ IF flight[c] = "none"
       THEN /\ hook' = [hook EXCEPT ![w] = "processing"]
            /\ Reserve(c) \/ Resume(c)
       ELSE /\ hook' = [hook EXCEPT ![w] = IF @ = "none" THEN "verified" ELSE @]
            /\ UNCHANGED <<row, flight, session, accepts>>
    /\ UNCHANGED <<healthy, hanging, remote, phase, todo>>

\* completeWebhook
Completed(w) ==
    /\ w \in handling
    /\ flight[CallOf[w]] = "none"
    /\ handling' = handling \ {w}
    /\ hook' = [hook EXCEPT ![w] = "completed"]
    /\ UNCHANGED <<row, healthy, flight, hanging, session, remote, accepts, phase, todo>>

-----------------------------------------------------------------------------
(* Answers of the provider.  An error leaves it open whether the request    *)
(* was carried out.                                                         *)

Accepted(c) ==
    /\ flight[c] = "accepting"
    /\ remote[c] = "ringing"
    /\ remote' = [remote EXCEPT ![c] = "live"]
    /\ Attach(c)
    /\ UNCHANGED <<hook, healthy, handling, hanging, accepts, phase, todo>>

AcceptUncertain(c) ==
    /\ flight[c] = "accepting"
    /\ \E r \in {remote[c], IF remote[c] = "ringing" THEN "live" ELSE remote[c]} :
          remote' = [remote EXCEPT ![c] = r]
    /\ Hang(c)
    /\ UNCHANGED <<hook, healthy, handling, hanging, accepts, phase, todo>>

Rejected(c) ==
    /\ flight[c] = "rejecting"
    /\ remote' = [remote EXCEPT ![c] = "ended"]
    /\ row' = [row EXCEPT ![c] = "rejected"]
    /\ flight' = [flight EXCEPT ![c] = "none"]
    /\ UNCHANGED <<hook, healthy, handling, hanging, session, accepts, phase, todo>>

RejectUncertain(c) ==
    /\ flight[c] = "rejecting"
    /\ \E r \in {remote[c], "ended"} : remote' = [remote EXCEPT ![c] = r]
    /\ Hang(c)
    /\ UNCHANGED <<hook, healthy, handling, hanging, accepts, phase, todo>>

\* between the open event and the write no other event is handled
Connected(c) ==
    /\ flight[c] = "connecting" /\ session[c] = "connecting"
    /\ remote[c] = "live"
    /\ session' = [session EXCEPT ![c] = "open"]
    /\ row' = [row EXCEPT ![c] = "attached"]
    /\ flight' = [flight EXCEPT ![c] = "none"]
    /\ UNCHANGED <<hook, healthy, handling, hanging, remote, accepts, phase, todo>>

\* no session object, no connection in time, or closed before it opened
ConnectFails(c) ==
    /\ flight[c] = "connecting"
    /\ Hang(c)
    /\ UNCHANGED <<hook, healthy, handling, hanging, remote, accepts, phase, todo>>

\* bug: any error is taken for a call that is gone
HangupTrusting(c) ==
    \/ row' = [row EXCEPT ![c] = "closed"] /\ remote' = [remote EXCEPT ![c] = "ended"]
    \/ row' = [row EXCEPT ![c] = "closed"] /\ UNCHANGED remote

\* how a hangup ends: carried out, the call is gone (404), or not confirmed.
\* What it writes does not depend on the row.
Hangup(c) ==
    \/ row' = [row EXCEPT ![c] = "closed"] /\ remote' = [remote EXCEPT ![c] = "ended"]
    \/ /\ row' = [row EXCEPT ![c] = "outcome_unknown"]
       /\ \E r \in {remote[c], "ended"} : remote' = [remote EXCEPT ![c] = r]

HungUp(c) ==
    /\ flight[c] = "hanging"
    /\ Hangup(c)
    /\ flight' = [flight EXCEPT ![c] = "none"]
    /\ UNCHANGED <<hook, healthy, handling, hanging, session, accepts, phase, todo>>

\* the same for a hangup of the close handler or of close
HungUpBy(c, who) ==
    /\ who \in hanging[c]
    /\ Hangup(c)
    /\ hanging' = [hanging EXCEPT ![c] = @ \ {who}]
    /\ UNCHANGED <<hook, healthy, handling, flight, session, accepts, phase, todo>>

\* the caller hangs up
RemoteEnds(c) ==
    /\ remote[c] # "ended"
    /\ remote' = [remote EXCEPT ![c] = "ended"]
    /\ UNCHANGED <<storeVars, handling, flight, hanging, session, accepts, phase, todo>>

\* bug: only a call that was never attached is hung up
CloseIgnored(c) ==
    /\ session[c] = "open"
    /\ session' = [session EXCEPT ![c] = "none"]
    /\ UNCHANGED <<row, hanging, hook, healthy, handling, flight, remote, accepts, phase, todo>>

\* the sideband of an attached call closes: it is hung up in the background.
\* After close began, close does it.
SidebandCloses(c) ==
    /\ session[c] = "open"
    /\ session' = [session EXCEPT ![c] = "none"]
    /\ IF row[c] = "attached" /\ phase \in {"recovering", "serving", "draining"}
       THEN /\ row' = [row EXCEPT ![c] = "hangup_intent"]
            /\ hanging' = [hanging EXCEPT ![c] = @ \cup {"background"}]
       ELSE UNCHANGED <<row, hanging>>
    /\ UNCHANGED <<hook, healthy, handling, flight, remote, accepts, phase, todo>>

\* Writes of the store fail: the operation throws between what it asked of the
\* provider and its row, its webhooks are answered with 500; at start the
\* process ends.
StoreFails(c) ==
    /\ phase \in {"serving", "draining"}
    /\ healthy' = FALSE
    /\ \/ /\ flight[c] = "accepting" /\ remote[c] = "ringing"
          /\ remote' = [remote EXCEPT ![c] = "live"]
          /\ \E s \in {"accept_intent", "accepted"} : row' = [row EXCEPT ![c] = s]
          /\ flight' = [flight EXCEPT ![c] = "none"]
          /\ UNCHANGED session
       \/ /\ flight[c] \in {"rejecting", "hanging"}
          /\ \E r \in {remote[c], "ended"} : remote' = [remote EXCEPT ![c] = r]
          /\ flight' = [flight EXCEPT ![c] = "none"]
          /\ UNCHANGED <<row, session>>
       \/ /\ flight[c] = "connecting"
          /\ session' = [session EXCEPT ![c] = "none"]
          /\ flight' = [flight EXCEPT ![c] = "none"]
          /\ UNCHANGED <<row, remote>>
       \/ /\ session[c] = "open" /\ row[c] = "attached"
          /\ session' = [session EXCEPT ![c] = "none"]
          /\ UNCHANGED <<row, flight, remote>>
    /\ handling' = {w \in handling : ~(CallOf[w] = c /\ flight[c] # "none")}
    /\ UNCHANGED <<hook, hanging, accepts, phase, todo>>

\* the same for a hangup of the close handler or of close
StoreFailsBy(c, who) ==
    /\ who \in hanging[c]
    /\ healthy' = FALSE
    /\ \E r \in {remote[c], "ended"} : remote' = [remote EXCEPT ![c] = r]
    /\ hanging' = [hanging EXCEPT ![c] = @ \ {who}]
    /\ UNCHANGED <<row, hook, handling, flight, session, accepts, phase, todo>>

-----------------------------------------------------------------------------
(* The process.                                                             *)

\* recover takes one active row after the other, before the server listens
Recover(c) ==
    /\ phase = "recovering"
    /\ c \in todo /\ InFlight = {}
    /\ todo' = todo \ {c}
    /\ Resume(c)
    /\ UNCHANGED <<hook, healthy, handling, hanging, remote, phase>>

Listen ==
    /\ phase = "recovering"
    /\ todo = {} /\ InFlight = {}
    /\ phase' = "serving"
    /\ UNCHANGED <<storeVars, handling, flight, hanging, session, remote, accepts, todo>>

\* app.close: the HTTP server first, which waits for its requests
Stop ==
    /\ phase = "serving"
    /\ phase' = "draining"
    /\ UNCHANGED <<storeVars, handling, flight, hanging, session, remote, accepts, todo>>

\* gateway.close, and a later attempt: every active call is hung up, beside a
\* hangup that may be under way in the background
GatewayClose ==
    /\ phase \in {"draining", "stuck"}
    /\ handling = {} /\ InFlight = {}
    /\ phase' = "closing"
    /\ row' = [c \in Calls |-> IF Active(c) THEN "hangup_intent" ELSE row[c]]
    /\ hanging' = [c \in Calls |-> IF Active(c) THEN hanging[c] \cup {"close"} ELSE hanging[c]]
    /\ UNCHANGED <<hook, healthy, handling, flight, session, remote, accepts, todo>>

\* bug: the rows are not looked at again
SettledSessions == \A c \in Calls : session[c] = "none"

Settled == ActiveCalls = {} /\ \A c \in Calls : session[c] = "none"

\* bug: it waits until nothing is left
CloseWaits ==
    /\ phase = "closing" /\ Settled
    /\ \A c \in Calls : hanging[c] = {}
    /\ phase' = "released"
    /\ UNCHANGED <<storeVars, handling, flight, hanging, session, remote, accepts, todo>>

\* a sideband that has not closed in time is reported
CloseAnswers ==
    /\ phase = "closing"
    /\ \A c \in Calls : hanging[c] = {}
    /\ phase' = IF Settled THEN "released" ELSE "stuck"
    /\ UNCHANGED <<storeVars, handling, flight, hanging, session, remote, accepts, todo>>

\* the process dies, or ends after a close that failed
Crash ==
    /\ Up
    /\ phase' = "down"
    /\ handling' = {} /\ todo' = {}
    /\ flight' = [c \in Calls |-> "none"]
    /\ hanging' = [c \in Calls |-> {}]
    /\ session' = [c \in Calls |-> "none"]
    /\ \E done \in SUBSET {c \in Calls : flight[c] # "none" \/ hanging[c] # {}} :
          remote' = [c \in Calls |->
              CASE c \in done /\ flight[c] = "accepting" /\ remote[c] = "ringing" -> "live"
                [] c \in done /\ (flight[c] \in {"rejecting", "hanging"} \/ hanging[c] # {}) -> "ended"
                [] OTHER -> remote[c]]
    /\ UNCHANGED <<storeVars, accepts>>

Restart ==
    /\ phase \in {"down", "released"}
    /\ phase' = "recovering"
    /\ todo' = ActiveCalls
    /\ healthy' = TRUE
    /\ UNCHANGED <<row, hook, handling, flight, hanging, session, remote, accepts>>

-----------------------------------------------------------------------------
Answers(c) == \/ Accepted(c) \/ AcceptUncertain(c) \/ Rejected(c) \/ RejectUncertain(c)
              \/ Connected(c) \/ ConnectFails(c) \/ HungUp(c)

SipNext ==
    \/ \E w \in Webhooks : Deliver(w) \/ Completed(w)
    \/ \E c \in Calls : \/ Answers(c) \/ RemoteEnds(c) \/ SidebandCloses(c)
                        \/ StoreFails(c) \/ Recover(c)
    \/ \E c \in Calls, who \in {"background", "close"} : HungUpBy(c, who) \/ StoreFailsBy(c, who)
    \/ Listen \/ Stop \/ GatewayClose \/ CloseAnswers \/ Crash \/ Restart

SipSpec == SipInit /\ [][SipNext]_vars
=============================================================================
