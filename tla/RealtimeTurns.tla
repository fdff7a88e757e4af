--------------------------- MODULE RealtimeTurns ---------------------------
(***************************************************************************)
(* One telephone call held through OpenAI Realtime in the owner-session    *)
(* mode: the client (openai-realtime-client.js), the closure of            *)
(* runRealtimeConversation that drives it (realtime-conversation.js) and   *)
(* the plan runner (owner-task-plan.js).                                   *)
(*                                                                         *)
(* The caller's utterances are items.  A completed transcript that reads   *)
(* as an instruction is a turn: it is kept unsent until a decision made by *)
(* the decision service consumes it, so that the next turn is decided      *)
(* together with what was not acted on yet.  A decision may talk, read a   *)
(* session, send one instruction, run a plan or end the call; what it does *)
(* is awaited while the client already takes the next events.  One flag,   *)
(* active, serialises three kinds of work: a response of the Realtime      *)
(* service (all notices), a decision, and the local playback of a text.    *)
(*                                                                         *)
(* The Realtime service is external: it takes the client's requests in     *)
(* order and sends its events in order, so that a cancellation can cross   *)
(* the end of the response it is meant for.                                *)
(***************************************************************************)
EXTENDS Integers, Sequences

CONSTANTS
  MaxItems,    \* bound: utterances of the caller in the call
  PlanSteps    \* bound: actions of a plan

ASSUME RealtimeAssumption == MaxItems \in Nat \ {0} /\ PlanSteps \in Nat \ {0}

Items == 1..MaxItems

(* Notices by key, and the order in which _flushNotice takes them. *)
Notices == {"hangup", "job", "recovery"}
NoNotice == "none"
Priority == [hangup |-> 1000, job |-> 500, recovery |-> 350]

NoDecision == [rev |-> 0, aborted |-> FALSE]

VARIABLES
  client,      \* fields of the client and of the conversation's closure
  items,       \* the caller: utterances begun, and those not transcribed yet
  service,     \* the Realtime service: is a response running, its events
  tools,       \* awaited tool calls of carried-out decisions
  dispatched,  \* history: how often a turn's text was acted on
  fate,        \* history: what became of each turn
  job          \* the completion notice of one background job

turnVars == <<client, items, service, tools, dispatched, fate, job>>

----------------------------------------------------------------------------
(* The client once the greeting has been spoken. *)
InitClient ==
  [active |-> FALSE, purpose |-> "none", next |-> "none",
   canceling |-> FALSE, discard |-> FALSE, decision |-> NoDecision,
   speech |-> FALSE, nextNotice |-> NoNotice, activeNotice |-> NoNotice,
   notices |-> {}, speaking |-> FALSE, awaiting |-> FALSE,
   unsent |-> {}, latest |-> 0, rev |-> 0, pending |-> FALSE,
   pendingText |-> {}, pendingRev |-> 0, dispatchRev |-> 0,
   planning |-> FALSE, debounce |-> FALSE, ending |-> FALSE,
   closed |-> FALSE, farewell |-> FALSE, deadline |-> FALSE,
   outbox |-> <<>>]

(* Operators on the client's fields: each is one method.                    *)

Request(c, purpose, notice) ==
  IF c.active \/ (c.ending /\ purpose \notin {"farewell", "hangup"}) THEN c
  ELSE [c EXCEPT !.discard = FALSE, !.active = TRUE, !.next = purpose,
                 !.nextNotice = notice, !.outbox = Append(@, "create")]

Speak(c) ==
  IF c.active \/ c.closed \/ c.ending THEN c
  ELSE [c EXCEPT !.active = TRUE, !.speech = TRUE, !.purpose = "speech"]

Cancel(c, drop) ==
  LET d == [c EXCEPT !.discard = @ \/ drop] IN
  IF c.speech THEN [c EXCEPT !.speech = FALSE, !.active = FALSE, !.purpose = "none"]
  ELSE IF ~c.active THEN c
  ELSE IF c.canceling THEN d
  ELSE IF c.decision # NoDecision
       THEN [d EXCEPT !.canceling = TRUE, !.decision.aborted = TRUE]
       ELSE [d EXCEPT !.canceling = TRUE, !.outbox = Append(@, "cancel")]

Interrupt(c) == Cancel(c, TRUE)

Discard(c) == [c EXCEPT !.pending = FALSE, !.unsent = {}]

(* cancelQueuedUserResponse with discardModelTurn. *)
DropTurn(c) == Discard([c EXCEPT !.debounce = FALSE])

PurposeOf(notice) == IF notice = "hangup" THEN "hangup" ELSE "notice"

SendNotice(c, notice, superseded) ==
  LET d == IF c.active /\ c.purpose \in superseded THEN Cancel(c, FALSE) ELSE c IN
  IF c.ending /\ notice # "hangup" THEN c
  ELSE IF d.active \/ d.speaking
       THEN [d EXCEPT !.notices = @ \cup {notice}]
       ELSE Request(d, PurposeOf(notice), notice)

Flush(c) ==
  IF c.active \/ c.speaking \/ c.awaiting \/ c.notices = {} THEN c
  ELSE LET first == CHOOSE n \in c.notices :
                      \A m \in c.notices : Priority[m] <= Priority[n] IN
       IF c.ending /\ first # "hangup" THEN c
       ELSE Request([c EXCEPT !.notices = @ \ {first}], PurposeOf(first), first)

(* The response.created event. *)
Created(c) ==
  [c EXCEPT !.active = TRUE, !.canceling = FALSE,
            !.purpose = IF c.next # "none" THEN c.next
                        ELSE IF @ # "none" THEN @ ELSE "server",
            !.next = "none", !.activeNotice = c.nextNotice, !.nextNotice = NoNotice]

(* _requestOwnerDecision runs to its first await, response.created of its   *)
(* own included.                                                            *)
RequestDecision(c) ==
  IF c.active \/ c.closed THEN c
  ELSE LET text == IF c.unsent # {} THEN c.unsent
                   ELSE IF c.latest # 0 THEN {c.latest} ELSE {} IN
       [Created([c EXCEPT !.decision = [rev |-> c.rev, aborted |-> FALSE],
                          !.discard = FALSE, !.next = "turn"])
          EXCEPT !.pendingText = text, !.pendingRev = c.rev]

RequestRouted(c) ==
  IF c.ending THEN c
  ELSE IF c.planning THEN [c EXCEPT !.pending = TRUE]
  ELSE RequestDecision(c)

QueueTurn(c) ==
  IF c.ending THEN c
  ELSE IF c.active \/ c.speaking \/ c.awaiting THEN [c EXCEPT !.pending = TRUE]
  ELSE RequestRouted([c EXCEPT !.pending = FALSE])

ResumeTurn(c) ==
  IF /\ c.pending /\ c.unsent # {} /\ ~c.debounce /\ ~c.active
     /\ ~c.speaking /\ ~c.awaiting /\ ~c.ending /\ ~c.closed
  THEN QueueTurn(c) ELSE c

(* beginHangup of the conversation and of the client. *)
BeginHangup(c) ==
  IF c.ending THEN c
  ELSE DropTurn([c EXCEPT !.ending = TRUE, !.deadline = TRUE, !.notices = {}])

(* The end of a response clears what belonged to it.                        *)
Finish(c) ==
  [c EXCEPT !.discard = FALSE, !.active = FALSE, !.canceling = FALSE,
            !.purpose = "none", !.activeNotice = NoNotice]

Consume(c) == [c EXCEPT !.pendingText = {}, !.pendingRev = 0]

MaySelectTool(purpose) == purpose \in {"turn", "server", "speech"}

Superseded(c, purpose) ==
  MaySelectTool(purpose) /\ c.pendingRev # 0 /\ c.pendingRev # c.rev

(* bug: the end of a response leaves a queued turn queued. *)
LeavesQueued(c) == c

(* A queued turn is taken up once nothing else occupies the line. *)
TakePending(c) ==
  IF c.pending /\ ~c.active /\ ~c.speaking /\ ~c.awaiting
  THEN RequestRouted([c EXCEPT !.pending = FALSE]) ELSE c

(* _handleResponseDone of a response that carries no call to make. *)
Settle(c, purpose) ==
  LET d == IF Superseded(c, purpose) THEN Consume(c) ELSE c
      e == IF d.ending /\ purpose \in {"farewell", "hangup"}
           THEN [d EXCEPT !.farewell = TRUE] ELSE d
  IN TakePending(Flush(e))

(* bug: an interrupted or failed notice is forgotten. *)
NoticeForgotten(c, notice, told) == c

(* The notice a finished response carried: told, or queued again. *)
NoticePart(c, notice, told) ==
  IF notice = NoNotice \/ told THEN c
  ELSE Flush([c EXCEPT !.notices = @ \cup {notice}])

JobAfter(notice, told) == IF notice = "job" /\ told THEN "delivered" ELSE job

----------------------------------------------------------------------------
(* The caller.                                                              *)

TypeOfUtterance == {"instruction", "noise", "recovery", "goodbye"}

CallUp == ~client.closed

SpeechStarted ==
  /\ CallUp /\ ~client.speaking /\ items.begun < MaxItems
  /\ items' = [begun |-> items.begun + 1,
               open |-> items.open \cup {items.begun + 1}]
  /\ client' = [client EXCEPT !.speaking = TRUE, !.awaiting = TRUE]
  /\ UNCHANGED <<service, tools, dispatched, fate, job>>

SpeechStopped ==
  /\ CallUp /\ client.speaking
  /\ client' = Flush(ResumeTurn([client EXCEPT !.speaking = FALSE]))
  /\ UNCHANGED <<items, service, tools, dispatched, fate, job>>

(* A partial transcript of the latest utterance stops what is being said.   *)
(* Whether phone audio is still playing is not tracked: it may be.          *)
EarlyInterruption ==
  /\ CallUp /\ client.awaiting /\ ~client.ending
  /\ client' = Interrupt(client)
  /\ UNCHANGED <<items, service, tools, dispatched, fate, job>>

(* The conversation's handler of a transcript that has text. *)
Heard(c, i, kind) ==
  LET d == [c EXCEPT !.latest = i] IN
  CASE c.ending -> DropTurn(d)
    [] ~c.ending /\ kind = "goodbye" ->
         SendNotice(Interrupt(BeginHangup(d)), "hangup", {})
    [] ~c.ending /\ kind = "noise" -> DropTurn(d)
    [] ~c.ending /\ kind = "recovery" ->
         SendNotice(DropTurn(Interrupt(d)), "recovery", {})
    [] ~c.ending /\ kind = "instruction" ->
         [Interrupt(d) EXCEPT !.unsent = @ \cup {i}, !.rev = @ + 1, !.debounce = TRUE]

(* What becomes of the turns when the transcript of item i is handled. *)
FateOf(c, d, i) ==
  [t \in Items |->
     IF t = i /\ i \in d.unsent THEN "waiting"
     ELSE IF t \in c.unsent /\ d.unsent = {} THEN "dropped" ELSE fate[t]]

Transcribed(i, kind) ==
  LET c == [client EXCEPT !.awaiting = @ /\ i # items.begun]
      d == Heard(c, i, kind)
  IN /\ CallUp /\ i \in items.open
     /\ items' = [items EXCEPT !.open = @ \ {i}]
     /\ client' = Flush(ResumeTurn(d))
     /\ fate' = FateOf(c, d, i)
     /\ UNCHANGED <<service, tools, dispatched, job>>

(* An empty or failed transcription. *)
NothingTranscribed(i) ==
  /\ CallUp /\ i \in items.open
  /\ items' = [items EXCEPT !.open = @ \ {i}]
  /\ client' = Flush(ResumeTurn([client EXCEPT !.awaiting = @ /\ i # items.begun]))
  /\ UNCHANGED <<service, tools, dispatched, fate, job>>

DebounceFires ==
  /\ CallUp /\ client.debounce
  /\ client' = QueueTurn([client EXCEPT !.debounce = FALSE])
  /\ UNCHANGED <<items, service, tools, dispatched, fate, job>>

----------------------------------------------------------------------------
(* Decisions.                                                               *)

Current(d) == ~d.aborted /\ d.rev = client.rev

Answered == [t \in Items |-> IF t \in client.pendingText THEN "decided" ELSE fate[t]]

(* The decision was withdrawn by an interruption or by a newer turn; its    *)
(* answer is ignored.                                                       *)
DecisionWithdrawn ==
  /\ CallUp /\ client.decision # NoDecision /\ ~Current(client.decision)
  /\ client' = NoticePart(
       Settle(Finish([client EXCEPT !.decision = NoDecision]), client.purpose),
       client.activeNotice, FALSE)
  /\ fate' = [t \in Items |->
       IF client.decision.rev = client.rev /\ t \in client.pendingText /\ fate[t] = "waiting"
       THEN "withdrawn" ELSE fate[t]]
  /\ UNCHANGED <<items, service, tools, dispatched, job>>

(* The decision service failed or timed out: the caller is asked to repeat. *)
DecisionFails ==
  LET c == NoticePart(
             Settle(Finish([client EXCEPT !.decision = NoDecision]), client.purpose),
             client.activeNotice, FALSE)
  IN /\ CallUp /\ client.decision # NoDecision /\ Current(client.decision)
     /\ client' = IF c.active \/ c.speaking \/ c.pending THEN c ELSE Speak(c)
     /\ fate' = Answered
     /\ UNCHANGED <<items, service, tools, dispatched, job>>

(* What carrying out a decision starts from: the fields cleared by its      *)
(* response.done, the notice that was put back with them.                   *)
Ended == Finish([client EXCEPT !.decision = NoDecision])

(* A completed answer whose calls are dropped: suppressed, rejected as a    *)
(* mismatch of the text to verify, or given after the hangup began.         *)
DecisionIgnored ==
  LET told == client.purpose # "answer" IN
  /\ CallUp /\ client.decision # NoDecision /\ Current(client.decision)
  /\ \/ /\ client.purpose = "answer" /\ ~client.discard
        /\ ~client.speaking /\ ~client.pending
        /\ client' = NoticePart(Speak(Ended), client.activeNotice, told)
     \/ /\ \/ client.discard
           \/ Superseded(Ended, client.purpose)
           \/ client.purpose = "answer" /\ (client.speaking \/ client.pending)
        /\ client' = NoticePart(Settle(Ended, client.purpose), client.activeNotice, told)
     \/ /\ client.ending /\ ~client.discard /\ client.purpose # "answer"
        /\ ~Superseded(Ended, client.purpose)
        /\ client' = NoticePart(Ended, client.activeNotice, told)
  /\ job' = JobAfter(client.activeNotice, told)
  /\ UNCHANGED <<items, service, tools, dispatched, fate>>

(* The head of _handleToolCall takes the turn before anything is awaited.   *)
Handled == [Consume(Ended) EXCEPT !.unsent = {}]

Text == IF client.pendingText # {} THEN client.pendingText
        ELSE IF client.latest # 0 THEN {client.latest} ELSE {}

CarriedOut ==
  /\ CallUp /\ client.decision # NoDecision /\ Current(client.decision)
  /\ ~client.discard /\ client.purpose # "answer" /\ ~client.ending
  /\ ~Superseded(Ended, client.purpose)
  /\ fate' = Answered
  /\ UNCHANGED <<items, service>>

(* The notice part of response.done runs when the tool's await is over.     *)
Await(kind) ==
  tools' = Append(tools, [kind |-> kind, rev |-> client.decision.rev,
                          left |-> IF kind = "plan" THEN PlanSteps ELSE 1,
                          notice |-> client.activeNotice])

Dispatch ==
  dispatched' = [t \in Items |-> IF t \in Text THEN dispatched[t] + 1 ELSE dispatched[t]]

(* An answer, a question, a draft, a refusal, more than one call at once,   *)
(* or a turn that was already acted on: the outcome is only spoken.         *)
DecisionTalks ==
  /\ CarriedOut
  /\ client' = NoticePart(Speak(Handled), client.activeNotice, TRUE)
  /\ job' = JobAfter(client.activeNotice, TRUE)
  /\ UNCHANGED <<tools, dispatched>>

DecisionReads ==
  /\ CarriedOut
  /\ client' = Handled
  /\ Await("read")
  /\ UNCHANGED <<dispatched, job>>

(* bug: the turn's dispatch is not remembered. *)
AlwaysUnacted == TRUE

Unacted == client.dispatchRev # client.rev

DecisionSends ==
  /\ CarriedOut /\ Unacted
  /\ client' = [Handled EXCEPT !.dispatchRev = client.rev]
  /\ Await("send")
  /\ Dispatch
  /\ UNCHANGED job

(* What is said or done once a plan has ended. *)
PlanResult(c) ==
  IF c.ending \/ c.speaking \/ c.awaiting THEN c
  ELSE IF c.pending THEN RequestRouted([c EXCEPT !.pending = FALSE]) ELSE Speak(c)

DecisionPlans ==
  /\ CarriedOut /\ ~client.planning /\ Unacted /\ ~client.speaking
  /\ client' = [Handled EXCEPT !.dispatchRev = client.rev, !.planning = TRUE]
  /\ Await("plan")
  /\ Dispatch
  /\ UNCHANGED job

(* A plan that could not be bound, or that is recorded but finds the caller *)
(* speaking before its first action.                                        *)
PlanNotRun ==
  /\ CarriedOut /\ ~client.planning /\ Unacted
  /\ \E recorded \in {FALSE, client.speaking} :
       client' = NoticePart(
         PlanResult([Handled EXCEPT !.dispatchRev = IF recorded THEN client.rev ELSE @]),
         client.activeNotice, TRUE)
  /\ job' = JobAfter(client.activeNotice, TRUE)
  /\ UNCHANGED <<tools, dispatched>>

DecisionHangsUp ==
  /\ CarriedOut
  /\ client' = NoticePart(Request(BeginHangup(Handled), "farewell", NoNotice),
                          client.activeNotice, TRUE)
  /\ job' = JobAfter(client.activeNotice, TRUE)
  /\ UNCHANGED <<tools, dispatched>>

----------------------------------------------------------------------------
(* The awaited calls return, in any order.                                  *)

Without(k) == SubSeq(tools, 1, k - 1) \o SubSeq(tools, k + 1, Len(tools))

(* The result is spoken, or the pending approval is left to its own prompt. *)
ToolReturns(k) ==
  /\ tools[k].kind \in {"read", "send"}
  /\ \/ client' = NoticePart(Speak(client), tools[k].notice, TRUE)
     \/ /\ tools[k].kind = "send"
        /\ client' = NoticePart(TakePending(Flush(client)), tools[k].notice, TRUE)
  /\ tools' = Without(k)
  /\ job' = JobAfter(tools[k].notice, TRUE)
  /\ UNCHANGED <<items, service, dispatched, fate>>

(* bug: a plan goes on although the caller said something else since. *)
PlanUpToDate(t) == CallUp /\ ~client.ending /\ ~client.speaking

PlanCurrent(t) == CallUp /\ ~client.ending /\ ~client.speaking /\ client.rev = t.rev

(* The next action of the plan starts; its call is a routed one as well. *)
PlanContinues(k) ==
  /\ tools[k].kind = "plan" /\ tools[k].left > 1 /\ PlanCurrent(tools[k])
  /\ tools' = [tools EXCEPT ![k].left = @ - 1]
  /\ client' = [Consume(client) EXCEPT !.unsent = {}]
  /\ UNCHANGED <<items, service, dispatched, fate, job>>

(* A queued turn is taken off the queue while a notice or an answer is      *)
(* spoken, so that no decision can be asked for.                            *)
Stranded(t) ==
  /\ client.pending /\ client.active /\ t \in client.unsent /\ fate[t] = "waiting"
  /\ ~client.ending /\ ~client.speaking /\ ~client.awaiting

(* The plan is done, no longer current, or an outcome is uncertain. *)
PlanEnds(k) ==
  /\ tools[k].kind = "plan"
  /\ client' = NoticePart(PlanResult([client EXCEPT !.planning = FALSE]),
                          tools[k].notice, TRUE)
  /\ tools' = Without(k)
  /\ job' = JobAfter(tools[k].notice, TRUE)
  /\ fate' = [t \in Items |-> IF Stranded(t) THEN "stranded" ELSE fate[t]]
  /\ UNCHANGED <<items, service, dispatched>>

(* The local playback of a text ends; after a failure the service is asked  *)
(* to say that the message could not be played.                             *)
SpeechEnds(failed) ==
  LET c == [client EXCEPT !.speech = FALSE, !.active = FALSE, !.purpose = "none"]
      d == IF failed /\ ~c.ending /\ ~c.speaking /\ ~c.pending
           THEN Request(c, "answer", NoNotice) ELSE c
  IN /\ CallUp /\ client.speech
     /\ client' = Flush(ResumeTurn(d))
     /\ UNCHANGED <<items, service, tools, dispatched, fate, job>>

----------------------------------------------------------------------------
(* The Realtime service and its events.                                     *)

ServiceTakes ==
  /\ CallUp /\ client.outbox # <<>>
  /\ client' = [client EXCEPT !.outbox = Tail(@)]
  /\ service' =
       CASE Head(client.outbox) = "create" /\ ~service.running ->
              [running |-> TRUE, events |-> Append(service.events, "created")]
         [] Head(client.outbox) = "cancel" /\ service.running ->
              [running |-> FALSE, events |-> Append(service.events, "cancelled")]
         [] Head(client.outbox) = "cancel" /\ ~service.running ->
              [service EXCEPT !.events = Append(@, "not_active")]
         [] OTHER -> service     \* the error is only logged
  /\ UNCHANGED <<items, tools, dispatched, fate, job>>

ServiceFinishes(status) ==
  /\ CallUp /\ service.running
  /\ service' = [running |-> FALSE, events |-> Append(service.events, status)]
  /\ UNCHANGED <<client, items, tools, dispatched, fate, job>>

Event(kinds) ==
  /\ CallUp /\ service.events # <<>> /\ Head(service.events) \in kinds
  /\ service' = [service EXCEPT !.events = Tail(@)]
  /\ UNCHANGED <<items, tools, dispatched, fate>>

ResponseCreated ==
  /\ Event({"created"})
  /\ client' = Created(client)
  /\ UNCHANGED job

ResponseDone ==
  LET c == Finish(client)
      completed == Head(service.events) = "completed"
  IN /\ Event({"completed", "failed", "cancelled"})
     /\ \E rejected \in {FALSE, client.purpose = "answer" /\ completed} :
          /\ client' = NoticePart(
               IF rejected /\ ~client.discard /\ ~client.speaking /\ ~client.pending
               THEN Speak(c) ELSE Settle(c, client.purpose),
               client.activeNotice, completed /\ ~rejected)
          /\ job' = JobAfter(client.activeNotice, completed /\ ~rejected)

(* response_cancel_not_active: the response had ended before. *)
CancelCameLate ==
  /\ Event({"not_active"})
  /\ client' = [client EXCEPT !.active = FALSE, !.canceling = FALSE]
  /\ UNCHANGED job

----------------------------------------------------------------------------
(* The conversation.                                                        *)

JobCompletes ==
  /\ CallUp /\ ~client.ending /\ job = "none"
  /\ job' = "asked"
  /\ client' = SendNotice(client, "job", {"turn", "answer"})
  /\ UNCHANGED <<items, service, tools, dispatched, fate>>

(* concludeConversation and close of the client: what its fields hold is    *)
(* not used again.                                                          *)
Over ==
  /\ client' = [InitClient EXCEPT !.closed = TRUE]
  /\ items' = [items EXCEPT !.open = {}]
  /\ service' = [running |-> FALSE, events |-> <<>>]
  /\ UNCHANGED <<tools, dispatched, fate, job>>

FarewellPlayed == CallUp /\ client.farewell /\ Over
DeadlineFires == CallUp /\ client.deadline /\ Over

(* The dialog or the connection to the service ends. *)
Disconnected == CallUp /\ Over

----------------------------------------------------------------------------
Init ==
  /\ client = InitClient
  /\ items = [begun |-> 0, open |-> {}]
  /\ service = [running |-> FALSE, events |-> <<>>]
  /\ tools = <<>>
  /\ dispatched = [t \in Items |-> 0]
  /\ fate = [t \in Items |-> "none"]
  /\ job = "none"

CallerActs ==
  \/ SpeechStarted \/ SpeechStopped \/ EarlyInterruption
  \/ \E i \in Items : NothingTranscribed(i) \/ \E kind \in TypeOfUtterance : Transcribed(i, kind)

DecisionReturns ==
  \/ DecisionWithdrawn \/ DecisionFails \/ DecisionIgnored
  \/ DecisionTalks \/ DecisionReads \/ DecisionSends
  \/ DecisionPlans \/ PlanNotRun \/ DecisionHangsUp

CallReturns(k) == ToolReturns(k) \/ PlanContinues(k) \/ PlanEnds(k)

ServiceActs ==
  ServiceTakes \/ (\E status \in {"completed", "failed"} : ServiceFinishes(status))

EventArrives == ResponseCreated \/ ResponseDone \/ CancelCameLate

Next ==
  \/ CallerActs
  \/ DebounceFires
  \/ DecisionReturns
  \/ \E k \in DOMAIN tools : CallReturns(k)
  \/ \E failed \in BOOLEAN : SpeechEnds(failed)
  \/ ServiceActs
  \/ EventArrives
  \/ JobCompletes
  \/ FarewellPlayed \/ DeadlineFires \/ Disconnected

Spec == Init /\ [][Next]_turnVars
=============================================================================
