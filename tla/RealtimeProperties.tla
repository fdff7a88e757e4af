------------------------ MODULE RealtimeProperties ------------------------
(***************************************************************************)
(* What a call held through RealtimeTurns is held to.                      *)
(***************************************************************************)
EXTENDS RealtimeTurns

(* No turn is acted on twice: what a decision consumed is not part of a     *)
(* later instruction or plan, although a turn may be decided again when its *)
(* debounce fires after its decision (prepareCallerTurn,                    *)
(* ownerDispatchRevision).                                                  *)
TurnActedOnce == \A t \in Items : dispatched[t] <= 1

(* An instruction is sent, and each action of a plan started, only for the  *)
(* newest turn the caller completed and while the call goes on: an answer   *)
(* of the decision service that was overtaken by a newer turn, or by the    *)
(* hangup, changes nothing.                                                 *)
Starts(k) ==
  /\ k \in DOMAIN tools' /\ tools'[k].kind # "read"
  /\ \/ k > Len(tools)
     \/ Len(tools') = Len(tools) /\ tools'[k].left < tools[k].left

NewestOnly ==
  [][\A k \in 1..(Len(tools) + 1) :
       Starts(k) => tools'[k].rev = client.rev /\ CallUp /\ ~client.ending]_turnVars

----------------------------------------------------------------------------
(* A notice a response can carry, or none. *)
NoticesOrNone == Notices \cup {NoNotice}

(* What the client remembers of the turns, given the items acted on and     *)
(* those heard: nothing unsent was acted on, and the newest transcript and  *)
(* the text a current decision is made for were not either, unless the      *)
(* dispatch of this very turn is remembered.                                *)
Remembers(c, acted, heard) ==
    /\ c.rev \in Nat /\ c.pendingRev \in 0 .. c.rev /\ c.dispatchRev \in 0 .. c.rev
    /\ c.decision \in [rev : Nat, aborted : BOOLEAN] /\ c.decision.rev <= c.rev
    /\ c.unsent \subseteq heard \ acted
    /\ c.pendingText \subseteq heard /\ c.latest \in heard \cup {0}
    /\ c.latest \in acted => c.dispatchRev = c.rev
    /\ c.pendingRev = c.rev /\ c.pendingText \cap acted # {} => c.dispatchRev = c.rev
    /\ c.decision # NoDecision /\ c.decision.rev = c.rev =>
          c.pendingRev = c.rev \/ c.pendingText = {}

(* The notices it carries, and its fields. *)
Carries(c) ==
    /\ DOMAIN c = DOMAIN InitClient
    /\ c.notices \subseteq Notices /\ c.activeNotice \in NoticesOrNone /\ c.nextNotice \in NoticesOrNone

TurnFits(c, acted, heard) == Carries(c) /\ Remembers(c, acted, heard)

(* An awaited call, and what was transcribed and acted on so far. *)
Call == [kind : {"read", "send", "plan"}, rev : Nat, left : Nat, notice : NoticesOrNone]

Transcripts == (1 .. items.begun) \ items.open
Acted == {t \in Items : dispatched[t] # 0}

CallTypes ==
    /\ items \in [begun : 0 .. MaxItems, open : SUBSET Items] /\ items.open \subseteq 1 .. items.begun
    /\ dispatched \in [Items -> Nat] /\ tools \in Seq(Call)

(* The invariant TurnActedOnce rests on. *)
TurnInv ==
    /\ CallTypes /\ TurnActedOnce /\ Acted \subseteq Transcripts
    /\ TurnFits(client, Acted, Transcripts)

----------------------------------------------------------------------------
(* Fairness: the caller stops speaking and each utterance is transcribed or *)
(* given up by the service; timers fire; the decision request and the tool  *)
(* requests have deadlines; playback ends; the service answers in order.    *)
ItemEnds(i) == NothingTranscribed(i) \/ \E kind \in TypeOfUtterance : Transcribed(i, kind)

RealtimeFairness ==
  /\ WF_turnVars(SpeechStopped)
  /\ \A i \in Items : WF_turnVars(ItemEnds(i))
  /\ WF_turnVars(DebounceFires)
  /\ WF_turnVars(DecisionReturns)
  /\ WF_turnVars(\E k \in DOMAIN tools : CallReturns(k))
  /\ WF_turnVars(\E failed \in BOOLEAN : SpeechEnds(failed))
  /\ WF_turnVars(ServiceActs)
  /\ WF_turnVars(EventArrives)

RealtimeLiveSpec == Spec /\ RealtimeFairness

(* The service does not fail responses for ever, nor the playback of texts  *)
(* (whose failure asks the service for an answer).                          *)
FailuresEnd ==
  <>[][~ServiceFinishes("failed") /\ ~(client.speech /\ client'.next = "answer")]_turnVars

(* No late answer to a cancellation reaches the client while something else *)
(* occupies the line: it would free the line under a decision or a playback *)
(* (CancelCameLate).                                                        *)
LineKept ==
  [](client.active /\ service.events # <<>> => Head(service.events) # "not_active")

(* No turn the conversation accepted is left waiting: it is decided, unless *)
(* the caller drops or interrupts it, a plan's end strands it (below) or    *)
(* the call ends.  The queue flag, the debounce and the occupation of the   *)
(* line never leave it waiting for nothing.                                 *)
AnyTurn(fates) == \E t \in Items : fate[t] \in fates

TurnsDecided ==
  FailuresEnd /\ LineKept =>
    (AnyTurn({"waiting"}) ~> ~AnyTurn({"waiting"}) \/ ~CallUp)

(* The same with stranded turns not excepted: it does not hold.             *)
EveryTurnDecided ==
  FailuresEnd /\ LineKept =>
    (AnyTurn({"waiting"}) ~> ~AnyTurn({"waiting", "stranded"}) \/ ~CallUp)

(* A completed job is eventually announced, or the call ends or is being    *)
(* ended: an announcement that was interrupted or failed is queued again.   *)
JobTold ==
  FailuresEnd /\ LineKept =>
    (job = "asked" ~> job = "delivered" \/ ~CallUp \/ client.ending)

(* What the caller said and what was done for the caller is taken up: no    *)
(* turn and no notice of a job is forgotten behind a flag nobody clears.    *)
NothingForgotten == TurnsDecided /\ JobTold
=============================================================================
