------------------------------- MODULE SipProofs -------------------------------
(***************************************************************************)
(* Proofs about the calls held through Realtime.  The turns of one call, for *)
(* any number of utterances and plans of any length: none is acted on twice, *)
(* and only the newest is.  The SIP gateway, for any calls, webhooks and     *)
(* capacity: the invariant it rests on, that an attached call has its        *)
(* sideband, and that a shutdown that reports quiescence leaves none live.   *)
(***************************************************************************)
EXTENDS SipProperties, RealtimeProperties, FiniteSetTheorems, SequenceTheorems, TLAPS

-----------------------------------------------------------------------------
(* The turns of one call. First, what the methods of the client keep.       *)

\* The fields these facts speak of.
Fields == DOMAIN InitClient
LEMMA HasFields ==
    /\ "decision" \in Fields /\ "unsent" \in Fields /\ "latest" \in Fields /\ "rev" \in Fields
    /\ "pendingText" \in Fields /\ "pendingRev" \in Fields /\ "dispatchRev" \in Fields
    /\ "notices" \in Fields /\ "activeNotice" \in Fields /\ "nextNotice" \in Fields
BY DEF Fields, InitClient

\* Nothing of a turn changes.
SameTurns(c, d) ==
    /\ d.decision = c.decision /\ d.unsent = c.unsent /\ d.latest = c.latest /\ d.rev = c.rev
    /\ d.pendingText = c.pendingText /\ d.pendingRev = c.pendingRev /\ d.dispatchRev = c.dispatchRev

\* What leaves the turns alone leaves them fitting.
LEMMA SameFits ==
    ASSUME NEW A, NEW H, NEW c, NEW d, TurnFits(c, A, H), SameTurns(c, d), Carries(d)
    PROVE  TurnFits(d, A, H)
BY DEF TurnFits, SameTurns, Remembers

\* A response of the service may be requested.
LEMMA RequestFits ==
    ASSUME NEW A, NEW H, NEW c, TurnFits(c, A, H), NEW p, NEW n \in NoticesOrNone
    PROVE  TurnFits(Request(c, p, n), A, H) /\ SameTurns(c, Request(c, p, n))
<1> DEFINE d == [c EXCEPT !.discard = FALSE, !.active = TRUE, !.next = p,
                         !.nextNotice = n, !.outbox = Append(@, "create")]
<1>1. DOMAIN c = Fields /\ Carries(c)
    BY DEF TurnFits, Carries, Fields
<1>2. SameTurns(c, d) /\ Carries(d)
    BY <1>1, HasFields DEF SameTurns, Carries, Fields
<1>3. TurnFits(d, A, H)
    BY <1>2, SameFits
<1>4. CASE Request(c, p, n) = c
    BY <1>4 DEF SameTurns
<1>5. CASE Request(c, p, n) = d
    BY <1>2, <1>3, <1>5
<1>6. QED
    BY <1>4, <1>5 DEF Request

\* A text may be played back.
LEMMA SpeakFits ==
    ASSUME NEW A, NEW H, NEW c, TurnFits(c, A, H)
    PROVE  TurnFits(Speak(c), A, H) /\ SameTurns(c, Speak(c))
<1> DEFINE d == [c EXCEPT !.active = TRUE, !.speech = TRUE, !.purpose = "speech"]
<1>1. DOMAIN c = Fields /\ Carries(c)
    BY DEF TurnFits, Carries, Fields
<1>2. SameTurns(c, d) /\ Carries(d)
    BY <1>1, HasFields DEF SameTurns, Carries, Fields
<1>3. TurnFits(d, A, H)
    BY <1>2, SameFits
<1>4. CASE Speak(c) = c
    BY <1>4 DEF SameTurns
<1>5. CASE Speak(c) = d
    BY <1>2, <1>3, <1>5
<1>6. QED
    BY <1>4, <1>5 DEF Speak

\* A decision withdrawn remains the one its text was pending for.
LEMMA AbortFits ==
    ASSUME NEW A, NEW H, NEW c, NEW d, TurnFits(c, A, H), Carries(d), c.decision # NoDecision,
           d.decision = [c.decision EXCEPT !.aborted = TRUE], d.unsent = c.unsent,
           d.latest = c.latest, d.rev = c.rev, d.pendingText = c.pendingText,
           d.pendingRev = c.pendingRev, d.dispatchRev = c.dispatchRev
    PROVE  TurnFits(d, A, H)
<1>1. Remembers(c, A, H)
    BY DEF TurnFits
<1>2. d.decision \in [rev : Nat, aborted : BOOLEAN] /\ d.decision.rev = c.decision.rev
    BY <1>1 DEF Remembers
<1>3. Remembers(d, A, H)
    BY <1>1, <1>2 DEF Remembers
<1>4. QED
    BY <1>3 DEF TurnFits

\* Work may be cancelled: a response, a decision or a playback.
LEMMA CancelFits ==
    ASSUME NEW A, NEW H, NEW c, TurnFits(c, A, H), NEW drop \in BOOLEAN
    PROVE  TurnFits(Cancel(c, drop), A, H) /\ Cancel(c, drop).unsent = c.unsent
           /\ Cancel(c, drop).rev = c.rev /\ Cancel(c, drop).latest = c.latest
<1> DEFINE d == [c EXCEPT !.discard = @ \/ drop]
           e == [c EXCEPT !.speech = FALSE, !.active = FALSE, !.purpose = "none"]
           f == [d EXCEPT !.canceling = TRUE, !.decision.aborted = TRUE]
           g == [d EXCEPT !.canceling = TRUE, !.outbox = Append(@, "cancel")]
<1>1. DOMAIN c = Fields /\ Carries(c)
    BY DEF TurnFits, Carries, Fields
<1>2. SameTurns(c, d) /\ Carries(d)
    BY <1>1, HasFields DEF SameTurns, Carries, Fields
<1>3. SameTurns(c, e) /\ Carries(e)
    BY <1>1, HasFields DEF SameTurns, Carries, Fields
<1>4. SameTurns(c, g) /\ Carries(g)
    BY <1>1, <1>2, HasFields DEF SameTurns, Carries, Fields
<1>5. /\ f.decision = [c.decision EXCEPT !.aborted = TRUE] /\ f.unsent = c.unsent
      /\ f.latest = c.latest /\ f.rev = c.rev /\ f.pendingText = c.pendingText
      /\ f.pendingRev = c.pendingRev /\ f.dispatchRev = c.dispatchRev /\ Carries(f)
    BY <1>1, <1>2, HasFields DEF SameTurns, Carries, Fields
<1> HIDE DEF d, e, f, g
<1>6. TurnFits(d, A, H) /\ TurnFits(e, A, H) /\ TurnFits(g, A, H)
    BY <1>2, <1>3, <1>4, SameFits
<1>7. c.decision # NoDecision => TurnFits(f, A, H)
    BY <1>5, AbortFits
<1>8. \/ Cancel(c, drop) \in {c, d, e, g}
      \/ c.decision # NoDecision /\ Cancel(c, drop) = f
    BY DEF Cancel, d, e, f, g
<1>9. QED
    BY <1>2, <1>3, <1>4, <1>5, <1>6, <1>7, <1>8 DEF SameTurns

\* The caller may interrupt it.
LEMMA InterruptFits ==
    ASSUME NEW A, NEW H, NEW c, TurnFits(c, A, H)
    PROVE  TurnFits(Interrupt(c), A, H) /\ Interrupt(c).latest = c.latest
<1>1. Interrupt(c) = Cancel(c, TRUE)
    BY Zenon DEF Interrupt
<1>2. TurnFits(Cancel(c, TRUE), A, H) /\ Cancel(c, TRUE).latest = c.latest
    BY CancelFits
<1>3. QED
    BY <1>1, <1>2, Zenon

\* Turns may be dropped, and the debounce and the queue with them.
LEMMA DropFits ==
    ASSUME NEW A, NEW H, NEW c, TurnFits(c, A, H)
    PROVE  TurnFits(DropTurn(c), A, H)
<1> DEFINE d == DropTurn(c)
<1>1. DOMAIN c = Fields /\ Carries(c) /\ Remembers(c, A, H)
    BY DEF TurnFits, Carries, Fields
<1>2. /\ d.decision = c.decision /\ d.unsent = {} /\ d.latest = c.latest /\ d.rev = c.rev
      /\ d.pendingText = c.pendingText /\ d.pendingRev = c.pendingRev /\ d.dispatchRev = c.dispatchRev
      /\ Carries(d)
    BY <1>1, HasFields DEF Carries, Fields, DropTurn, Discard
<1> HIDE DEF d
<1>3. Remembers(d, A, H)
    BY <1>1, <1>2 DEF Remembers
<1>4. QED
    BY <1>2, <1>3 DEF TurnFits, d

\* What a queue flag, an occupied line or the debounce does not touch.
LEMMA FlagsFit ==
    ASSUME NEW A, NEW H, NEW c, TurnFits(c, A, H), NEW v
    PROVE  /\ TurnFits([c EXCEPT !.pending = v], A, H)
           /\ TurnFits([c EXCEPT !.debounce = v], A, H)
           /\ TurnFits([c EXCEPT !.speaking = v], A, H)
           /\ TurnFits([c EXCEPT !.awaiting = v], A, H)
           /\ TurnFits([c EXCEPT !.planning = v], A, H)
           /\ TurnFits([c EXCEPT !.farewell = v], A, H)
           /\ TurnFits([c EXCEPT !.outbox = v], A, H)
<1>1. DOMAIN c = Fields /\ Carries(c)
    BY DEF TurnFits, Carries, Fields
<1>2. /\ SameTurns(c, [c EXCEPT !.pending = v]) /\ Carries([c EXCEPT !.pending = v])
      /\ SameTurns(c, [c EXCEPT !.debounce = v]) /\ Carries([c EXCEPT !.debounce = v])
      /\ SameTurns(c, [c EXCEPT !.speaking = v]) /\ Carries([c EXCEPT !.speaking = v])
      /\ SameTurns(c, [c EXCEPT !.awaiting = v]) /\ Carries([c EXCEPT !.awaiting = v])
      /\ SameTurns(c, [c EXCEPT !.planning = v]) /\ Carries([c EXCEPT !.planning = v])
      /\ SameTurns(c, [c EXCEPT !.farewell = v]) /\ Carries([c EXCEPT !.farewell = v])
      /\ SameTurns(c, [c EXCEPT !.outbox = v]) /\ Carries([c EXCEPT !.outbox = v])
    BY <1>1, HasFields DEF SameTurns, Carries, Fields
<1>3. QED
    BY <1>2, SameFits

\* Notices may be queued.
LEMMA NoticesFit ==
    ASSUME NEW A, NEW H, NEW c, TurnFits(c, A, H), NEW N \in SUBSET Notices
    PROVE  TurnFits([c EXCEPT !.notices = N], A, H)
<1>1. DOMAIN c = Fields /\ Carries(c)
    BY DEF TurnFits, Carries, Fields
<1>2. SameTurns(c, [c EXCEPT !.notices = N]) /\ Carries([c EXCEPT !.notices = N])
    BY <1>1, HasFields DEF SameTurns, Carries, Fields
<1>3. QED
    BY <1>2, SameFits

\* A notice may join or leave the queue.
LEMMA QueueNotice ==
    ASSUME NEW A, NEW H, NEW c, TurnFits(c, A, H), NEW n \in Notices
    PROVE  /\ TurnFits([c EXCEPT !.notices = @ \cup {n}], A, H)
           /\ TurnFits([c EXCEPT !.notices = @ \ {n}], A, H)
<1>1. c.notices \cup {n} \in SUBSET Notices /\ c.notices \ {n} \in SUBSET Notices
    BY DEF TurnFits, Carries
<1>2. QED
    BY <1>1, NoticesFit

\* A notice is spoken at once, or queued.
LEMMA SendNoticeFits ==
    ASSUME NEW A, NEW H, NEW c, TurnFits(c, A, H), NEW n \in Notices, NEW S
    PROVE  TurnFits(SendNotice(c, n, S), A, H)
<1> DEFINE d == IF c.active /\ c.purpose \in S THEN Cancel(c, FALSE) ELSE c
<1>1. TurnFits(d, A, H)
    BY CancelFits
<1>2. SendNotice(c, n, S) = IF c.ending /\ n # "hangup" THEN c
                            ELSE IF d.active \/ d.speaking
                                 THEN [d EXCEPT !.notices = @ \cup {n}]
                                 ELSE Request(d, PurposeOf(n), n)
    BY DEF SendNotice
<1> HIDE DEF d
<1>3. TurnFits([d EXCEPT !.notices = @ \cup {n}], A, H) /\ TurnFits(Request(d, PurposeOf(n), n), A, H)
    BY <1>1, QueueNotice, RequestFits DEF NoticesOrNone
<1>4. QED
    BY <1>2, <1>3

\* Of the queued notices one comes first.
LEMMA FirstNotice ==
    ASSUME NEW N \in SUBSET Notices, N # {}
    PROVE  \E n \in N : \A m \in N : Priority[m] <= Priority[n]
<1>1. CASE "hangup" \in N
    BY <1>1 DEF Notices, Priority
<1>2. CASE "hangup" \notin N /\ "job" \in N
    BY <1>2 DEF Notices, Priority
<1>3. CASE N = {"recovery"}
    BY <1>3 DEF Notices, Priority
<1>4. QED
    BY <1>1, <1>2, <1>3 DEF Notices

\* The first queued notice is spoken when the line is free.
LEMMA FlushFits ==
    ASSUME NEW A, NEW H, NEW c, TurnFits(c, A, H)
    PROVE  TurnFits(Flush(c), A, H)
<1> DEFINE first == CHOOSE n \in c.notices : \A m \in c.notices : Priority[m] <= Priority[n]
<1>1. CASE Flush(c) = c
    BY <1>1
<1>2. CASE Flush(c) # c
    <2>1. c.notices # {} /\ Flush(c) = Request([c EXCEPT !.notices = @ \ {first}], PurposeOf(first), first)
        BY <1>2 DEF Flush
    <2>2. c.notices \in SUBSET Notices
        BY DEF TurnFits, Carries
    <2>3. \E n \in c.notices : \A m \in c.notices : Priority[m] <= Priority[n]
        BY <2>1, <2>2, FirstNotice
    <2>4. first \in Notices
        BY <2>2, <2>3
    <2> HIDE DEF first
    <2>5. TurnFits([c EXCEPT !.notices = @ \ {first}], A, H)
        BY <2>4, QueueNotice
    <2>6. QED
        BY <2>1, <2>4, <2>5, RequestFits DEF NoticesOrNone
<1>3. QED
    BY <1>1, <1>2

\* The service begins a response.
LEMMA CreatedFits ==
    ASSUME NEW A, NEW H, NEW c, TurnFits(c, A, H)
    PROVE  TurnFits(Created(c), A, H)
<1> DEFINE d == Created(c)
<1>1. DOMAIN c = Fields /\ Carries(c)
    BY DEF TurnFits, Carries, Fields
<1>2. SameTurns(c, d) /\ Carries(d)
    BY <1>1, HasFields DEF SameTurns, Carries, Fields, Created, NoticesOrNone
<1>3. QED
    BY <1>2, SameFits

\* A new decision takes the unsent turns, or the newest transcript, as they are.
LEMMA RequestDecisionFits ==
    ASSUME NEW A, NEW H, NEW c, TurnFits(c, A, H)
    PROVE  TurnFits(RequestDecision(c), A, H)
<1> DEFINE text == IF c.unsent # {} THEN c.unsent ELSE IF c.latest # 0 THEN {c.latest} ELSE {}
           a == [c EXCEPT !.decision = [rev |-> c.rev, aborted |-> FALSE], !.discard = FALSE, !.next = "turn"]
           b == Created(a)
           d == [b EXCEPT !.pendingText = text, !.pendingRev = c.rev]
<1>1. DOMAIN c = Fields /\ Carries(c) /\ Remembers(c, A, H)
    BY DEF TurnFits, Carries, Fields
<1>2. RequestDecision(c) \in {c, d}
    BY DEF RequestDecision
<1>3. /\ a.decision = [rev |-> c.rev, aborted |-> FALSE] /\ a.unsent = c.unsent /\ a.latest = c.latest
      /\ a.rev = c.rev /\ a.dispatchRev = c.dispatchRev /\ Carries(a) /\ DOMAIN a = Fields
    BY <1>1, HasFields DEF Carries, Fields
<1> HIDE DEF a
<1>4. /\ b.decision = a.decision /\ b.unsent = a.unsent /\ b.latest = a.latest
      /\ b.rev = a.rev /\ b.dispatchRev = a.dispatchRev /\ Carries(b) /\ DOMAIN b = Fields
    BY <1>3, HasFields DEF Carries, Fields, Created, NoticesOrNone
<1> HIDE DEF b
<1> DEFINE words == text
<1>w. /\ words \subseteq H
      /\ words \cap A # {} => c.dispatchRev = c.rev
    BY <1>1 DEF Remembers
<1> HIDE DEF text
<1>5. /\ d.decision = [rev |-> c.rev, aborted |-> FALSE] /\ d.unsent = c.unsent /\ d.latest = c.latest
      /\ d.rev = c.rev /\ d.dispatchRev = c.dispatchRev /\ Carries(d)
      /\ d.pendingText = text /\ d.pendingRev = c.rev
    BY <1>3, <1>4, HasFields DEF Carries, Fields
<1> HIDE DEF d
<1>6. Remembers(d, A, H)
    BY <1>1, <1>5, <1>w DEF Remembers
<1>7. QED
    BY <1>2, <1>5, <1>6 DEF TurnFits

\* A turn may be routed to a decision, or queued behind a plan.
LEMMA RoutedFits ==
    ASSUME NEW A, NEW H, NEW c, TurnFits(c, A, H)
    PROVE  TurnFits(RequestRouted(c), A, H)
BY FlagsFit, RequestDecisionFits DEF RequestRouted

\* A turn may be queued, resumed and taken off the queue.
LEMMA QueueFits ==
    ASSUME NEW A, NEW H, NEW c, TurnFits(c, A, H)
    PROVE  TurnFits(QueueTurn(c), A, H) /\ TurnFits(ResumeTurn(c), A, H) /\ TurnFits(TakePending(c), A, H)
<1>1. TurnFits([c EXCEPT !.pending = TRUE], A, H) /\ TurnFits([c EXCEPT !.pending = FALSE], A, H)
    BY FlagsFit
<1>2. TurnFits(RequestRouted([c EXCEPT !.pending = FALSE]), A, H)
    BY <1>1, RoutedFits
<1>3. QED
    BY <1>1, <1>2 DEF QueueTurn, ResumeTurn, TakePending

\* The hangup begins and drops what is queued.
LEMMA HangupFits ==
    ASSUME NEW A, NEW H, NEW c, TurnFits(c, A, H)
    PROVE  TurnFits(BeginHangup(c), A, H)
<1> DEFINE d == [c EXCEPT !.ending = TRUE, !.deadline = TRUE, !.notices = {}]
<1>1. DOMAIN c = Fields /\ Carries(c)
    BY DEF TurnFits, Carries, Fields
<1>2. SameTurns(c, d) /\ Carries(d)
    BY <1>1, HasFields DEF SameTurns, Carries, Fields
<1>3. TurnFits(d, A, H)
    BY <1>2, SameFits
<1>4. QED
    BY <1>3, DropFits DEF BeginHangup

\* The end of a response, and of the decision that stood for it.
LEMMA FinishFits ==
    ASSUME NEW A, NEW H, NEW c, TurnFits(c, A, H)
    PROVE  TurnFits(Finish(c), A, H) /\ SameTurns(c, Finish(c))
<1>1. DOMAIN c = Fields /\ Carries(c)
    BY DEF TurnFits, Carries, Fields
<1>2. SameTurns(c, Finish(c)) /\ Carries(Finish(c))
    BY <1>1, HasFields DEF SameTurns, Carries, Fields, Finish, NoticesOrNone
<1>3. QED
    BY <1>2, SameFits

\* A decision, the text pending for one and the unsent turns may be given up.
LEMMA WithdrawFits ==
    ASSUME NEW A, NEW H, NEW c, TurnFits(c, A, H)
    PROVE  /\ TurnFits([c EXCEPT !.decision = NoDecision], A, H)
           /\ TurnFits(Consume(c), A, H)
           /\ TurnFits([c EXCEPT !.unsent = {}], A, H)
<1>1. DOMAIN c = Fields /\ Carries(c) /\ Remembers(c, A, H)
    BY DEF TurnFits, Carries, Fields
<1>2. TurnFits([c EXCEPT !.decision = NoDecision], A, H)
    <2> DEFINE d == [c EXCEPT !.decision = NoDecision]
    <2>1. /\ d.decision = NoDecision /\ d.unsent = c.unsent /\ d.latest = c.latest /\ d.rev = c.rev
          /\ d.pendingText = c.pendingText /\ d.pendingRev = c.pendingRev /\ d.dispatchRev = c.dispatchRev
          /\ Carries(d)
        BY <1>1, HasFields DEF Carries, Fields
    <2> HIDE DEF d
    <2>2. NoDecision \in [rev : Nat, aborted : BOOLEAN] /\ NoDecision.rev = 0
        BY DEF NoDecision
    <2>3. Remembers(d, A, H)
        BY <1>1, <2>1, <2>2 DEF Remembers
    <2>4. QED
        BY <2>1, <2>3 DEF TurnFits, d
<1>3. TurnFits(Consume(c), A, H)
    <2> DEFINE d == Consume(c)
    <2>1. /\ d.decision = c.decision /\ d.unsent = c.unsent /\ d.latest = c.latest /\ d.rev = c.rev
          /\ d.pendingText = {} /\ d.pendingRev = 0 /\ d.dispatchRev = c.dispatchRev
          /\ Carries(d)
        BY <1>1, HasFields DEF Carries, Fields, Consume
    <2> HIDE DEF d
    <2>3. Remembers(d, A, H)
        BY <1>1, <2>1 DEF Remembers
    <2>4. QED
        BY <2>1, <2>3 DEF TurnFits, d
<1>4. TurnFits([c EXCEPT !.unsent = {}], A, H)
    <2> DEFINE d == [c EXCEPT !.unsent = {}]
    <2>1. /\ d.decision = c.decision /\ d.unsent = {} /\ d.latest = c.latest /\ d.rev = c.rev
          /\ d.pendingText = c.pendingText /\ d.pendingRev = c.pendingRev /\ d.dispatchRev = c.dispatchRev
          /\ Carries(d)
        BY <1>1, HasFields DEF Carries, Fields
    <2> HIDE DEF d
    <2>3. Remembers(d, A, H)
        BY <1>1, <2>1 DEF Remembers
    <2>4. QED
        BY <2>1, <2>3 DEF TurnFits, d
<1>5. QED
    BY <1>2, <1>3, <1>4

\* The end of a response takes up what waited for it.
LEMMA SettleFits ==
    ASSUME NEW A, NEW H, NEW c, TurnFits(c, A, H), NEW p
    PROVE  TurnFits(Settle(c, p), A, H)
<1> DEFINE d == IF Superseded(c, p) THEN Consume(c) ELSE c
           e == IF d.ending /\ p \in {"farewell", "hangup"} THEN [d EXCEPT !.farewell = TRUE] ELSE d
<1>1. TurnFits(d, A, H)
    BY WithdrawFits
<1>2. TurnFits(e, A, H)
    <2> HIDE DEF d
    <2>1. QED
        BY <1>1, FlagsFit
<1>3. Settle(c, p) = TakePending(Flush(e))
    BY DEF Settle
<1> HIDE DEF e
<1>4. QED
    BY <1>2, <1>3, FlushFits, QueueFits

\* A notice that was not told is queued again.
LEMMA NoticePartFits ==
    ASSUME NEW A, NEW H, NEW c, TurnFits(c, A, H), NEW n \in NoticesOrNone, NEW told
    PROVE  TurnFits(NoticePart(c, n, told), A, H)
<1>1. CASE n = NoNotice \/ told
    BY <1>1 DEF NoticePart
<1>2. CASE n # NoNotice
    <2>1. TurnFits([c EXCEPT !.notices = @ \cup {n}], A, H)
        BY <1>2, QueueNotice DEF NoticesOrNone
    <2>2. QED
        BY <2>1, FlushFits DEF NoticePart
<1>3. QED
    BY <1>1, <1>2

\* A transcript, of any kind, is newer than all that was acted on.
LEMMA TextFits ==
    ASSUME NEW A, NEW H, NEW c, TurnFits(c, A, H), NEW i \in Items, i \notin A, NEW kind \in TypeOfUtterance
    PROVE  TurnFits(Heard(c, i, kind), A, H \cup {i})
<1> DEFINE d == [c EXCEPT !.latest = i]
           e == [Interrupt(d) EXCEPT !.unsent = @ \cup {i}, !.rev = @ + 1, !.debounce = TRUE]
           G == H \cup {i}
<1>1. DOMAIN c = Fields /\ Carries(c) /\ Remembers(c, A, H)
    BY DEF TurnFits, Carries, Fields
<1>2. TurnFits(d, A, G)
    <2>1. /\ d.decision = c.decision /\ d.unsent = c.unsent /\ d.latest = i /\ d.rev = c.rev
          /\ d.pendingText = c.pendingText /\ d.pendingRev = c.pendingRev /\ d.dispatchRev = c.dispatchRev
          /\ Carries(d)
        BY <1>1, HasFields DEF Carries, Fields
    <2> HIDE DEF d
    <2>3. Remembers(d, A, G)
        BY <1>1, <2>1 DEF Remembers
    <2>4. QED
        BY <2>1, <2>3 DEF TurnFits
<1>3. d.latest = i
    BY <1>1, HasFields
<1> HIDE DEF d
<1>4. TurnFits(Interrupt(d), A, G) /\ Interrupt(d).latest = i
    BY <1>2, <1>3, InterruptFits
<1>5. TurnFits(e, A, G)
    <2> DEFINE f == Interrupt(d)
    <2>1. DOMAIN f = Fields /\ Carries(f) /\ Remembers(f, A, G) /\ f.latest = i
        BY <1>4 DEF TurnFits, Carries, Fields
    <2> HIDE DEF f
    <2>2. /\ e.decision = f.decision /\ e.unsent = f.unsent \cup {i} /\ e.latest = i /\ e.rev = f.rev + 1
          /\ e.pendingText = f.pendingText /\ e.pendingRev = f.pendingRev /\ e.dispatchRev = f.dispatchRev
          /\ Carries(e)
        BY <2>1, HasFields DEF Carries, Fields, f
    <2> HIDE DEF e
    <2>3. Remembers(e, A, G)
        BY <2>1, <2>2 DEF Remembers
    <2>4. QED
        BY <2>2, <2>3 DEF TurnFits
<1>6. /\ TurnFits(DropTurn(d), A, G)
      /\ TurnFits(SendNotice(Interrupt(BeginHangup(d)), "hangup", {}), A, G)
      /\ TurnFits(SendNotice(DropTurn(Interrupt(d)), "recovery", {}), A, G)
    <2>1. TurnFits(DropTurn(d), A, G) /\ TurnFits(BeginHangup(d), A, G) /\ TurnFits(DropTurn(Interrupt(d)), A, G)
        BY <1>2, <1>4, DropFits, HangupFits
    <2>2. TurnFits(Interrupt(BeginHangup(d)), A, G)
        BY <2>1, InterruptFits
    <2>3. "hangup" \in Notices /\ "recovery" \in Notices
        BY DEF Notices
    <2>4. QED
        BY <2>1, <2>2, <2>3, SendNoticeFits
<1>7. \/ Heard(c, i, kind) = DropTurn(d) \/ Heard(c, i, kind) = e
      \/ Heard(c, i, kind) = SendNotice(Interrupt(BeginHangup(d)), "hangup", {})
      \/ Heard(c, i, kind) = SendNotice(DropTurn(Interrupt(d)), "recovery", {})
    BY DEF Heard, TypeOfUtterance, d
<1>8. QED
    BY <1>5, <1>6, <1>7

\* More may have been transcribed.
LEMMA HeardMore ==
    ASSUME NEW A, NEW H, NEW c, TurnFits(c, A, H), NEW G, H \subseteq G
    PROVE  TurnFits(c, A, G)
BY DEF TurnFits, Remembers

\* A turn acted on is remembered by its number, once its text is consumed.
LEMMA ActedFits ==
    ASSUME NEW A, NEW H, NEW c, TurnFits(c, A, H), c.unsent = {}, c.pendingText = {}, NEW B, NEW rev, rev = c.rev
    PROVE  TurnFits([c EXCEPT !.dispatchRev = rev], B, H)
<1> DEFINE d == [c EXCEPT !.dispatchRev = rev]
<1>1. DOMAIN c = Fields /\ Carries(c) /\ Remembers(c, A, H)
    BY DEF TurnFits, Carries, Fields
<1>2. /\ d.decision = c.decision /\ d.unsent = {} /\ d.latest = c.latest /\ d.rev = c.rev
      /\ d.pendingText = {} /\ d.pendingRev = c.pendingRev /\ d.dispatchRev = c.rev
      /\ Carries(d)
    BY <1>1, HasFields DEF Carries, Fields
<1> HIDE DEF d
<1>3. Remembers(d, B, H)
    BY <1>1, <1>2 DEF Remembers
<1>4. QED
    BY <1>2, <1>3 DEF TurnFits, d

\* Carrying out starts from a client that has consumed the turn.
LEMMA HandledFits ==
    ASSUME NEW A, NEW H, TurnFits(client, A, H)
    PROVE  /\ TurnFits(Ended, A, H) /\ TurnFits(Handled, A, H)
           /\ Handled.unsent = {} /\ Handled.pendingText = {} /\ Handled.rev = client.rev
<1> DEFINE c == [client EXCEPT !.decision = NoDecision]
<1>0. DOMAIN client = Fields
    BY DEF TurnFits, Carries, Fields
<1>1. TurnFits(c, A, H) /\ c.rev = client.rev
    BY <1>0, WithdrawFits, HasFields
<1> HIDE DEF c
<1>2. TurnFits(Ended, A, H) /\ Ended.rev = client.rev
    <2>1. Ended = Finish(c)
        BY DEF Ended, c
    <2>2. TurnFits(Finish(c), A, H) /\ SameTurns(c, Finish(c))
        BY <1>1, FinishFits
    <2>3. QED
        BY <1>1, <2>1, <2>2 DEF SameTurns
<1>3. TurnFits(Consume(Ended), A, H)
    BY <1>2, WithdrawFits
<1>4. TurnFits(Handled, A, H)
    BY <1>3, WithdrawFits DEF Handled
<1>5. DOMAIN Ended = Fields /\ DOMAIN Consume(Ended) = Fields
    BY <1>2, <1>3 DEF TurnFits, Carries, Fields
<1>6. Consume(Ended).pendingText = {} /\ Consume(Ended).rev = Ended.rev
    BY <1>5, HasFields DEF Consume
<1>7. Handled.unsent = {} /\ Handled.pendingText = {} /\ Handled.rev = client.rev
    BY <1>2, <1>5, <1>6, HasFields DEF Handled
<1>8. QED
    BY <1>2, <1>4, <1>7

-----------------------------------------------------------------------------
(* Its steps. *)

\* What the caller does.
LEMMA CallerFits ==
    ASSUME TurnInv, CallerActs
    PROVE  TurnFits(client, Acted, Transcripts)' /\ UNCHANGED <<dispatched, tools>>
           /\ items' \in [begun : 0 .. MaxItems, open : SUBSET Items] /\ items'.open \subseteq 1 .. items'.begun
           /\ Transcripts \subseteq Transcripts'
<1> USE RealtimeAssumption
<1>0. /\ TurnFits(client, Acted, Transcripts) /\ items.begun \in 0 .. MaxItems
      /\ items \in [begun : 0 .. MaxItems, open : SUBSET Items] /\ items.open \subseteq 1 .. items.begun
      /\ Acted \subseteq Transcripts
    BY DEF TurnInv, CallTypes
<1>1. CASE SpeechStarted
    <2>1. /\ items.begun < MaxItems /\ UNCHANGED <<dispatched, tools>>
          /\ items' = [begun |-> items.begun + 1, open |-> items.open \cup {items.begun + 1}]
          /\ client' = [client EXCEPT !.speaking = TRUE, !.awaiting = TRUE]
        BY <1>1 DEF SpeechStarted
    <2>2. TurnFits([client EXCEPT !.speaking = TRUE], Acted, Transcripts)
        BY <1>0, FlagsFit
    <2>3. client' = [[client EXCEPT !.speaking = TRUE] EXCEPT !.awaiting = TRUE]
        BY <2>1
    <2>4. TurnFits(client', Acted, Transcripts)
        BY <2>2, <2>3, FlagsFit
    <2>5. Transcripts' = Transcripts
        BY <1>0, <2>1 DEF Transcripts
    <2>6. Acted' = Acted
        BY <2>1 DEF Acted
    <2>7. items' \in [begun : 0 .. MaxItems, open : SUBSET Items] /\ items'.open \subseteq 1 .. items'.begun
        BY <1>0, <2>1 DEF Items
    <2>8. QED
        BY <2>1, <2>4, <2>5, <2>6, <2>7
<1>2. ASSUME NEW i \in Items, NEW kind \in TypeOfUtterance, Transcribed(i, kind) \/ NothingTranscribed(i)
      PROVE  TurnFits(client, Acted, Transcripts)' /\ UNCHANGED <<dispatched, tools>>
             /\ items' \in [begun : 0 .. MaxItems, open : SUBSET Items] /\ items'.open \subseteq 1 .. items'.begun
             /\ Transcripts \subseteq Transcripts'
    <2> DEFINE c == [client EXCEPT !.awaiting = @ /\ i # items.begun]
    <2>1. /\ i \in items.open /\ items' = [items EXCEPT !.open = @ \ {i}] /\ UNCHANGED <<dispatched, tools>>
          /\ client' \in {Flush(ResumeTurn(Heard(c, i, kind))), Flush(ResumeTurn(c))}
        BY <1>2 DEF Transcribed, NothingTranscribed
    <2>2. TurnFits(c, Acted, Transcripts)
        BY <1>0, FlagsFit
    <2>3. i \notin Acted
        BY <1>0, <2>1 DEF Transcripts
    <2>4. /\ items'.begun = items.begun /\ items'.open = items.open \ {i}
          /\ items' \in [begun : 0 .. MaxItems, open : SUBSET Items]
        BY <1>0, <2>1
    <2>5. Transcripts' = Transcripts \cup {i} /\ Acted' = Acted
        BY <1>0, <2>1, <2>4 DEF Transcripts, Acted
    <2> HIDE DEF c
    <2>6. TurnFits(Heard(c, i, kind), Acted', Transcripts') /\ TurnFits(c, Acted', Transcripts')
        BY <2>2, <2>3, <2>5, TextFits, HeardMore
    <2>7. TurnFits(client', Acted', Transcripts')
        BY <2>1, <2>6, QueueFits, FlushFits
    <2>8. QED
        BY <1>0, <2>1, <2>4, <2>5, <2>7
<1>3. CASE SpeechStopped \/ EarlyInterruption
    <2>1. UNCHANGED <<items, dispatched, tools>>
        BY <1>3 DEF SpeechStopped, EarlyInterruption
    <2>2. TurnFits(client', Acted, Transcripts)
        <3>1. TurnFits([client EXCEPT !.speaking = FALSE], Acted, Transcripts)
            BY <1>0, FlagsFit
        <3>2. TurnFits(ResumeTurn([client EXCEPT !.speaking = FALSE]), Acted, Transcripts)
            BY <3>1, QueueFits
        <3>3. QED
            BY <1>0, <1>3, <3>2, FlushFits, InterruptFits DEF SpeechStopped, EarlyInterruption
    <2>3. Acted' = Acted /\ Transcripts' = Transcripts
        BY <2>1 DEF Acted, Transcripts
    <2>4. QED
        BY <1>0, <2>1, <2>2, <2>3
<1>4. QED
    BY <1>1, <1>2, <1>3 DEF CallerActs, TypeOfUtterance

\* An instruction or a plan acts on turns nobody has acted on.
LEMMA TextIsNew ==
    ASSUME TurnInv, CarriedOut, Unacted
    PROVE  Text \cap Acted = {} /\ Text \subseteq Transcripts
<1>1. client.decision # NoDecision /\ client.decision.rev = client.rev /\ client.dispatchRev # client.rev
    BY DEF CarriedOut, Current, Unacted
<1>2. Remembers(client, Acted, Transcripts)
    BY DEF TurnInv, TurnFits
<1>3. QED
    BY <1>1, <1>2 DEF Remembers, Text

\* An instruction or a plan: its turns are acted on for the first time.
LEMMA DispatchFits ==
    ASSUME TurnInv, DecisionSends \/ DecisionPlans
    PROVE  TurnFits(client, Acted, Transcripts)' /\ TurnActedOnce' /\ (Acted \subseteq Transcripts)'
           /\ items' = items /\ dispatched' \in [Items -> Nat]
<1> USE RealtimeAssumption
<1>0. TurnFits(client, Acted, Transcripts) /\ dispatched \in [Items -> Nat] /\ TurnActedOnce
      /\ Acted \subseteq Transcripts
    BY DEF TurnInv, CallTypes
<1>1. CarriedOut /\ Unacted /\ Dispatch
    BY DEF DecisionSends, DecisionPlans
<1>2. Text \cap Acted = {} /\ Text \subseteq Transcripts /\ items' = items
    BY <1>1, TextIsNew DEF CarriedOut
<1>3. Transcripts' = Transcripts
    BY <1>2 DEF Transcripts
<1>4. /\ dispatched' \in [Items -> Nat]
      /\ \A t \in Items : dispatched'[t] = IF t \in Text THEN dispatched[t] + 1 ELSE dispatched[t]
    BY <1>0, <1>1 DEF Dispatch
<1>5. TurnActedOnce' /\ Acted' \subseteq Transcripts
    <2>1. ASSUME NEW t \in Items
          PROVE  dispatched'[t] <= 1 /\ (dispatched'[t] # 0 => t \in Transcripts)
        <3>1. CASE t \in Text
            <4>1. dispatched[t] = 0
                BY <1>2, <3>1 DEF Acted
            <4>2. QED
                BY <1>2, <1>4, <3>1, <4>1
        <3>2. CASE t \notin Text
            BY <1>0, <1>4, <3>2 DEF TurnActedOnce, Acted
        <3>3. QED
            BY <3>1, <3>2
    <2>2. QED
        BY <2>1 DEF TurnActedOnce, Acted
<1>6. TurnFits([Handled EXCEPT !.dispatchRev = client.rev], Acted', Transcripts)
    BY <1>0, HandledFits, ActedFits
<1>7. TurnFits(client', Acted', Transcripts)
    <2>1. client' = [Handled EXCEPT !.dispatchRev = client.rev]
          \/ client' = [[Handled EXCEPT !.dispatchRev = client.rev] EXCEPT !.planning = TRUE]
        BY DEF DecisionSends, DecisionPlans
    <2> DEFINE d == [Handled EXCEPT !.dispatchRev = client.rev]
    <2> HIDE DEF d
    <2>2. TurnFits(d, Acted', Transcripts) /\ TurnFits([d EXCEPT !.planning = TRUE], Acted', Transcripts)
        BY <1>6, FlagsFit DEF d
    <2>3. client' = d \/ client' = [d EXCEPT !.planning = TRUE]
        BY <2>1 DEF d
    <2>4. QED
        BY <2>2, <2>3
<1>8. QED
    BY <1>2, <1>3, <1>4, <1>5, <1>7

\* The end of a decision that changes nothing of the turns but its own text.
LEMMA DecisionFits ==
    ASSUME TurnInv, DecisionWithdrawn \/ DecisionFails \/ DecisionIgnored
    PROVE  TurnFits(client', Acted, Transcripts) /\ UNCHANGED <<items, dispatched, tools>>
<1>0. TurnFits(client, Acted, Transcripts) /\ client.activeNotice \in NoticesOrNone
    BY DEF TurnInv, TurnFits, Carries
<1> DEFINE c == NoticePart(Settle(Ended, client.purpose), client.activeNotice, FALSE)
<1>1. TurnFits(Ended, Acted, Transcripts)
    BY <1>0, HandledFits
<1>2. TurnFits(Settle(Ended, client.purpose), Acted, Transcripts) /\ TurnFits(Speak(Ended), Acted, Transcripts)
    BY <1>1, SettleFits, SpeakFits
<1>3. \A told : /\ TurnFits(NoticePart(Ended, client.activeNotice, told), Acted, Transcripts)
                /\ TurnFits(NoticePart(Speak(Ended), client.activeNotice, told), Acted, Transcripts)
                /\ TurnFits(NoticePart(Settle(Ended, client.purpose), client.activeNotice, told), Acted, Transcripts)
    BY <1>0, <1>1, <1>2, NoticePartFits
<1>4. TurnFits(c, Acted, Transcripts)
    BY <1>3
<1>5. CASE DecisionWithdrawn
    <2>1. client' = c /\ UNCHANGED <<items, dispatched, tools>>
        BY <1>5 DEF DecisionWithdrawn, Ended
    <2>2. QED
        BY <1>4, <2>1
<1>6. CASE DecisionFails
    <2>1. client' \in {c, Speak(c)} /\ UNCHANGED <<items, dispatched, tools>>
        BY <1>6 DEF DecisionFails, Ended
    <2> HIDE DEF c
    <2>2. QED
        BY <1>4, <2>1, SpeakFits
<1>7. CASE DecisionIgnored
    <2>1. UNCHANGED <<items, dispatched, tools>>
        BY <1>7 DEF DecisionIgnored
    <2>2. \E told : client' \in {NoticePart(Ended, client.activeNotice, told),
                                 NoticePart(Speak(Ended), client.activeNotice, told),
                                 NoticePart(Settle(Ended, client.purpose), client.activeNotice, told)}
        BY <1>7 DEF DecisionIgnored
    <2>3. QED
        BY <1>3, <2>1, <2>2
<1>8. QED
    BY <1>5, <1>6, <1>7

\* The end of a plan takes up the queued turn, or says what was done.
LEMMA PlanResultFits ==
    ASSUME NEW A, NEW H, NEW c, TurnFits(c, A, H)
    PROVE  TurnFits(PlanResult(c), A, H)
<1>1. TurnFits([c EXCEPT !.pending = FALSE], A, H)
    BY FlagsFit
<1>2. QED
    BY <1>1, RoutedFits, SpeakFits DEF PlanResult

\* A decision carried out that starts nothing for the caller's text.
LEMMA OutcomeFits ==
    ASSUME TurnInv, DecisionTalks \/ DecisionReads \/ PlanNotRun \/ DecisionHangsUp
    PROVE  TurnFits(client', Acted, Transcripts) /\ UNCHANGED <<items, dispatched>>
<1>0. TurnFits(client, Acted, Transcripts) /\ client.activeNotice \in NoticesOrNone
    BY DEF TurnInv, TurnFits, Carries
<1>1. /\ TurnFits(Handled, Acted, Transcripts)
      /\ TurnFits([Handled EXCEPT !.dispatchRev = client.rev], Acted, Transcripts)
    BY <1>0, HandledFits, ActedFits
<1>2. UNCHANGED <<items, dispatched>>
    BY DEF DecisionTalks, DecisionReads, PlanNotRun, DecisionHangsUp, CarriedOut
<1>3. CASE DecisionTalks \/ DecisionReads
    <2>1. TurnFits(Speak(Handled), Acted, Transcripts)
        BY <1>1, SpeakFits
    <2>2. QED
        BY <1>0, <1>1, <1>2, <1>3, <2>1, NoticePartFits DEF DecisionTalks, DecisionReads
<1>4. CASE PlanNotRun
    <2>1. PICK recorded \in {FALSE, client.speaking} :
              client' = NoticePart(
                PlanResult([Handled EXCEPT !.dispatchRev = IF recorded THEN client.rev ELSE @]),
                client.activeNotice, TRUE)
        BY <1>4 DEF PlanNotRun
    <2>2. TurnFits([Handled EXCEPT !.dispatchRev = IF recorded THEN client.rev ELSE @], Acted, Transcripts)
        <3>1. CASE recorded
            BY <1>1, <3>1
        <3>2. CASE ~recorded
            <4>1. [Handled EXCEPT !.dispatchRev = IF recorded THEN client.rev ELSE @]
                    = [Handled EXCEPT !.dispatchRev = Handled.dispatchRev]
                BY <3>2
            <4>2. DOMAIN Handled = Fields /\ Carries(Handled)
                BY <1>1 DEF TurnFits, Carries, Fields
            <4>3. /\ SameTurns(Handled, [Handled EXCEPT !.dispatchRev = Handled.dispatchRev])
                  /\ Carries([Handled EXCEPT !.dispatchRev = Handled.dispatchRev])
                BY <4>2, HasFields DEF SameTurns, Carries, Fields
            <4>4. QED
                BY <1>1, <4>1, <4>3, SameFits
        <3>3. QED
            BY <3>1, <3>2
    <2>3. TurnFits(PlanResult([Handled EXCEPT !.dispatchRev = IF recorded THEN client.rev ELSE @]), Acted, Transcripts)
        BY <2>2, PlanResultFits
    <2>4. QED
        BY <1>0, <1>2, <2>1, <2>3, NoticePartFits
<1>5. CASE DecisionHangsUp
    <2>1. TurnFits(BeginHangup(Handled), Acted, Transcripts)
        BY <1>1, HangupFits
    <2>2. TurnFits(Request(BeginHangup(Handled), "farewell", NoNotice), Acted, Transcripts)
        BY <2>1, RequestFits DEF NoticesOrNone
    <2>3. QED
        BY <1>0, <1>2, <1>5, <2>2, NoticePartFits DEF DecisionHangsUp
<1>6. QED
    BY <1>3, <1>4, <1>5

\* The return of an awaited call, and the next action of a plan.
LEMMA ReturnFits ==
    ASSUME TurnInv, NEW k \in DOMAIN tools, CallReturns(k)
    PROVE  TurnFits(client', Acted, Transcripts) /\ UNCHANGED <<items, dispatched>>
<1>0. TurnFits(client, Acted, Transcripts) /\ tools \in Seq(Call)
    BY DEF TurnInv, CallTypes
<1>1. tools[k].notice \in NoticesOrNone
    <2>1. tools[k] \in Call
        BY <1>0
    <2>2. QED
        BY <2>1 DEF Call
<1>2. CASE ToolReturns(k)
    <2>1. TurnFits(Speak(client), Acted, Transcripts) /\ TurnFits(TakePending(Flush(client)), Acted, Transcripts)
        BY <1>0, SpeakFits, FlushFits, QueueFits
    <2>2. QED
        BY <1>1, <1>2, <2>1, NoticePartFits DEF ToolReturns
<1>3. CASE PlanContinues(k)
    <2>1. TurnFits(Consume(client), Acted, Transcripts)
        BY <1>0, WithdrawFits
    <2>2. client' = [Consume(client) EXCEPT !.unsent = {}] /\ UNCHANGED <<items, dispatched>>
        BY <1>3 DEF PlanContinues
    <2>3. QED
        BY <2>1, <2>2, WithdrawFits
<1>4. CASE PlanEnds(k)
    <2>1. TurnFits([client EXCEPT !.planning = FALSE], Acted, Transcripts)
        BY <1>0, FlagsFit
    <2>2. TurnFits(PlanResult([client EXCEPT !.planning = FALSE]), Acted, Transcripts)
        BY <2>1, PlanResultFits
    <2>3. QED
        BY <1>1, <1>4, <2>2, NoticePartFits DEF PlanEnds
<1>5. QED
    BY <1>2, <1>3, <1>4 DEF CallReturns

\* The line is occupied and freed by what is spoken and by the service.
Line == \/ \E failed \in BOOLEAN : SpeechEnds(failed)
        \/ ServiceActs \/ EventArrives \/ JobCompletes \/ DebounceFires

\* What is spoken, and what the service takes and sends, touches no turn.
LEMMA LineFits ==
    ASSUME TurnInv, Line
    PROVE  TurnFits(client', Acted, Transcripts) /\ UNCHANGED <<items, dispatched, tools>>
<1>0. /\ TurnFits(client, Acted, Transcripts) /\ client.activeNotice \in NoticesOrNone
      /\ DOMAIN client = Fields /\ Carries(client)
    BY DEF TurnInv, TurnFits, Carries, Fields
<1>1. ASSUME NEW failed \in BOOLEAN, SpeechEnds(failed)
      PROVE  TurnFits(client', Acted, Transcripts) /\ UNCHANGED <<items, dispatched, tools>>
    <2> DEFINE c == [client EXCEPT !.speech = FALSE, !.active = FALSE, !.purpose = "none"]
    <2>1. SameTurns(client, c) /\ Carries(c)
        BY <1>0, HasFields DEF SameTurns, Carries, Fields
    <2>2. TurnFits(c, Acted, Transcripts)
        BY <1>0, <2>1, SameFits
    <2>3. /\ client' \in {Flush(ResumeTurn(c)), Flush(ResumeTurn(Request(c, "answer", NoNotice)))}
          /\ UNCHANGED <<items, dispatched, tools>>
        BY <1>1 DEF SpeechEnds
    <2> HIDE DEF c
    <2>4. TurnFits(Request(c, "answer", NoNotice), Acted, Transcripts)
        BY <2>2, RequestFits DEF NoticesOrNone
    <2>5. /\ TurnFits(Flush(ResumeTurn(c)), Acted, Transcripts)
          /\ TurnFits(Flush(ResumeTurn(Request(c, "answer", NoNotice))), Acted, Transcripts)
        BY <2>2, <2>4, QueueFits, FlushFits
    <2>6. QED
        BY <2>3, <2>5
<1>2. CASE ServiceActs
    <2>1. /\ client' = client \/ client' = [client EXCEPT !.outbox = Tail(@)]
          /\ UNCHANGED <<items, dispatched, tools>>
        BY <1>2 DEF ServiceActs, ServiceTakes, ServiceFinishes
    <2>2. \A v : TurnFits([client EXCEPT !.outbox = v], Acted, Transcripts)
        BY <1>0, FlagsFit
    <2>3. QED
        BY <1>0, <2>1, <2>2
<1>3. CASE ResponseCreated \/ CancelCameLate
    <2> DEFINE c == [client EXCEPT !.active = FALSE, !.canceling = FALSE]
    <2>1. SameTurns(client, c) /\ Carries(c)
        BY <1>0, HasFields DEF SameTurns, Carries, Fields
    <2>2. client' \in {Created(client), c} /\ UNCHANGED <<items, dispatched, tools>>
        BY <1>3 DEF ResponseCreated, CancelCameLate, Event
    <2>3. TurnFits(c, Acted, Transcripts) /\ TurnFits(Created(client), Acted, Transcripts)
        BY <1>0, <2>1, SameFits, CreatedFits
    <2>4. QED
        BY <2>2, <2>3
<1>4. CASE ResponseDone
    <2>1. TurnFits(Finish(client), Acted, Transcripts)
        BY <1>0, FinishFits
    <2>2. /\ TurnFits(Speak(Finish(client)), Acted, Transcripts)
          /\ TurnFits(Settle(Finish(client), client.purpose), Acted, Transcripts)
        BY <2>1, SpeakFits, SettleFits
    <2>3. \A told : /\ TurnFits(NoticePart(Speak(Finish(client)), client.activeNotice, told), Acted, Transcripts)
                    /\ TurnFits(NoticePart(Settle(Finish(client), client.purpose), client.activeNotice, told),
                                Acted, Transcripts)
        BY <1>0, <2>2, NoticePartFits
    <2>4. \E told : client' \in {NoticePart(Speak(Finish(client)), client.activeNotice, told),
                                 NoticePart(Settle(Finish(client), client.purpose), client.activeNotice, told)}
        BY <1>4 DEF ResponseDone
    <2>5. UNCHANGED <<items, dispatched, tools>>
        BY <1>4 DEF ResponseDone, Event
    <2>6. QED
        BY <2>3, <2>4, <2>5
<1>5. CASE JobCompletes
    <2>1. "job" \in Notices
        BY DEF Notices
    <2>2. QED
        BY <1>0, <1>5, <2>1, SendNoticeFits DEF JobCompletes
<1>6. CASE DebounceFires
    <2>1. TurnFits([client EXCEPT !.debounce = FALSE], Acted, Transcripts)
        BY <1>0, FlagsFit
    <2>2. QED
        BY <1>6, <2>1, QueueFits DEF DebounceFires
<1>7. QED
    BY <1>1, <1>2, <1>3, <1>4, <1>5, <1>6 DEF Line, EventArrives

\* The end of the call keeps no turn, and forgets no action.
LEMMA OverFits ==
    ASSUME TurnInv, Over
    PROVE  TurnFits(client, Acted, Transcripts)' /\ UNCHANGED <<dispatched, tools>>
           /\ items' \in [begun : 0 .. MaxItems, open : SUBSET Items] /\ items'.open \subseteq 1 .. items'.begun
           /\ Transcripts \subseteq Transcripts'
<1>0. /\ items \in [begun : 0 .. MaxItems, open : SUBSET Items] /\ Acted \subseteq Transcripts
    BY DEF TurnInv, CallTypes
<1>1. items' = [items EXCEPT !.open = {}] /\ UNCHANGED <<dispatched, tools>>
      /\ client' = [InitClient EXCEPT !.closed = TRUE]
    BY DEF Over
<1>2. 0 \notin Acted
    BY DEF Acted, Items
<1>3. /\ Carries(client') /\ client'.rev = 0 /\ client'.pendingRev = 0 /\ client'.dispatchRev = 0
      /\ client'.decision = NoDecision /\ client'.unsent = {} /\ client'.pendingText = {} /\ client'.latest = 0
    BY <1>1 DEF InitClient, Carries, NoticesOrNone
<1>4. NoDecision \in [rev : Nat, aborted : BOOLEAN] /\ NoDecision.rev = 0
    BY DEF NoDecision
<1>5. items' \in [begun : 0 .. MaxItems, open : SUBSET Items] /\ items'.open = {} /\ items'.begun = items.begun
    BY <1>0, <1>1
<1>6. Transcripts \subseteq Transcripts' /\ Acted' = Acted
    BY <1>1, <1>5 DEF Transcripts, Acted
<1>7. TurnFits(client', Acted, Transcripts')
    BY <1>2, <1>3, <1>4 DEF TurnFits, Remembers
<1>8. QED
    BY <1>1, <1>5, <1>6, <1>7

\* A decision acted on is one call more.
LEMMA AwaitIs ==
    ASSUME TurnInv, NEW kind \in {"read", "send", "plan"}, Await(kind)
    PROVE  /\ tools' \in Seq(Call) /\ Len(tools') = Len(tools) + 1
           /\ tools'[Len(tools) + 1].rev = client.decision.rev
<1> DEFINE t == [kind |-> kind, rev |-> client.decision.rev,
                 left |-> IF kind = "plan" THEN PlanSteps ELSE 1, notice |-> client.activeNotice]
<1>1. client.decision.rev \in Nat /\ client.activeNotice \in NoticesOrNone /\ tools \in Seq(Call)
    BY DEF TurnInv, TurnFits, Carries, Remembers, CallTypes
<1>2. t \in Call /\ t.rev = client.decision.rev
    BY <1>1, RealtimeAssumption DEF Call
<1>3. tools' = Append(tools, t)
    BY DEF Await
<1> HIDE DEF t
<1>4. QED
    BY <1>1, <1>2, <1>3

\* A call that returned is gone; those after it keep their order.
LEMMA WithoutIs ==
    ASSUME tools \in Seq(Call), NEW k \in DOMAIN tools
    PROVE  Without(k) \in Seq(Call) /\ Len(Without(k)) = Len(tools) - 1
<1> DEFINE front == SubSeq(tools, 1, k - 1)
           back  == SubSeq(tools, k + 1, Len(tools))
<1>1. k \in 1 .. Len(tools) /\ Len(tools) \in Nat
    OBVIOUS
<1>2. /\ front \in Seq(Call) /\ Len(front) = k - 1
      /\ back \in Seq(Call) /\ Len(back) = Len(tools) - k
    BY <1>1
<1> HIDE DEF front, back
<1>3. front \o back \in Seq(Call) /\ Len(front \o back) = Len(front) + Len(back)
    BY <1>2, ConcatProperties
<1>4. Without(k) = front \o back
    BY DEF Without, front, back
<1>5. QED
    BY <1>1, <1>2, <1>3, <1>4

\* What a step does to the awaited calls.
Awaits ==
    /\ Len(tools') = Len(tools) + 1 /\ tools'[Len(tools) + 1].rev = client.rev
    /\ CallUp /\ ~client.ending

\* The call whose plan goes on is for the newest turn.
Continues(k) ==
    /\ k \in DOMAIN tools /\ tools[k].rev = client.rev /\ CallUp /\ ~client.ending
    /\ tools' = [tools EXCEPT ![k].left = @ - 1]

\* Each step awaits one call more, lets one return or continue, or leaves them alone.
LEMMA ToolsStep ==
    ASSUME TurnInv, [Next]_turnVars
    PROVE  /\ tools' \in Seq(Call)
           /\ \/ tools' = tools \/ Awaits \/ Len(tools') = Len(tools) - 1
              \/ \E k \in DOMAIN tools : Continues(k)
<1>0. tools \in Seq(Call)
    BY DEF TurnInv, CallTypes
<1>1. CASE DecisionReads \/ DecisionSends \/ DecisionPlans
    <2>1. PICK kind \in {"read", "send", "plan"} : Await(kind)
        BY <1>1 DEF DecisionReads, DecisionSends, DecisionPlans
    <2>2. CallUp /\ ~client.ending /\ client.decision.rev = client.rev
        BY <1>1 DEF DecisionReads, DecisionSends, DecisionPlans, CarriedOut, Current
    <2>3. QED
        BY <2>1, <2>2, AwaitIs DEF Awaits
<1>2. ASSUME NEW k \in DOMAIN tools, ToolReturns(k) \/ PlanEnds(k)
      PROVE  tools' \in Seq(Call) /\ Len(tools') = Len(tools) - 1
    BY <1>0, <1>2, WithoutIs DEF ToolReturns, PlanEnds
<1>3. ASSUME NEW k \in DOMAIN tools, PlanContinues(k)
      PROVE  tools' \in Seq(Call) /\ Continues(k)
    <2>1. Continues(k) /\ tools[k].left > 1
        BY <1>3 DEF PlanContinues, PlanCurrent, Continues
    <2>2. tools[k] \in Call /\ tools[k].left \in Nat
        <3>1. tools[k] \in Call
            BY <1>0
        <3>2. QED
            BY <3>1 DEF Call
    <2>3. [tools[k] EXCEPT !.left = tools[k].left - 1] \in Call
        BY <2>1, <2>2 DEF Call
    <2>4. tools' = [tools EXCEPT ![k] = [tools[k] EXCEPT !.left = tools[k].left - 1]]
        BY <2>1 DEF Continues
    <2>5. QED
        BY <1>0, <2>1, <2>3, <2>4
<1>4. CASE CallerActs \/ Line \/ DecisionWithdrawn \/ DecisionFails \/ DecisionIgnored \/ Over
    BY <1>0, <1>4, CallerFits, LineFits, DecisionFits, OverFits
<1>5. CASE DecisionTalks \/ PlanNotRun \/ DecisionHangsUp \/ UNCHANGED turnVars
    BY <1>0, <1>5 DEF DecisionTalks, PlanNotRun, DecisionHangsUp, turnVars
<1>6. QED
    BY <1>1, <1>2, <1>3, <1>4, <1>5 DEF Next, DecisionReturns, CallReturns, Line,
       FarewellPlayed,
       DeadlineFires, Disconnected

\* Every step keeps the invariant.
LEMMA TurnInvStep == TurnInv /\ [Next]_turnVars => TurnInv'
<1>0. SUFFICES ASSUME TurnInv, [Next]_turnVars PROVE TurnInv'
    OBVIOUS
<1>1. /\ tools' \in Seq(Call) /\ CallTypes /\ TurnActedOnce /\ Acted \subseteq Transcripts
      /\ TurnFits(client, Acted, Transcripts)
    BY <1>0, ToolsStep DEF TurnInv
<1>2. ASSUME TurnFits(client, Acted, Transcripts)', UNCHANGED dispatched,
             items' \in [begun : 0 .. MaxItems, open : SUBSET Items], items'.open \subseteq 1 .. items'.begun,
             Transcripts \subseteq Transcripts'
      PROVE  TurnInv'
    <2>1. Acted' = Acted /\ TurnActedOnce'
        BY <1>1, <1>2 DEF Acted, TurnActedOnce
    <2>2. CallTypes'
        BY <1>1, <1>2 DEF CallTypes
    <2>3. Acted' \subseteq Transcripts'
        BY <1>1, <1>2, <2>1
    <2>4. QED
        BY <1>2, <2>1, <2>2, <2>3 DEF TurnInv
<1>3. ASSUME TurnFits(client', Acted, Transcripts), UNCHANGED <<items, dispatched>>
      PROVE  TurnInv'
    <2>1. Acted' = Acted /\ Transcripts' = Transcripts
        BY <1>3 DEF Acted, Transcripts
    <2>2. TurnFits(client', Acted', Transcripts')
        BY <1>3, <2>1
    <2>3. items' \in [begun : 0 .. MaxItems, open : SUBSET Items] /\ items'.open \subseteq 1 .. items'.begun
        BY <1>1, <1>3 DEF CallTypes
    <2>4. QED
        BY <1>2, <1>3, <2>1, <2>2, <2>3
<1>4. CASE CallerActs \/ Over
    <2>1. /\ TurnFits(client, Acted, Transcripts)' /\ UNCHANGED dispatched
          /\ items' \in [begun : 0 .. MaxItems, open : SUBSET Items] /\ items'.open \subseteq 1 .. items'.begun
          /\ Transcripts \subseteq Transcripts'
        BY <1>0, <1>4, CallerFits, OverFits
    <2>2. QED
        BY <1>2, <2>1
<1>5. CASE DecisionSends \/ DecisionPlans
    <2>1. /\ TurnFits(client, Acted, Transcripts)' /\ TurnActedOnce' /\ (Acted \subseteq Transcripts)'
          /\ items' = items /\ dispatched' \in [Items -> Nat]
        BY <1>0, <1>5, DispatchFits
    <2>2. CallTypes'
        BY <1>1, <2>1 DEF CallTypes
    <2>3. QED
        BY <2>1, <2>2 DEF TurnInv
<1>6. CASE DecisionWithdrawn \/ DecisionFails \/ DecisionIgnored \/ Line
    BY <1>0, <1>3, <1>6, DecisionFits, LineFits
<1>7. CASE DecisionTalks \/ DecisionReads \/ PlanNotRun \/ DecisionHangsUp
    BY <1>0, <1>3, <1>7, OutcomeFits
<1>8. ASSUME NEW k \in DOMAIN tools, CallReturns(k)
      PROVE  TurnInv'
    BY <1>0, <1>3, <1>8, ReturnFits
<1>9. CASE UNCHANGED turnVars
    BY <1>1, <1>3, <1>9 DEF turnVars
<1>10. QED
    BY <1>0, <1>4, <1>5, <1>6, <1>7, <1>8, <1>9 DEF Next, DecisionReturns, Line,
       FarewellPlayed,
       DeadlineFires, Disconnected

\* However the caller, the decision service, the plans and the Realtime service
\* interleave: what the client remembers of the turns fits what was acted on.
THEOREM TurnInvariant == Spec => []TurnInv
<1>1. Init => TurnInv
    <2> SUFFICES ASSUME Init PROVE TurnInv
        OBVIOUS
    <2>1. CallTypes
        BY RealtimeAssumption DEF Init, CallTypes
    <2>2. Acted = {} /\ TurnActedOnce
        BY DEF Init, Acted, TurnActedOnce
    <2>3. /\ Carries(client) /\ client.rev = 0 /\ client.pendingRev = 0 /\ client.dispatchRev = 0
          /\ client.decision = NoDecision /\ client.unsent = {} /\ client.pendingText = {} /\ client.latest = 0
        BY DEF Init, InitClient, Carries, NoticesOrNone
    <2>4. NoDecision \in [rev : Nat, aborted : BOOLEAN] /\ NoDecision.rev = 0
        BY DEF NoDecision
    <2>5. TurnFits(client, Acted, Transcripts)
        BY <2>2, <2>3, <2>4 DEF TurnFits, Remembers
    <2>6. QED
        BY <2>1, <2>2, <2>5 DEF TurnInv
<1>2. QED
    BY <1>1, TurnInvStep, PTL DEF Spec

\* No turn is acted on twice.
THEOREM ActedOnce == Spec => []TurnActedOnce
<1>1. TurnInv => TurnActedOnce
    BY DEF TurnInv
<1>2. QED
    BY <1>1, TurnInvariant, PTL

\* An instruction is sent, and an action of a plan started, for the newest turn only.
THEOREM StartsAreCurrent == Spec => NewestOnly
<1>1. ASSUME TurnInv, [Next]_turnVars
      PROVE  [\A k \in 1..(Len(tools) + 1) :
               Starts(k) => tools'[k].rev = client.rev /\ CallUp /\ ~client.ending]_turnVars
    <2>1. tools \in Seq(Call) /\ tools' \in Seq(Call)
        BY <1>1, ToolsStep DEF TurnInv, CallTypes
    <2>2. SUFFICES ASSUME NEW k \in 1..(Len(tools) + 1), Starts(k)
                   PROVE  tools'[k].rev = client.rev /\ CallUp /\ ~client.ending
        OBVIOUS
    <2>3. k \in 1 .. Len(tools')
        BY <2>1, <2>2 DEF Starts
    <2>4. CASE tools' = tools
        <3>1. tools[k] \in Call
            BY <2>1, <2>3, <2>4
        <3>2. tools[k].left \in Nat
            BY <3>1 DEF Call
        <3>3. QED
            BY <2>1, <2>2, <2>3, <2>4, <3>2 DEF Starts
    <2>5. CASE Awaits
        BY <2>1, <2>2, <2>5 DEF Awaits, Starts
    <2>6. CASE Len(tools') = Len(tools) - 1
        BY <2>1, <2>2, <2>3, <2>6 DEF Starts
    <2>7. ASSUME NEW j \in DOMAIN tools, Continues(j)
          PROVE  tools'[k].rev = client.rev /\ CallUp /\ ~client.ending
        <3>1. tools[k] \in Call /\ tools[j] \in Call /\ k \in DOMAIN tools
            BY <2>1, <2>3, <2>7 DEF Continues
        <3>2. tools[k].left \in Nat
            BY <3>1 DEF Call
        <3>3. k = j
            BY <2>1, <2>2, <2>3, <2>7, <3>1, <3>2 DEF Continues, Starts
        <3>4. tools'[k].rev = tools[k].rev
            BY <2>1, <2>7, <3>1, <3>3 DEF Continues, Call
        <3>5. QED
            BY <2>7, <3>3, <3>4 DEF Continues
    <2>8. QED
        BY <1>1, <2>4, <2>5, <2>6, <2>7, ToolsStep
<1>2. QED
    BY <1>1, TurnInvariant, PTL DEF Spec, NewestOnly

-----------------------------------------------------------------------------
(* The SIP gateway.                                                         *)

USE DEF ActiveStates, RecoverableStates, RowStates, UnsettledOrClosed

-----------------------------------------------------------------------------
(* The parts of the invariant, each kept by every step.                     *)

\* Types.
LEMMA TypesStep == SInv /\ [SipNext]_vars => SipTypeOK'
<1> SUFFICES ASSUME SInv, [SipNext]_vars PROVE SipTypeOK'
    OBVIOUS
<1> USE SipAssumption DEF SInv, SipTypeOK, storeVars
<1>1. ASSUME NEW w \in Webhooks, Deliver(w) PROVE SipTypeOK'
    BY <1>1 DEF Deliver, Reserve, Resume, Hang, Attach, FlightsFit, CallFits, AcceptedOnce
<1>2. ASSUME NEW w \in Webhooks, Completed(w) PROVE SipTypeOK'
    BY <1>2 DEF Completed
<1>3. ASSUME NEW c \in Calls, Accepted(c) PROVE SipTypeOK'
    BY <1>3 DEF Accepted, Attach
<1>4. ASSUME NEW c \in Calls, AcceptUncertain(c) \/ ConnectFails(c) PROVE SipTypeOK'
    BY <1>4 DEF AcceptUncertain, ConnectFails, Hang
<1>5. ASSUME NEW c \in Calls, Rejected(c) \/ RejectUncertain(c) PROVE SipTypeOK'
    BY <1>5 DEF Rejected, RejectUncertain, Hang
<1>6. ASSUME NEW c \in Calls, Connected(c) PROVE SipTypeOK'
    BY <1>6 DEF Connected
<1>7. ASSUME NEW c \in Calls, HungUp(c) PROVE SipTypeOK'
    BY <1>7 DEF HungUp, Hangup
<1>8. ASSUME NEW c \in Calls, RemoteEnds(c) PROVE SipTypeOK'
    BY <1>8 DEF RemoteEnds
<1>9. ASSUME NEW c \in Calls, SidebandCloses(c) PROVE SipTypeOK'
    BY <1>9 DEF SidebandCloses
<1>10. ASSUME NEW c \in Calls, StoreFails(c) PROVE SipTypeOK'
  <2>1. /\ row' \in [Calls -> RowStates]
        /\ session' \in [Calls -> {"none", "connecting", "open"}]
        /\ flight' \in [Calls -> {"none", "accepting", "rejecting", "connecting", "hanging"}]
    BY <1>10 DEF StoreFails
  <2>2. remote' \in [Calls -> {"ringing", "live", "ended"}]
    BY <1>10 DEF StoreFails
  <2>3. handling' \subseteq Webhooks
    BY <1>10 DEF StoreFails
  <2>4. QED
    BY <1>10, <2>1, <2>2, <2>3 DEF StoreFails
<1>11. ASSUME NEW c \in Calls, Recover(c) PROVE SipTypeOK'
    BY <1>11 DEF Recover, Resume, Hang, Attach
<1>12. ASSUME NEW c \in Calls, NEW who \in {"background", "close"}, HungUpBy(c, who) PROVE SipTypeOK'
    BY <1>12 DEF HungUpBy, Hangup
<1>13. ASSUME NEW c \in Calls, NEW who \in {"background", "close"}, StoreFailsBy(c, who) PROVE SipTypeOK'
  <2>1. hanging' \in [Calls -> SUBSET {"background", "close"}]
    BY <1>13 DEF StoreFailsBy
  <2>2. remote' \in [Calls -> {"ringing", "live", "ended"}]
    BY <1>13 DEF StoreFailsBy
  <2>3. QED
    BY <1>13, <2>1, <2>2 DEF StoreFailsBy
<1>14. CASE Listen \/ Stop \/ CloseAnswers \/ UNCHANGED vars
    BY <1>14 DEF Listen, Stop, CloseAnswers, vars
<1>15. CASE GatewayClose
    BY <1>15 DEF GatewayClose, Active
<1>16. CASE Crash
    BY <1>16 DEF Crash, Up
<1>17. CASE Restart
    BY <1>17 DEF Restart, ActiveCalls
<1>18. QED
    BY <1>1, <1>2, <1>3, <1>4, <1>5, <1>6, <1>7, <1>8, <1>9, <1>10, <1>11, <1>12, <1>13,
       <1>14, <1>15, <1>16, <1>17 DEF SipNext, Answers

\* The operation, the row and the sideband of each call stay in agreement.
LEMMA FlightsStep == SInv /\ [SipNext]_vars => FlightsFit'
<1> SUFFICES ASSUME SInv, [SipNext]_vars PROVE FlightsFit'
    OBVIOUS
<1> USE SipAssumption DEF SInv, SipTypeOK, storeVars, FlightsFit, CallFits, Up, InFlight
<1>1. ASSUME NEW w \in Webhooks, Deliver(w) PROVE FlightsFit'
    BY <1>1 DEF Deliver, Reserve, Resume, Hang, Attach
<1>2. ASSUME NEW w \in Webhooks, Completed(w) PROVE FlightsFit'
    BY <1>2 DEF Completed
<1>3. ASSUME NEW c \in Calls, Accepted(c) PROVE FlightsFit'
    BY <1>3 DEF Accepted, Attach
<1>4. ASSUME NEW c \in Calls, AcceptUncertain(c) \/ ConnectFails(c) PROVE FlightsFit'
    BY <1>4 DEF AcceptUncertain, ConnectFails, Hang
<1>5. ASSUME NEW c \in Calls, Rejected(c) \/ RejectUncertain(c) PROVE FlightsFit'
    BY <1>5 DEF Rejected, RejectUncertain, Hang
<1>6. ASSUME NEW c \in Calls, Connected(c) PROVE FlightsFit'
    BY <1>6 DEF Connected
<1>7. ASSUME NEW c \in Calls, HungUp(c) PROVE FlightsFit'
    BY <1>7 DEF HungUp, Hangup
<1>8. ASSUME NEW c \in Calls, RemoteEnds(c) PROVE FlightsFit'
    BY <1>8 DEF RemoteEnds
<1>9. ASSUME NEW c \in Calls, SidebandCloses(c) PROVE FlightsFit'
    BY <1>9 DEF SidebandCloses, LiveIsTracked, Active
<1>10. ASSUME NEW c \in Calls, StoreFails(c) PROVE FlightsFit'
    BY <1>10 DEF StoreFails
<1>11. ASSUME NEW c \in Calls, Recover(c) PROVE FlightsFit'
    BY <1>11 DEF Recover, Resume, Hang, Attach
<1>12. ASSUME NEW c \in Calls, NEW who \in {"background", "close"}, HungUpBy(c, who) PROVE FlightsFit'
    BY <1>12 DEF HungUpBy, Hangup
<1>13. ASSUME NEW c \in Calls, NEW who \in {"background", "close"}, StoreFailsBy(c, who) PROVE FlightsFit'
    BY <1>13 DEF StoreFailsBy
<1>14. CASE Listen \/ Stop \/ CloseAnswers \/ UNCHANGED vars
  <2>1. CASE Listen \/ Stop
    BY <2>1 DEF Listen, Stop
  <2>2. CASE CloseAnswers
    BY <2>2 DEF CloseAnswers, Settled
  <2>3. CASE UNCHANGED vars
    BY <2>3 DEF vars
  <2>4. QED
    BY <1>14, <2>1, <2>2, <2>3
<1>15. CASE GatewayClose
    BY <1>15 DEF GatewayClose, Active
<1>16. CASE Crash
    BY <1>16 DEF Crash, Up, LiveIsTracked
<1>17. CASE Restart
    BY <1>17 DEF Restart, ActiveCalls
<1>18. QED
    BY <1>1, <1>2, <1>3, <1>4, <1>5, <1>6, <1>7, <1>8, <1>9, <1>10, <1>11, <1>12, <1>13,
       <1>14, <1>15, <1>16, <1>17 DEF SipNext, Answers

\* Accepted once, and nothing live is forgotten: a row never returns to "none",
\* and a call becomes live only while its accept is under way.
LEMMA AcceptedStep == SInv /\ [SipNext]_vars => AcceptedOnce' /\ LiveIsTracked'
<1> SUFFICES ASSUME SInv, [SipNext]_vars PROVE AcceptedOnce' /\ LiveIsTracked'
    OBVIOUS
<1> USE SipAssumption DEF SInv, SipTypeOK, storeVars, FlightsFit, CallFits, AcceptedOnce, LiveIsTracked, Active
<1>1. ASSUME NEW w \in Webhooks, Deliver(w) PROVE AcceptedOnce' /\ LiveIsTracked'
    BY <1>1 DEF Deliver, Reserve, Resume, Hang, Attach
<1>2. ASSUME NEW w \in Webhooks, Completed(w) PROVE AcceptedOnce' /\ LiveIsTracked'
    BY <1>2 DEF Completed
<1>3. ASSUME NEW c \in Calls, Accepted(c) PROVE AcceptedOnce' /\ LiveIsTracked'
    BY <1>3 DEF Accepted, Attach
<1>4. ASSUME NEW c \in Calls, AcceptUncertain(c) \/ ConnectFails(c) PROVE AcceptedOnce' /\ LiveIsTracked'
    BY <1>4 DEF AcceptUncertain, ConnectFails, Hang
<1>5. ASSUME NEW c \in Calls, Rejected(c) \/ RejectUncertain(c) PROVE AcceptedOnce' /\ LiveIsTracked'
    BY <1>5 DEF Rejected, RejectUncertain, Hang
<1>6. ASSUME NEW c \in Calls, Connected(c) PROVE AcceptedOnce' /\ LiveIsTracked'
    BY <1>6 DEF Connected
<1>7. ASSUME NEW c \in Calls, HungUp(c) PROVE AcceptedOnce' /\ LiveIsTracked'
    BY <1>7 DEF HungUp, Hangup
<1>8. ASSUME NEW c \in Calls, RemoteEnds(c) PROVE AcceptedOnce' /\ LiveIsTracked'
    BY <1>8 DEF RemoteEnds
<1>9. ASSUME NEW c \in Calls, SidebandCloses(c) PROVE AcceptedOnce' /\ LiveIsTracked'
    BY <1>9 DEF SidebandCloses
<1>10. ASSUME NEW c \in Calls, StoreFails(c) PROVE AcceptedOnce' /\ LiveIsTracked'
    BY <1>10 DEF StoreFails
<1>11. ASSUME NEW c \in Calls, Recover(c) PROVE AcceptedOnce' /\ LiveIsTracked'
    BY <1>11 DEF Recover, Resume, Hang, Attach
<1>12. ASSUME NEW c \in Calls, NEW who \in {"background", "close"}, HungUpBy(c, who) PROVE AcceptedOnce' /\ LiveIsTracked'
    BY <1>12 DEF HungUpBy, Hangup
<1>13. ASSUME NEW c \in Calls, NEW who \in {"background", "close"}, StoreFailsBy(c, who) PROVE AcceptedOnce' /\ LiveIsTracked'
    BY <1>13 DEF StoreFailsBy
<1>14. CASE Listen \/ Stop \/ CloseAnswers \/ UNCHANGED vars
    BY <1>14 DEF Listen, Stop, CloseAnswers, vars
<1>15. CASE GatewayClose
    BY <1>15 DEF GatewayClose
<1>16. CASE Crash
    BY <1>16 DEF Crash, Up
<1>17. CASE Restart
    BY <1>17 DEF Restart, ActiveCalls
<1>18. QED
    BY <1>1, <1>2, <1>3, <1>4, <1>5, <1>6, <1>7, <1>8, <1>9, <1>10, <1>11, <1>12, <1>13,
       <1>14, <1>15, <1>16, <1>17 DEF SipNext, Answers

\* Recovery looks at what was attached when the process ended.
LEMMA RecoveryStep == SInv /\ [SipNext]_vars => RecoveryFinds'
<1> SUFFICES ASSUME SInv, [SipNext]_vars PROVE RecoveryFinds'
    OBVIOUS
<1> USE SipAssumption DEF SInv, SipTypeOK, storeVars, FlightsFit, CallFits, RecoveryFinds, InFlight, Active, ActiveCalls
<1>1. ASSUME NEW w \in Webhooks, Deliver(w) PROVE RecoveryFinds'
    BY <1>1 DEF Deliver, Reserve, Resume, Hang, Attach
<1>2. ASSUME NEW w \in Webhooks, Completed(w) PROVE RecoveryFinds'
    BY <1>2 DEF Completed
<1>3. ASSUME NEW c \in Calls, Accepted(c) PROVE RecoveryFinds'
    BY <1>3 DEF Accepted, Attach
<1>4. ASSUME NEW c \in Calls, AcceptUncertain(c) \/ ConnectFails(c) PROVE RecoveryFinds'
    BY <1>4 DEF AcceptUncertain, ConnectFails, Hang
<1>5. ASSUME NEW c \in Calls, Rejected(c) \/ RejectUncertain(c) PROVE RecoveryFinds'
    BY <1>5 DEF Rejected, RejectUncertain, Hang
<1>6. ASSUME NEW c \in Calls, Connected(c) PROVE RecoveryFinds'
    BY <1>6 DEF Connected
<1>7. ASSUME NEW c \in Calls, HungUp(c) PROVE RecoveryFinds'
    BY <1>7 DEF HungUp, Hangup
<1>8. ASSUME NEW c \in Calls, RemoteEnds(c) PROVE RecoveryFinds'
    BY <1>8 DEF RemoteEnds
<1>9. ASSUME NEW c \in Calls, SidebandCloses(c) PROVE RecoveryFinds'
    BY <1>9 DEF SidebandCloses
<1>10. ASSUME NEW c \in Calls, StoreFails(c) PROVE RecoveryFinds'
    BY <1>10 DEF StoreFails
<1>11. ASSUME NEW c \in Calls, Recover(c) PROVE RecoveryFinds'
    BY <1>11 DEF Recover, Resume, Hang, Attach
<1>12. ASSUME NEW c \in Calls, NEW who \in {"background", "close"}, HungUpBy(c, who) PROVE RecoveryFinds'
    BY <1>12 DEF HungUpBy, Hangup
<1>13. ASSUME NEW c \in Calls, NEW who \in {"background", "close"}, StoreFailsBy(c, who) PROVE RecoveryFinds'
    BY <1>13 DEF StoreFailsBy
<1>14. CASE Listen \/ Stop \/ CloseAnswers \/ UNCHANGED vars
    BY <1>14 DEF Listen, Stop, CloseAnswers, vars
<1>15. CASE GatewayClose
    BY <1>15 DEF GatewayClose
<1>16. CASE Crash
    BY <1>16 DEF Crash, Up
<1>17. CASE Restart
    BY <1>17 DEF Restart, ActiveCalls
<1>18. QED
    BY <1>1, <1>2, <1>3, <1>4, <1>5, <1>6, <1>7, <1>8, <1>9, <1>10, <1>11, <1>12, <1>13,
       <1>14, <1>15, <1>16, <1>17 DEF SipNext, Answers

-----------------------------------------------------------------------------
(* Capacity: what is live, or may become so, has an active row, and only a  *)
(* reservation below the limit adds to it.                                  *)

LEMMA HeldIsActive == SInv => Held \subseteq ActiveCalls
    BY DEF SInv, Held, ActiveCalls, LiveIsTracked, FlightsFit, CallFits, Active

\* Only the accept of a new call, with a place free, adds a call that is held.
LEMMA HeldIsReserved ==
    SInv /\ [SipNext]_vars =>
        \/ Held' \subseteq Held
        \/ Cardinality(ActiveCalls) < MaxActive /\ \E c \in Calls : Held' \subseteq Held \cup {c}
<1> DEFINE Goal == \/ Held' \subseteq Held
                   \/ Cardinality(ActiveCalls) < MaxActive /\ \E c \in Calls : Held' \subseteq Held \cup {c}
<1> SUFFICES ASSUME SInv, [SipNext]_vars PROVE Goal
    OBVIOUS
<1> USE SipAssumption DEF SInv, SipTypeOK, storeVars, Held, FlightsFit, CallFits
<1>1. ASSUME NEW w \in Webhooks, Deliver(w) PROVE Goal
    BY <1>1 DEF Deliver, Reserve, Resume, Hang, Attach, Reserved
<1>2. ASSUME NEW w \in Webhooks, Completed(w) PROVE Goal
    BY <1>2 DEF Completed
<1>3. ASSUME NEW c \in Calls, Accepted(c) PROVE Goal
    BY <1>3 DEF Accepted, Attach
<1>4. ASSUME NEW c \in Calls, AcceptUncertain(c) \/ ConnectFails(c) PROVE Goal
    BY <1>4 DEF AcceptUncertain, ConnectFails, Hang
<1>5. ASSUME NEW c \in Calls, Rejected(c) \/ RejectUncertain(c) PROVE Goal
    BY <1>5 DEF Rejected, RejectUncertain, Hang
<1>6. ASSUME NEW c \in Calls, Connected(c) PROVE Goal
    BY <1>6 DEF Connected
<1>7. ASSUME NEW c \in Calls, HungUp(c) PROVE Goal
    BY <1>7 DEF HungUp, Hangup
<1>8. ASSUME NEW c \in Calls, RemoteEnds(c) PROVE Goal
    BY <1>8 DEF RemoteEnds
<1>9. ASSUME NEW c \in Calls, SidebandCloses(c) PROVE Goal
    BY <1>9 DEF SidebandCloses
<1>10. ASSUME NEW c \in Calls, StoreFails(c) PROVE Goal
    BY <1>10 DEF StoreFails
<1>11. ASSUME NEW c \in Calls, Recover(c) PROVE Goal
    BY <1>11 DEF Recover, Resume, Hang, Attach
<1>12. ASSUME NEW c \in Calls, NEW who \in {"background", "close"}, HungUpBy(c, who) PROVE Goal
    BY <1>12 DEF HungUpBy, Hangup
<1>13. ASSUME NEW c \in Calls, NEW who \in {"background", "close"}, StoreFailsBy(c, who) PROVE Goal
    BY <1>13 DEF StoreFailsBy
<1>14. CASE Listen \/ Stop \/ CloseAnswers \/ UNCHANGED vars
    BY <1>14 DEF Listen, Stop, CloseAnswers, vars
<1>15. CASE GatewayClose
    BY <1>15 DEF GatewayClose
<1>16. CASE Crash
    BY <1>16 DEF Crash, Up
<1>17. CASE Restart
    BY <1>17 DEF Restart, ActiveCalls
<1>18. QED
    BY <1>1, <1>2, <1>3, <1>4, <1>5, <1>6, <1>7, <1>8, <1>9, <1>10, <1>11, <1>12, <1>13,
       <1>14, <1>15, <1>16, <1>17 DEF SipNext, Answers


\* A step makes at most one more row active.
LEMMA ActiveStaysFinite ==
    SInv /\ [SipNext]_vars =>
        \/ ActiveCalls' \subseteq ActiveCalls
        \/ \E c \in Calls : ActiveCalls' \subseteq ActiveCalls \cup {c}
<1> DEFINE Goal == \/ ActiveCalls' \subseteq ActiveCalls
                   \/ \E c \in Calls : ActiveCalls' \subseteq ActiveCalls \cup {c}
<1> SUFFICES ASSUME SInv, [SipNext]_vars PROVE Goal
    OBVIOUS
<1> USE SipAssumption DEF SInv, SipTypeOK, storeVars, ActiveCalls, Active
<1>1. ASSUME NEW w \in Webhooks, Deliver(w) PROVE Goal
    BY <1>1 DEF Deliver, Reserve, Resume, Hang, Attach
<1>2. ASSUME NEW w \in Webhooks, Completed(w) PROVE Goal
    BY <1>2 DEF Completed
<1>3. ASSUME NEW c \in Calls, Accepted(c) PROVE Goal
    BY <1>3 DEF Accepted, Attach
<1>4. ASSUME NEW c \in Calls, AcceptUncertain(c) \/ ConnectFails(c) PROVE Goal
    BY <1>4 DEF AcceptUncertain, ConnectFails, Hang
<1>5. ASSUME NEW c \in Calls, Rejected(c) \/ RejectUncertain(c) PROVE Goal
    BY <1>5 DEF Rejected, RejectUncertain, Hang
<1>6. ASSUME NEW c \in Calls, Connected(c) PROVE Goal
    BY <1>6 DEF Connected
<1>7. ASSUME NEW c \in Calls, HungUp(c) PROVE Goal
    BY <1>7 DEF HungUp, Hangup
<1>8. ASSUME NEW c \in Calls, RemoteEnds(c) PROVE Goal
    BY <1>8 DEF RemoteEnds
<1>9. ASSUME NEW c \in Calls, SidebandCloses(c) PROVE Goal
    BY <1>9 DEF SidebandCloses
<1>10. ASSUME NEW c \in Calls, StoreFails(c) PROVE Goal
    BY <1>10 DEF StoreFails
<1>11. ASSUME NEW c \in Calls, Recover(c) PROVE Goal
    BY <1>11 DEF Recover, Resume, Hang, Attach
<1>12. ASSUME NEW c \in Calls, NEW who \in {"background", "close"}, HungUpBy(c, who) PROVE Goal
    BY <1>12 DEF HungUpBy, Hangup
<1>13. ASSUME NEW c \in Calls, NEW who \in {"background", "close"}, StoreFailsBy(c, who) PROVE Goal
    BY <1>13 DEF StoreFailsBy
<1>14. CASE Listen \/ Stop \/ CloseAnswers \/ UNCHANGED vars
    BY <1>14 DEF Listen, Stop, CloseAnswers, vars
<1>15. CASE GatewayClose
    BY <1>15 DEF GatewayClose
<1>16. CASE Crash
    BY <1>16 DEF Crash, Up
<1>17. CASE Restart
    BY <1>17 DEF Restart, ActiveCalls
<1>18. QED
    BY <1>1, <1>2, <1>3, <1>4, <1>5, <1>6, <1>7, <1>8, <1>9, <1>10, <1>11, <1>12, <1>13,
       <1>14, <1>15, <1>16, <1>17 DEF SipNext, Answers


\* The bound is kept, without assuming that Calls is finite.
LEMMA CapacityStep == SInv /\ [SipNext]_vars => CapacityHolds'
<1> SUFFICES ASSUME SInv, [SipNext]_vars PROVE CapacityHolds'
    OBVIOUS
<1>1. IsFiniteSet(ActiveCalls')
  <2>1. \A c : IsFiniteSet(ActiveCalls \cup {c})
    BY FS_AddElement DEF SInv, CapacityHolds
  <2>2. QED
    BY <2>1, ActiveStaysFinite, FS_Subset DEF SInv, CapacityHolds
<1>2. Held \subseteq ActiveCalls /\ IsFiniteSet(Held) /\ Cardinality(Held) <= Cardinality(ActiveCalls)
      /\ Cardinality(Held) \in Nat /\ Cardinality(ActiveCalls) \in Nat
    BY HeldIsActive, FS_Subset, FS_CardinalityType DEF SInv, CapacityHolds
<1>3. CASE Held' \subseteq Held
    BY <1>1, <1>2, <1>3, FS_Subset, FS_CardinalityType, SipAssumption DEF SInv, CapacityHolds
<1>4. ASSUME Cardinality(ActiveCalls) < MaxActive, NEW c \in Calls, Held' \subseteq Held \cup {c}
      PROVE  CapacityHolds'
  <2>1. /\ IsFiniteSet(Held \cup {c})
        /\ Cardinality(Held \cup {c}) \in {Cardinality(Held), Cardinality(Held) + 1}
    <3>1. IsFiniteSet(Held)
      BY <1>2
    <3>2. QED
      BY <3>1, FS_AddElement, Zenon
  <2>2. Cardinality(Held \cup {c}) <= MaxActive /\ Cardinality(Held \cup {c}) \in Nat
    BY <1>2, <1>4, <2>1, FS_CardinalityType, SipAssumption
  <2>3. Cardinality(Held') <= Cardinality(Held \cup {c}) /\ Cardinality(Held') \in Nat
    BY <1>4, <2>1, FS_Subset, FS_CardinalityType
  <2>4. QED
    BY <1>1, <2>2, <2>3, SipAssumption DEF CapacityHolds
<1>5. QED
    BY <1>3, <1>4, HeldIsReserved
-----------------------------------------------------------------------------
(* The theorems.                                                            *)

\* A call is accepted at the provider at most once, whatever is delivered again
\* and wherever the process dies; every live call has a row that recovery and
\* shutdown look at; at most maxActiveCalls are live or about to be.
THEOREM SipInvariant == SipSpec => []SInv
<1>1. SipInit => SInv
  <2> SUFFICES ASSUME SipInit PROVE SInv
    OBVIOUS
  <2>1. /\ SipTypeOK /\ FlightsFit /\ AcceptedOnce /\ LiveIsTracked /\ RecoveryFinds
    BY DEF SipInit, SipTypeOK, FlightsFit, CallFits, AcceptedOnce, LiveIsTracked,
       RecoveryFinds
  <2>2. ActiveCalls = {} /\ Held = {}
    BY DEF SipInit, ActiveCalls, Active, Held
  <2>3. CapacityHolds
    BY <2>2, FS_EmptySet, SipAssumption DEF CapacityHolds
  <2>4. QED
    BY <2>1, <2>3 DEF SInv
<1>2. SInv /\ [SipNext]_vars => SInv'
    BY TypesStep, FlightsStep, AcceptedStep, RecoveryStep, CapacityStep DEF SInv
<1>3. QED
    BY <1>1, <1>2, PTL DEF SipSpec

\* Only an error of the store leaves an attached call without its sideband.
LEMMA NoDeafCallStep == SInv /\ NoDeafCall /\ [SipNext]_vars => NoDeafCall'
<1> SUFFICES ASSUME SInv, NoDeafCall, [SipNext]_vars PROVE NoDeafCall'
    OBVIOUS
<1> USE SipAssumption DEF SInv, SipTypeOK, storeVars, RecoveryFinds, NoDeafCall
<1>1. ASSUME NEW w \in Webhooks, Deliver(w) PROVE NoDeafCall'
    BY <1>1 DEF Deliver, Reserve, Resume, Hang, Attach
<1>2. ASSUME NEW w \in Webhooks, Completed(w) PROVE NoDeafCall'
    BY <1>2 DEF Completed
<1>3. ASSUME NEW c \in Calls, Accepted(c) PROVE NoDeafCall'
    BY <1>3 DEF Accepted, Attach
<1>4. ASSUME NEW c \in Calls, AcceptUncertain(c) \/ ConnectFails(c) PROVE NoDeafCall'
  <2>1. CASE AcceptUncertain(c)
    BY <2>1 DEF AcceptUncertain, Hang
  <2>2. CASE ConnectFails(c)
    BY <2>2 DEF ConnectFails, Hang
  <2>3. QED
    BY <1>4, <2>1, <2>2
<1>5. ASSUME NEW c \in Calls, Rejected(c) \/ RejectUncertain(c) PROVE NoDeafCall'
  <2>1. CASE Rejected(c)
    BY <2>1 DEF Rejected
  <2>2. CASE RejectUncertain(c)
    BY <2>2 DEF RejectUncertain, Hang
  <2>3. QED
    BY <1>5, <2>1, <2>2
<1>6. ASSUME NEW c \in Calls, Connected(c) PROVE NoDeafCall'
    BY <1>6 DEF Connected
<1>7. ASSUME NEW c \in Calls, HungUp(c) PROVE NoDeafCall'
    BY <1>7 DEF HungUp, Hangup
<1>8. ASSUME NEW c \in Calls, RemoteEnds(c) PROVE NoDeafCall'
    BY <1>8 DEF RemoteEnds
<1>9. ASSUME NEW c \in Calls, SidebandCloses(c) PROVE NoDeafCall'
    BY <1>9 DEF SidebandCloses
<1>10. ASSUME NEW c \in Calls, StoreFails(c) PROVE NoDeafCall'
    BY <1>10 DEF StoreFails
<1>11. ASSUME NEW c \in Calls, Recover(c) PROVE NoDeafCall'
    BY <1>11 DEF Recover, Resume, Hang, Attach
<1>12. ASSUME NEW c \in Calls, NEW who \in {"background", "close"}, HungUpBy(c, who) PROVE NoDeafCall'
    BY <1>12 DEF HungUpBy, Hangup
<1>13. ASSUME NEW c \in Calls, NEW who \in {"background", "close"}, StoreFailsBy(c, who) PROVE NoDeafCall'
    BY <1>13 DEF StoreFailsBy
<1>14. CASE Listen \/ Stop \/ CloseAnswers \/ UNCHANGED vars
    BY <1>14 DEF Listen, Stop, CloseAnswers, vars
<1>15. CASE GatewayClose
    BY <1>15 DEF GatewayClose
<1>16. CASE Crash
    BY <1>16 DEF Crash, Up
<1>17. CASE Restart
    BY <1>17 DEF Restart, ActiveCalls
<1>18. QED
    BY <1>1, <1>2, <1>3, <1>4, <1>5, <1>6, <1>7, <1>8, <1>9, <1>10, <1>11, <1>12, <1>13,
       <1>14, <1>15, <1>16, <1>17 DEF SipNext, Answers

\* While the gateway serves and its store works, a call the store calls attached
\* has its sideband: #handleSidebandClose hangs it up, recovery attaches it.
THEOREM AttachedIsHeard == SipSpec => []NoDeafCall
<1>1. SipInit => NoDeafCall
    BY DEF SipInit, NoDeafCall
<1>2. QED
    BY <1>1, SipInvariant, NoDeafCallStep, PTL DEF SipSpec

\* Quiescence is reported only when no row is active, and then no call is live.
LEMMA ReleasedStep == SInv /\ ReleasedIsQuiet /\ [SipNext]_vars => ReleasedIsQuiet'
<1> SUFFICES ASSUME SInv, ReleasedIsQuiet, [SipNext]_vars PROVE ReleasedIsQuiet'
    OBVIOUS
<1> USE SipAssumption DEF SInv, SipTypeOK, storeVars, FlightsFit, CallFits, LiveIsTracked, ReleasedIsQuiet, Settled, ActiveCalls, Active
<1>1. ASSUME NEW w \in Webhooks, Deliver(w) PROVE ReleasedIsQuiet'
    BY <1>1 DEF Deliver, Reserve, Resume, Hang, Attach
<1>2. ASSUME NEW w \in Webhooks, Completed(w) PROVE ReleasedIsQuiet'
    BY <1>2 DEF Completed
<1>3. ASSUME NEW c \in Calls, Accepted(c) PROVE ReleasedIsQuiet'
    BY <1>3 DEF Accepted, Attach
<1>4. ASSUME NEW c \in Calls, AcceptUncertain(c) \/ ConnectFails(c) PROVE ReleasedIsQuiet'
    BY <1>4 DEF AcceptUncertain, ConnectFails, Hang
<1>5. ASSUME NEW c \in Calls, Rejected(c) \/ RejectUncertain(c) PROVE ReleasedIsQuiet'
    BY <1>5 DEF Rejected, RejectUncertain, Hang
<1>6. ASSUME NEW c \in Calls, Connected(c) PROVE ReleasedIsQuiet'
    BY <1>6 DEF Connected
<1>7. ASSUME NEW c \in Calls, HungUp(c) PROVE ReleasedIsQuiet'
    BY <1>7 DEF HungUp, Hangup
<1>8. ASSUME NEW c \in Calls, RemoteEnds(c) PROVE ReleasedIsQuiet'
    BY <1>8 DEF RemoteEnds
<1>9. ASSUME NEW c \in Calls, SidebandCloses(c) PROVE ReleasedIsQuiet'
    BY <1>9 DEF SidebandCloses
<1>10. ASSUME NEW c \in Calls, StoreFails(c) PROVE ReleasedIsQuiet'
    BY <1>10 DEF StoreFails
<1>11. ASSUME NEW c \in Calls, Recover(c) PROVE ReleasedIsQuiet'
    BY <1>11 DEF Recover, Resume, Hang, Attach
<1>12. ASSUME NEW c \in Calls, NEW who \in {"background", "close"}, HungUpBy(c, who) PROVE ReleasedIsQuiet'
    BY <1>12 DEF HungUpBy, Hangup
<1>13. ASSUME NEW c \in Calls, NEW who \in {"background", "close"}, StoreFailsBy(c, who) PROVE ReleasedIsQuiet'
    BY <1>13 DEF StoreFailsBy
<1>14. CASE Listen \/ Stop \/ CloseAnswers \/ UNCHANGED vars
    BY <1>14 DEF Listen, Stop, CloseAnswers, vars
<1>15. CASE GatewayClose
    BY <1>15 DEF GatewayClose
<1>16. CASE Crash
    BY <1>16 DEF Crash, Up
<1>17. CASE Restart
    BY <1>17 DEF Restart, ActiveCalls
<1>18. QED
    BY <1>1, <1>2, <1>3, <1>4, <1>5, <1>6, <1>7, <1>8, <1>9, <1>10, <1>11, <1>12, <1>13,
       <1>14, <1>15, <1>16, <1>17 DEF SipNext, Answers

\* gateway.close answers with quiescence, and the owner lock goes to a successor,
\* only when no call is live, also after hangups that were not confirmed.
THEOREM ReleasedLeavesNone == SipSpec => []ReleasedIsQuiet
<1>1. SipInit => ReleasedIsQuiet
    BY DEF SipInit, ReleasedIsQuiet
<1>2. QED
    BY <1>1, SipInvariant, ReleasedStep, PTL DEF SipSpec
=============================================================================
