---------------------------- MODULE ProviderProofs ----------------------------
(***************************************************************************)
(* Proofs about the agents' life, for any requests, launches and providers.  *)
(* First the controller's side: RequestInv is inductive, and interruptions    *)
(* are final. Then the provider planes under it: PInv is inductive; one model *)
(* at a time, a stop that covers everything and true answers follow from it.  *)
(***************************************************************************)
EXTENDS ProviderProperties, AgentRequests, TLAPS

-----------------------------------------------------------------------------
(* The agent requests of the controller. First, what a step may do to one of *)
(* them, x.                                                                  *)

\* A request's handler, its sent mark and its interruption, left alone.
HandlerKept(x) == at'[x] = at[x] /\ answer'[x] = answer[x] /\ tries'[x] = tries[x]
SentKept(x)    == x \in sent' <=> x \in sent
CutKept(x)     == x \in cut' <=> x \in cut

\* Nothing happens to the request.
Undisturbed(x) == HandlerKept(x) /\ SentKept(x) /\ CutKept(x) /\ run'[x] = run[x]

\* The request arrives.
Enters(x) ==
    /\ at[x] = "idle" /\ at'[x] \in {"authorizing", "claimed"}
    /\ answer'[x] = answer[x] /\ tries'[x] = tries[x] /\ run'[x] = run[x]
    /\ SentKept(x) /\ CutKept(x)

\* The handler answers, and its record goes.
GetsAnswer(x) ==
    /\ at[x] # "idle" /\ at'[x] = "answered"
    /\ run'[x] = NoRun /\ tries'[x] = tries[x]
    /\ SentKept(x) /\ CutKept(x)
    /\ x \in Mutating /\ answer'[x] \notin {"unknown", "success"} => x \notin sent
    /\ x \in Spawning /\ x \in cut => answer'[x] # "success"

\* The handler starts an agent.
GetsChild(x) ==
    /\ Serving /\ ~(x \in Phone /\ locked)
    /\ x \in Spawning /\ x \notin cut /\ (x \in sent => x \in Structured)
    /\ at[x] # "answered" /\ at'[x] = "running"
    /\ answer'[x] = answer[x] /\ tries'[x] = tries[x] + 1
    /\ SentKept(x) /\ (x \in cut' <=> run'[x].rec # "running")
    /\ run'[x].rec # "none" /\ (run'[x].rec # "running" => run'[x].timer)
    /\ run'[x].child \in {"failed", "connecting"}
    /\ run'[x].status = "none" /\ run'[x].launch = "none"

\* The handler starts to deliver a session message.
Delivers(x) ==
    /\ Serving /\ x \in Messages
    /\ at[x] = "authorizing" /\ at'[x] = "running"
    /\ answer'[x] = answer[x] /\ tries'[x] = tries[x]
    /\ SentKept(x) /\ CutKept(x)
    /\ run'[x].rec = "running" /\ run'[x].child = run[x].child

\* The handler's side of the record, left alone.
SameRecord(x) == /\ run'[x].rec = run[x].rec /\ run'[x].launch = run[x].launch
                 /\ run'[x].killed = run[x].killed /\ run'[x].timer = run[x].timer

\* The provider client advances or ends.
ClientMoves(x) ==
    /\ HandlerKept(x) /\ CutKept(x) /\ SameRecord(x) /\ Alive(x)
    /\ \/ SentKept(x) /\ run[x].child = "connecting" /\ run'[x].child = "reporting"
          /\ run'[x].status = "accepted"
       \/ SentKept(x) /\ run[x].child = "connecting" /\ run'[x].child = "nonzero"
       \/ SentKept(x) /\ run[x].child # "connecting" /\ run'[x].child \in {"zero", "nonzero"}
          /\ run'[x].status = run[x].status
       \/ x \in sent' /\ run[x].child = "reporting" /\ run'[x].child = "forwarding"
          /\ run'[x].status = run[x].status

\* The handler reads what its client reported.
StatusRead(x) ==
    /\ HandlerKept(x) /\ SentKept(x) /\ CutKept(x)
    /\ run'[x].child = run[x].child /\ run'[x].rec = run[x].rec
    /\ run'[x].killed = run[x].killed /\ run'[x].timer = run[x].timer
    /\ run'[x].status = "none" /\ run'[x].launch \in {run[x].launch, run[x].status}
    /\ run[x].status # "none"

\* The running record is interrupted, and its client told to die.
GetsCut(x) ==
    /\ HandlerKept(x) /\ SentKept(x) /\ x \in cut'
    /\ run[x].rec = "running" /\ run'[x].rec = "interrupted"
    /\ run'[x].child = run[x].child /\ run'[x].launch = run[x].launch
    /\ run'[x].status \in {run[x].status, "none"}
    /\ run'[x].killed \/ run'[x].timer \/ run[x].child = "none"

\* The client is killed.
GetsKilled(x) ==
    /\ HandlerKept(x) /\ SentKept(x) /\ CutKept(x)
    /\ run'[x].rec = run[x].rec /\ run'[x].child = run[x].child
    /\ run'[x].status = run[x].status /\ run'[x].launch = run[x].launch
    /\ at[x] = "running" /\ run'[x].killed

\* All that one step may do to a request.
DoneTo(x) == \/ Undisturbed(x) \/ Enters(x) \/ GetsAnswer(x) \/ GetsChild(x) \/ Delivers(x)
             \/ ClientMoves(x) \/ StatusRead(x) \/ GetsCut(x) \/ GetsKilled(x)

-----------------------------------------------------------------------------
\* What transitionActiveRequest makes of a record and its child.
TransitionTo(q, t) ==
    /\ t.child = q.child /\ t.status = q.status /\ t.launch = q.launch
    /\ q.rec # "running" => t = q
    /\ q.rec = "running" => t.rec = "interrupted"
    /\ q.rec = "running" => t.killed \/ t.timer \/ q.child = "none"

\* Whatever the record, its transition is a record, and the one above.
LEMMA TransitionedIs ==
    ASSUME NEW q \in RunRecords, NEW force \in BOOLEAN, NEW t, t = Transitioned(q, force)
    PROVE  t \in RunRecords /\ TransitionTo(q, t)
<1> USE DEF TransitionTo
<1>1. CASE q.rec # "running"
    BY <1>1 DEF Transitioned
<1>2. CASE q.rec = "running"
    <2>1. t = [q EXCEPT !.rec = "interrupted", !.killed = force, !.timer = ~force /\ q.child # "none"]
        BY <1>2 DEF Transitioned
    <2>2. PICK b \in BOOLEAN : b <=> (~force /\ q.child # "none")
        OBVIOUS
    <2>3. t = [q EXCEPT !.rec = "interrupted", !.killed = force, !.timer = b]
        BY <2>1, <2>2, Zenon
    <2>4. t \in RunRecords
        <3>1. [q EXCEPT !.rec = "interrupted"] \in RunRecords
            BY DEF RunRecords
        <3>2. \A s \in RunRecords : [s EXCEPT !.killed = force] \in RunRecords
            BY DEF RunRecords
        <3>3. \A s \in RunRecords : [s EXCEPT !.timer = b] \in RunRecords
            BY DEF RunRecords
        <3>4. t = [[[q EXCEPT !.rec = "interrupted"] EXCEPT !.killed = force] EXCEPT !.timer = b]
            BY <2>3
        <3>5. QED
            BY <3>1, <3>2, <3>3, <3>4
    <2>5. /\ t.child = q.child /\ t.status = q.status /\ t.launch = q.launch
          /\ t.rec = "interrupted" /\ t.killed = force /\ t.timer = b
        BY <2>3 DEF RunRecords
    <2>6. QED
        BY <1>2, <2>2, <2>4, <2>5
<1>3. QED
    BY <1>1, <1>2

\* An interruption touches the running records of its set, and those only.
LEMMA InterruptDoes ==
    ASSUME run \in [Requests -> RunRecords], NEW S, NEW force \in BOOLEAN, Interrupt(S, force),
           NEW x \in Requests
    PROVE  /\ run'[x] \in RunRecords
           /\ \/ run'[x] = run[x] /\ CutKept(x)
              \/ /\ x \in S /\ x \in cut'
                 /\ run[x].rec = "running" /\ run'[x].rec = "interrupted"
                 /\ run'[x].child = run[x].child /\ run'[x].launch = run[x].launch
                 /\ run'[x].status = run[x].status
                 /\ run'[x].killed \/ run'[x].timer \/ run[x].child = "none"
           /\ x \in S => run'[x].rec # "running"
<1>0. run[x] \in RunRecords
    OBVIOUS
<1>1. /\ run'[x] = IF x \in S /\ run[x].rec # "none" THEN Transitioned(run[x], force) ELSE run[x]
      /\ x \in cut' <=> x \in cut \/ (x \in S /\ run[x].rec = "running")
    BY DEF Interrupt
<1>2. CASE x \in S /\ run[x].rec = "running"
    <2>1. run'[x] = Transitioned(run[x], force) /\ x \in cut'
        BY <1>1, <1>2
    <2>2. QED
        BY <1>0, <1>2, <2>1, TransitionedIs DEF TransitionTo
<1>3. CASE x \in S /\ run[x].rec # "running"
    <2>1. run'[x] = run[x]
        BY <1>0, <1>1, <1>3, TransitionedIs DEF TransitionTo
    <2>2. QED
        BY <1>0, <1>1, <1>3, <2>1 DEF CutKept
<1>4. CASE x \notin S
    BY <1>0, <1>1, <1>4 DEF CutKept
<1>5. QED
    BY <1>2, <1>3, <1>4

\* An interruption leaves records and interruptions in their types.
LEMMA InterruptTypes ==
    ASSUME run \in [Requests -> RunRecords], cut \subseteq Requests, NEW S, NEW force \in BOOLEAN,
           Interrupt(S, force), S \subseteq Requests
    PROVE  run' \in [Requests -> RunRecords] /\ cut' \subseteq Requests
<1>1. DOMAIN run' = Requests /\ run' = [r \in Requests |-> run'[r]]
    BY DEF Interrupt
<1>2. \A r \in Requests : run'[r] \in RunRecords
    BY InterruptDoes
<1>3. QED
    BY <1>1, <1>2 DEF Interrupt

\* The record of a request that runs nothing.
LEMMA NoRunTypes == /\ NoRun \in RunRecords /\ NoRun.rec = "none" /\ NoRun.child = "none"
                    /\ NoRun.status = "none" /\ NoRun.launch = "none" /\ ~NoRun.timer
BY DEF NoRun, RunRecords

\* What runAgentOnce registers.
LEMMA SpawnedIs ==
    ASSUME NEW r \in Requests, NEW q \in Spawned(r)
    PROVE  /\ q \in RunRecords
           /\ q.rec # "none" /\ (q.rec # "running" => q.timer)
           /\ q.child \in {"failed", "connecting"} /\ q.status = "none" /\ q.launch = "none"
<1> DEFINE at0(child) == [NoRun EXCEPT !.rec = "running", !.child = child]
<1>1. ASSUME NEW c \in {"connecting", "failed"}
      PROVE  /\ at0(c) \in RunRecords /\ at0(c).rec = "running" /\ at0(c).child = c
             /\ at0(c).status = "none" /\ at0(c).launch = "none"
    BY <1>1 DEF NoRun, RunRecords
<1> HIDE DEF at0
<1>2. ASSUME NEW c \in {"connecting", "failed"}, q = Transitioned(at0(c), FALSE)
      PROVE  /\ q \in RunRecords /\ q.rec = "interrupted" /\ q.child = c
             /\ q.status = "none" /\ q.launch = "none"
    <2>1. at0(c) \in RunRecords
        BY <1>1
    <2>2. q \in RunRecords /\ TransitionTo(at0(c), q)
        BY <1>2, <2>1, TransitionedIs
    <2>3. QED
        BY <1>1, <2>2 DEF TransitionTo
<1>3. ASSUME NEW c \in {"connecting", "failed"}, q = Transitioned(at0(c), FALSE)
      PROVE  q.timer
    <2>1. q = [at0(c) EXCEPT !.rec = "interrupted", !.killed = FALSE, !.timer = ~FALSE /\ c # "none"]
        BY <1>1, <1>3 DEF Transitioned
    <2>2. (~FALSE /\ c # "none") = TRUE
        OBVIOUS
    <2>3. q = [at0(c) EXCEPT !.rec = "interrupted", !.killed = FALSE, !.timer = TRUE]
        BY <2>1, <2>2
    <2>4. QED
        BY <1>1, <2>3 DEF RunRecords
<1>4. \/ \E c \in {"connecting", "failed"} : q = at0(c)
      \/ \E c \in {"connecting", "failed"} : q = Transitioned(at0(c), FALSE)
    BY DEF Spawned, at0
<1>5. QED
    BY <1>1, <1>2, <1>3, <1>4

\* A handler that runs an agent answers with a refusal or gets a child.
LEMMA RunsAgentDoes ==
    ASSUME RequestTypeOK, NEW r \in Requests, r \in Spawning, RunsAgent(r), RunFits(r),
           SentKept(r), at[r] \notin {"idle", "answered"}, r \notin cut, r \in sent => r \in Structured
    PROVE  /\ GetsAnswer(r) \/ GetsChild(r)
           /\ run' \in [Requests -> RunRecords] /\ cut' \subseteq Requests
           /\ \A x \in Requests \ {r} : HandlerKept(x) /\ run'[x] = run[x] /\ CutKept(x)
<1> USE RequestAssumption DEF RequestTypeOK
<1>1. CASE Refusal(r) # "none"
    <2>1. Answers(r, Refusal(r)) /\ UNCHANGED <<tries, cut>>
        BY <1>1 DEF RunsAgent
    <2>2. Refusal(r) # "success"
        BY DEF Refusal
    <2>3. r \in Mutating => r \notin sent
        BY DEF Spawning, Requests
    <2>4. GetsAnswer(r)
        BY <2>1, <2>2, <2>3 DEF GetsAnswer, Answers, CutKept
    <2>5. QED
        BY <2>1, <2>4, NoRunTypes DEF Answers, HandlerKept, CutKept
<1>2. CASE Refusal(r) = "none"
    <2>1. PICK q \in Spawned(r) :
              /\ run' = [run EXCEPT ![r] = q]
              /\ cut' = IF q.rec = "running" THEN cut ELSE cut \cup {r}
        BY <1>2 DEF RunsAgent
    <2>2. /\ at' = [at EXCEPT ![r] = "running"]
          /\ tries' = [tries EXCEPT ![r] = @ + 1] /\ answer' = answer
        BY <1>2 DEF RunsAgent
    <2>3. Serving /\ ~(r \in Phone /\ locked)
        BY <1>2 DEF Refusal
    <2>4. run'[r] = q
        BY <2>1
    <2>5. GetsChild(r)
        BY <2>1, <2>2, <2>3, <2>4, SpawnedIs DEF GetsChild
    <2>6. QED
        BY <2>1, <2>2, <2>5, SpawnedIs DEF HandlerKept, CutKept
<1>3. QED
    BY <1>1, <1>2

\* The client of a request changes that request only.
LEMMA ClientDoes ==
    ASSUME RequestInv, NEW r \in Requests, Client(r)
    PROVE  (\A x \in Requests : DoneTo(x)) /\ run' \in [Requests -> RunRecords] /\ sent' \subseteq Spawning
<1>0. RequestTypeOK /\ RunFits(r) /\ run[r] \in RunRecords /\ Alive(r)
    BY DEF RequestInv, RequestTypeOK, Client, Accepted, Refused, Forwards, ClientEnds, Dies, Alive
<1>1. UNCHANGED <<at, answer, tries, cut, aborted>>
    BY DEF Client, Accepted, Refused, Forwards, ClientEnds, Dies, ClientOnly
<1>2. ASSUME NEW c \in {"reporting", "forwarding", "zero", "nonzero"}, NEW s \in {"none", "accepted", "busy", "unknown"}
      PROVE  [run[r] EXCEPT !.child = c, !.status = s] \in RunRecords
    <2>1. [run[r] EXCEPT !.child = c] \in RunRecords
        BY <1>0, <1>2 DEF RunRecords
    <2>2. \A p \in RunRecords : [p EXCEPT !.status = s] \in RunRecords
        BY <1>2 DEF RunRecords
    <2>3. QED
        BY <1>2, <2>1, <2>2
<1>3. \E c \in {"reporting", "forwarding", "zero", "nonzero"}, s \in {"none", "accepted", "busy", "unknown"} :
          /\ run' = [run EXCEPT ![r] = [run[r] EXCEPT !.child = c, !.status = s]]
          /\ \/ sent' = sent /\ run[r].child = "connecting" /\ c = "reporting" /\ s = "accepted"
             \/ sent' = sent /\ run[r].child = "connecting" /\ c = "nonzero"
             \/ sent' = sent /\ run[r].child # "connecting" /\ c \in {"zero", "nonzero"}
                /\ s = run[r].status
             \/ sent' = sent \cup {r} /\ run[r].child = "reporting" /\ c = "forwarding"
                /\ s = run[r].status
    <2>0. /\ run \in [Requests -> RunRecords] /\ run[r].status \in {"none", "accepted", "busy", "unknown"}
          /\ \A c : [run[r] EXCEPT !.child = c] = [run[r] EXCEPT !.child = c, !.status = run[r].status]
        BY <1>0 DEF RequestTypeOK, RunRecords
    <2>1. CASE Accepted(r)
        BY <2>0, <2>1 DEF Accepted
    <2>2. CASE Refused(r)
        BY <2>0, <2>2 DEF Refused
    <2>3. CASE Forwards(r)
        BY <2>0, <2>3 DEF Forwards
    <2>4. CASE ClientEnds(r)
        BY <2>0, <2>4 DEF ClientEnds
    <2>5. CASE Dies(r)
        BY <2>0, <2>5, <1>0 DEF Dies, Alive
    <2>6. QED
        BY <2>1, <2>2, <2>3, <2>4, <2>5 DEF Client
<1>4. PICK c \in {"reporting", "forwarding", "zero", "nonzero"}, s \in {"none", "accepted", "busy", "unknown"} :
          /\ run' = [run EXCEPT ![r] = [run[r] EXCEPT !.child = c, !.status = s]]
          /\ \/ sent' = sent /\ run[r].child = "connecting" /\ c = "reporting" /\ s = "accepted"
             \/ sent' = sent /\ run[r].child = "connecting" /\ c = "nonzero"
             \/ sent' = sent /\ run[r].child # "connecting" /\ c \in {"zero", "nonzero"}
                /\ s = run[r].status
             \/ sent' = sent \cup {r} /\ run[r].child = "reporting" /\ c = "forwarding"
                /\ s = run[r].status
    BY <1>3
<1>r. run'[r] = [run[r] EXCEPT !.child = c, !.status = s]
    BY <1>0, <1>4 DEF RequestTypeOK
<1>q. /\ run'[r] \in RunRecords /\ run'[r].child = c /\ run'[r].status = s /\ run'[r].rec = run[r].rec
      /\ run'[r].launch = run[r].launch /\ run'[r].killed = run[r].killed /\ run'[r].timer = run[r].timer
    <2>1. run'[r] \in RunRecords
        BY <1>2, <1>r
    <2>2. QED
        BY <1>0, <1>r, <2>1 DEF RunRecords
<1>5. ClientMoves(r)
    BY <1>0, <1>1, <1>4, <1>q DEF ClientMoves, HandlerKept, SentKept, CutKept, SameRecord, RequestTypeOK
<1>6. \A x \in Requests \ {r} : Undisturbed(x)
    BY <1>1, <1>3 DEF Undisturbed, HandlerKept, SentKept, CutKept
<1>7. sent' \subseteq Spawning
    BY <1>0, <1>3 DEF RequestTypeOK, RunFits, Alive
<1>8. QED
    BY <1>0, <1>4, <1>q, <1>r, <1>5, <1>6, <1>7 DEF DoneTo, RequestTypeOK

\* The arrivals of a request.
Entering(r) == AskArrives(r) \/ StructuredArrives(r) \/ MessageArrives(r) \/ ManagedAskArrives(r)

\* The steps in which a handler runs an agent.
Running(r) == AskStarts(r) \/ StructuredStarts(r) \/ StructuredCloses(r)

\* The steps in which a handler interrupts its own request.
Stopping(r) == OutputLimited(r) \/ TimesOut(r)

\* What a step of a request's handler leaves in the types, and does to any request.
Fine == /\ \A x \in Requests : DoneTo(x)
        /\ run' \in [Requests -> RunRecords] /\ cut' \subseteq Requests /\ sent' = sent

\* An arrival changes where one handler is.
LEMMA EnteringDoes ==
    ASSUME RequestInv, NEW r \in Requests, Entering(r)
    PROVE Fine
<1>1. RequestTypeOK
    BY DEF RequestInv
<1>2. PICK to \in {"authorizing", "claimed"} : Comes(r, to)
    BY DEF Entering, AskArrives, StructuredArrives, MessageArrives, ManagedAskArrives
<1>3. /\ at[r] = "idle" /\ at' = [at EXCEPT ![r] = to]
      /\ UNCHANGED <<answer, run, sent, tries, cut>>
    BY <1>2 DEF Comes
<1>4. Enters(r)
    BY <1>1, <1>3 DEF Enters, SentKept, CutKept, RequestTypeOK
<1>5. \A x \in Requests \ {r} : Undisturbed(x)
    BY <1>1, <1>3 DEF Undisturbed, HandlerKept, SentKept, CutKept, RequestTypeOK
<1>6. QED
    BY <1>1, <1>3, <1>4, <1>5 DEF Fine, DoneTo, RequestTypeOK

\* Answers of handlers that did not run an agent, or whose child has closed.
LEMMA AnswersDoes ==
    ASSUME RequestTypeOK, NEW r \in Requests, NEW a, Answers(r, a),
           UNCHANGED <<sent, tries, cut>>, at[r] # "idle",
           r \in Mutating /\ a \notin {"unknown", "success"} => r \notin sent,
           r \in Spawning /\ r \in cut => a # "success"
    PROVE  Fine
<1>1. GetsAnswer(r)
    BY DEF Answers, GetsAnswer, SentKept, CutKept, RequestTypeOK
<1>2. \A x \in Requests \ {r} : Undisturbed(x)
    BY DEF Answers, Undisturbed, HandlerKept, SentKept, CutKept, RequestTypeOK
<1>3. run' \in [Requests -> RunRecords]
    BY NoRunTypes DEF Answers, RequestTypeOK
<1>4. QED
    BY <1>1, <1>2, <1>3 DEF Fine, DoneTo, RequestTypeOK

\* The steps that run an agent, and the second run of a structured request.
LEMMA RunningDoes ==
    ASSUME RequestInv, NEW r \in Requests, Running(r)
    PROVE Fine
<1>1. RequestTypeOK /\ RunFits(r) /\ CutFits(r) /\ sent' = sent
    BY DEF RequestInv, Running, AskStarts, StructuredStarts, StructuredCloses, HandlerOnly
<1>2. r \in Spawning /\ at[r] # "idle"
  <2>1. CASE AskStarts(r) \/ StructuredStarts(r)
    BY <2>1, RequestAssumption DEF AskStarts, StructuredStarts, Spawning, Requests
  <2>2. CASE StructuredCloses(r)
    BY <1>1, <2>2, NoRunTypes DEF StructuredCloses, RunFits, Exited
  <2>3. QED
    BY <2>1, <2>2 DEF Running
<1>3. CASE RunsAgent(r) /\ (at[r] \in {"authorizing", "claimed"} \/ (r \in Structured /\ run[r].rec = "running"))
    <2>1. r \notin cut /\ (r \in sent => r \in Structured) /\ at[r] # "answered"
        BY <1>1, <1>3, NoRunTypes DEF RunFits, CutFits
    <2>2. /\ GetsAnswer(r) \/ GetsChild(r)
          /\ run' \in [Requests -> RunRecords] /\ cut' \subseteq Requests
          /\ \A y \in Requests \ {r} : HandlerKept(y) /\ run'[y] = run[y] /\ CutKept(y)
        BY <1>1, <1>2, <1>3, <2>1, RunsAgentDoes DEF SentKept
    <2>3. \A x \in Requests \ {r} : Undisturbed(x)
        BY <1>1, <2>2 DEF Undisturbed, SentKept
    <2>4. QED
        BY <1>1, <2>2, <2>3 DEF Fine, DoneTo
<1>4. ASSUME NEW a \in {"failed", "success"}, Answers(r, a), UNCHANGED <<tries, cut>>, r \in Structured,
             a = "success" => ~InError(r)
      PROVE  Fine
    <2>1. r \notin Mutating /\ (r \in cut => a # "success")
        BY <1>1, <1>4, RequestAssumption DEF CutFits, InError
    <2>2. QED
        BY <1>1, <1>2, <1>4, <2>1, AnswersDoes
<1>5. CASE AskStarts(r) \/ StructuredStarts(r)
    BY <1>3, <1>5 DEF AskStarts, StructuredStarts
<1>6. CASE StructuredCloses(r)
    <2>1. CASE Answers(r, IF InError(r) \/ run[r].child # "zero" THEN "failed" ELSE "success")
               /\ UNCHANGED <<tries, cut>>
        <3>1. PICK a \in {"failed", "success"} : Answers(r, a) /\ (a = "success" => ~InError(r))
            BY <2>1
        <3>2. QED
            BY <1>4, <1>6, <2>1, <3>1 DEF StructuredCloses
    <2>2. CASE ~InError(r) /\ run[r].child = "zero" /\ RunsAgent(r)
        BY <1>3, <1>6, <2>2 DEF StructuredCloses, InError
    <2>3. CASE Answers(r, "failed") /\ UNCHANGED <<tries, cut>>
        BY <1>4, <1>6, <2>3 DEF StructuredCloses
    <2>4. QED
        BY <1>6, <2>1, <2>2, <2>3 DEF StructuredCloses
<1>7. QED
    BY <1>5, <1>6 DEF Running

\* Session messages and the denials of authorization.
LEMMA MessageDoes ==
    ASSUME RequestInv, NEW r \in Requests, SendsMessage(r) \/ MessageEnds(r) \/ Denied(r)
    PROVE  Fine
<1>1. RequestTypeOK /\ RunFits(r) /\ UNCHANGED <<sent, tries, cut>>
    BY DEF RequestInv, SendsMessage, MessageEnds, Denied
<1>2. r \in Messages => r \notin Mutating /\ r \notin Spawning
    BY RequestAssumption DEF Spawning
<1>3. CASE at[r] = "authorizing" /\ \E a \in {"refused", "shutdown"} : Answers(r, a)
    BY <1>1, <1>3, AnswersDoes DEF RunFits
<1>4. CASE r \in Messages /\ at[r] = "running" /\ \E a \in {"success", "failed"} : Answers(r, a)
    BY <1>1, <1>2, <1>4, AnswersDoes
<1>5. CASE Serving /\ r \in Messages /\ at[r] = "authorizing" /\ at' = [at EXCEPT ![r] = "running"]
           /\ run' = [run EXCEPT ![r].rec = "running"] /\ UNCHANGED answer
    <2>1. run' = [run EXCEPT ![r] = [run[r] EXCEPT !.rec = "running"]]
          /\ [run[r] EXCEPT !.rec = "running"] \in RunRecords
        BY <1>1, <1>5 DEF RequestTypeOK, RunRecords
    <2>2. Delivers(r)
        BY <1>1, <1>5, <2>1 DEF Delivers, SentKept, CutKept, RequestTypeOK, RunRecords
    <2>3. \A x \in Requests \ {r} : Undisturbed(x)
        BY <1>1, <1>5, <2>1 DEF Undisturbed, HandlerKept, SentKept, CutKept, RequestTypeOK
    <2>4. QED
        BY <1>1, <2>1, <2>2, <2>3 DEF Fine, DoneTo, RequestTypeOK
<1>6. QED
    BY <1>3, <1>4, <1>5 DEF SendsMessage, MessageEnds, Denied

\* The ends of a request whose child is gone.
LEMMA ClosesDoes ==
    ASSUME RequestInv, NEW r \in Requests, SpawnFails(r) \/ AskCloses(r)
    PROVE  Fine
<1>1. RequestTypeOK /\ RunFits(r) /\ CutFits(r) /\ UNCHANGED <<sent, tries, cut>>
    BY DEF RequestInv, SpawnFails, AskCloses, HandlerOnly
<1>2. run[r].child # "none" /\ at[r] = "running"
    BY <1>1 DEF SpawnFails, AskCloses, Exited, RunFits, NoRun
<1>3. r \in Mutating => r \notin Structured
    BY RequestAssumption
<1>4. CASE SpawnFails(r)
    BY <1>1, <1>2, <1>3, <1>4, AnswersDoes DEF SpawnFails, RunFits
<1>5. CASE AskCloses(r)
    <2>1. Answers(r, AskAnswer(r))
        BY <1>5 DEF AskCloses
    <2>2. r \in Mutating /\ AskAnswer(r) \notin {"unknown", "success"} => r \notin sent
        BY <1>1, <1>2, <1>3 DEF AskAnswer, RunFits
    <2>3. r \in cut => AskAnswer(r) # "success"
        BY <1>1 DEF AskAnswer, CutFits, InError
    <2>4. QED
        BY <1>1, <1>2, <2>1, <2>2, <2>3, AnswersDoes
<1>6. QED
    BY <1>4, <1>5

\* Reading the status, and the interruption that a lost frame leads to.
LEMMA ReadsStatusDoes ==
    ASSUME RequestInv, NEW r \in Requests, ReadsStatus(r)
    PROVE Fine
<1>1. /\ RequestTypeOK /\ RunFits(r) /\ run[r] \in RunRecords /\ UNCHANGED <<sent, at, answer, tries>>
      /\ run[r].status # "none"
    BY DEF RequestInv, RequestTypeOK, ReadsStatus, HandlerOnly
<1> DEFINE read == [run[r] EXCEPT !.status = "none"]
           acked == run[r].status = "accepted"
<1>2. read \in RunRecords /\ read.status = "none" /\ read.child = run[r].child /\ read.rec = run[r].rec
      /\ read.launch = run[r].launch /\ read.killed = run[r].killed /\ read.timer = run[r].timer
    BY <1>1 DEF RunRecords
<1>3. \/ run' = [run EXCEPT ![r] = [read EXCEPT !.launch = run[r].status, !.ack = acked]]
      \/ run' = [run EXCEPT ![r] = Transitioned(read, FALSE)]
    BY DEF ReadsStatus
<1>4. /\ cut' = IF run'[r].rec # run[r].rec THEN cut \cup {r} ELSE cut
    BY DEF ReadsStatus
<1>5. \A x \in Requests \ {r} : Undisturbed(x)
    BY <1>1, <1>3, <1>4 DEF Undisturbed, HandlerKept, SentKept, CutKept, RequestTypeOK
<1>6. run'[r] \in RunRecords /\ (StatusRead(r) \/ GetsCut(r))
    <2>1. CASE run' = [run EXCEPT ![r] = [read EXCEPT !.launch = run[r].status, !.ack = acked]]
        <3>1. PICK b \in BOOLEAN : b <=> acked
            OBVIOUS
        <3>2. acked \in BOOLEAN
            OBVIOUS
        <3> HIDE DEF read, acked
        <3>3. run'[r] = [read EXCEPT !.launch = run[r].status, !.ack = acked]
            BY <1>1, <2>1 DEF RequestTypeOK
        <3>4. [read EXCEPT !.launch = run[r].status] \in RunRecords
            BY <1>1, <1>2 DEF RunRecords
        <3>5. \A p \in RunRecords : [p EXCEPT !.ack = acked] \in RunRecords
            BY <3>2 DEF RunRecords
        <3>6. [read EXCEPT !.launch = run[r].status, !.ack = acked]
                 = [[read EXCEPT !.launch = run[r].status] EXCEPT !.ack = acked]
            OBVIOUS
        <3>7. run'[r] \in RunRecords
            BY <3>3, <3>4, <3>5, <3>6
        <3>8. /\ run'[r].status = "none" /\ run'[r].child = run[r].child /\ run'[r].rec = run[r].rec
              /\ run'[r].launch = run[r].status /\ run'[r].killed = run[r].killed
              /\ run'[r].timer = run[r].timer
            BY <1>2, <3>3 DEF RunRecords
        <3>9. QED
            BY <1>1, <1>4, <3>7, <3>8 DEF StatusRead, HandlerKept, SentKept, CutKept
    <2>2. CASE run' = [run EXCEPT ![r] = Transitioned(read, FALSE)]
        <3>1. run'[r] = Transitioned(read, FALSE)
            BY <1>1, <2>2 DEF RequestTypeOK
        <3> HIDE DEF read
        <3>2. run'[r] \in RunRecords /\ TransitionTo(read, run'[r])
            BY <1>2, <3>1, TransitionedIs
        <3>3. run'[r].status = "none"
            BY <1>2, <3>2 DEF TransitionTo
        <3>4. CASE read.rec # "running"
            BY <1>1, <1>2, <1>4, <3>2, <3>3, <3>4 DEF TransitionTo, StatusRead, HandlerKept, SentKept, CutKept
        <3>5. CASE read.rec = "running"
            BY <1>1, <1>2, <1>4, <3>2, <3>3, <3>5 DEF TransitionTo, GetsCut, HandlerKept, SentKept
        <3>6. QED
            BY <3>2, <3>4, <3>5
    <2>3. QED
        BY <1>3, <2>1, <2>2
<1>7. run' \in [Requests -> RunRecords] /\ cut' \subseteq Requests
    BY <1>1, <1>3, <1>4, <1>6 DEF RequestTypeOK
<1>8. QED
    BY <1>1, <1>5, <1>6, <1>7 DEF Fine, DoneTo

\* The steps that interrupt records.
LEMMA InterruptingDoes ==
    ASSUME RequestInv, NEW S, S \subseteq Requests, NEW force \in BOOLEAN, Interrupt(S, force),
           UNCHANGED <<at, answer, tries, sent>>
    PROVE  Fine /\ \A x \in S : run'[x].rec # "running"
<1>1. RequestTypeOK
    BY DEF RequestInv
<1>2. run' \in [Requests -> RunRecords] /\ cut' \subseteq Requests
    BY <1>1, InterruptTypes DEF RequestTypeOK
<1>3. ASSUME NEW x \in Requests
      PROVE  (Undisturbed(x) \/ GetsCut(x)) /\ (x \in S => run'[x].rec # "running")
    BY <1>1, InterruptDoes
    DEF RequestTypeOK, Undisturbed, GetsCut, HandlerKept, SentKept
<1>4. QED
    BY <1>2, <1>3 DEF Fine, DoneTo

\* The kill that follows an interruption that was not obeyed in time.
LEMMA KillingDoes ==
    ASSUME RequestInv, UNCHANGED <<at, answer, tries, sent, cut>>,
           DOMAIN run' = Requests, run' = [y \in Requests |-> run'[y]],
           \A y \in Requests :
              \/ run'[y] = run[y]
              \/ /\ Alive(y) \/ run[y].timer
                 /\ \/ run'[y] = [run[y] EXCEPT !.killed = TRUE]
                    \/ run'[y] = [run[y] EXCEPT !.killed = TRUE, !.timer = FALSE]
    PROVE  Fine
<1>1. RequestTypeOK
    BY DEF RequestInv
<1>2. ASSUME NEW q \in RunRecords
      PROVE  /\ [q EXCEPT !.killed = TRUE] \in RunRecords
             /\ [q EXCEPT !.killed = TRUE, !.timer = FALSE] \in RunRecords
    <2>1. \A p \in RunRecords : [p EXCEPT !.killed = TRUE] \in RunRecords /\ [p EXCEPT !.timer = FALSE] \in RunRecords
        BY DEF RunRecords
    <2>2. [q EXCEPT !.killed = TRUE, !.timer = FALSE] = [[q EXCEPT !.killed = TRUE] EXCEPT !.timer = FALSE]
        OBVIOUS
    <2>3. QED
        BY <2>1, <2>2
<1>3. ASSUME NEW y \in Requests PROVE run'[y] \in RunRecords
    <2>1. /\ run[y] \in RunRecords
          /\ [run[y] EXCEPT !.killed = TRUE] \in RunRecords
          /\ [run[y] EXCEPT !.killed = TRUE, !.timer = FALSE] \in RunRecords
        BY <1>1, <1>2 DEF RequestTypeOK
    <2>2. QED
        BY <2>1
<1>4. ASSUME NEW x \in Requests PROVE Undisturbed(x) \/ GetsKilled(x)
    <2>1. run[x] \in RunRecords /\ RunFits(x)
        BY <1>1 DEF RequestTypeOK, RequestInv
    <2>2. CASE run'[x] = run[x]
        BY <2>2 DEF Undisturbed, HandlerKept, SentKept, CutKept
    <2>3. CASE run'[x] # run[x]
        <3>1. Alive(x) \/ run[x].timer
            BY <2>3
        <3>2. at[x] = "running"
            BY <2>1, <3>1, NoRunTypes DEF RunFits, Alive
        <3>3. CASE run'[x] = [run[x] EXCEPT !.killed = TRUE]
            BY <2>1, <3>2, <3>3 DEF GetsKilled, HandlerKept, SentKept, CutKept, RunRecords
        <3>4. CASE run'[x] = [run[x] EXCEPT !.killed = TRUE, !.timer = FALSE]
            BY <2>1, <3>2, <3>4 DEF GetsKilled, HandlerKept, SentKept, CutKept, RunRecords
        <3>5. QED
            BY <2>3, <3>3, <3>4
    <2>4. QED
        BY <2>2, <2>3
<1>5. QED
    BY <1>1, <1>3, <1>4 DEF Fine, DoneTo, RequestTypeOK

\* Steps that leave every request alone.
LEMMA IdlingDoes ==
    ASSUME RequestInv, UNCHANGED <<at, answer, tries, sent, cut, run>>
    PROVE  Fine
BY DEF RequestInv, RequestTypeOK, Fine, DoneTo, Undisturbed, HandlerKept, SentKept, CutKept

\* Every step of a handler.
LEMMA HandlerDoes ==
    ASSUME RequestInv, NEW r \in Requests, Handler(r)
    PROVE  Fine
<1>1. CASE Entering(r)
    BY <1>1, EnteringDoes
<1>2. CASE Running(r)
    BY <1>2, RunningDoes
<1>3. CASE SendsMessage(r) \/ MessageEnds(r) \/ Denied(r)
    BY <1>3, MessageDoes
<1>4. CASE SpawnFails(r) \/ AskCloses(r)
    BY <1>4, ClosesDoes
<1>5. CASE ReadsStatus(r)
    BY <1>5, ReadsStatusDoes
<1>6. CASE Stopping(r)
    <2>1. Interrupt({r}, FALSE) /\ UNCHANGED <<at, answer, tries, sent>>
        BY <1>6 DEF Stopping, OutputLimited, TimesOut, HandlerOnly
    <2>2. QED
        BY <2>1, InterruptingDoes
<1>7. CASE ForceKills(r)
    <2>1. /\ run' = [run EXCEPT ![r] = [run[r] EXCEPT !.killed = TRUE, !.timer = FALSE]]
          /\ UNCHANGED <<at, answer, tries, sent, cut>> /\ run \in [Requests -> RunRecords] /\ run[r].timer
        BY <1>7 DEF ForceKills, HandlerOnly, RequestInv, RequestTypeOK
    <2>2. QED
        BY <2>1, KillingDoes
<1>8. QED
    BY <1>1, <1>2, <1>3, <1>4, <1>5, <1>6, <1>7 DEF Handler, Entering, Running, Stopping

\* What a step of the controls does to the phase and the lock.
Governs ==
    \/ UNCHANGED <<locked, shutdownVars>>
    \/ /\ locked' \in BOOLEAN /\ UNCHANGED shutdownVars
       /\ locked' => \A x \in Phone : run'[x].rec # "running"
    \/ phase = "serving" /\ phase' = "dispatching" /\ UNCHANGED <<locked, quiet, store, exit>>
    \/ /\ phase = "dispatching" /\ phase' = "graceful" /\ UNCHANGED <<locked, quiet, store, exit>>
       /\ \A x \in Requests : run'[x].rec # "running"
    \/ /\ phase = "graceful" /\ phase' = "closing" /\ quiet' /\ quiet' \in BOOLEAN
       /\ Active = {} /\ UNCHANGED <<run, locked, store, exit>>
    \/ /\ phase = "graceful" /\ phase' = "forced" /\ UNCHANGED <<locked, quiet, store, exit>>
       /\ \A x \in Requests : run'[x].child = run[x].child /\ (Alive(x) => run'[x].killed)
    \/ /\ phase = "forced" /\ phase' = "closing" /\ (quiet' => Active = {}) /\ quiet' \in BOOLEAN
       /\ UNCHANGED <<run, locked, store, exit>>
    \/ /\ phase \notin {"serving", "exited"} /\ phase' = "exited" /\ UNCHANGED <<run, locked, quiet>>
       /\ store' \in {"open", "closed"} /\ exit' \in {"zero", "one"}
       /\ store' = "closed" \/ exit' = "zero" => quiet \/ store = "closed"

\* Every step of the controls: cancellation, panic, unlock and shutdown.
LEMMA ControlDoes ==
    ASSUME RequestInv, Control
    PROVE  Fine /\ aborted' \subseteq Durable /\ Governs
<1>1. RequestTypeOK
    BY DEF RequestInv
<1>2. ASSUME NEW c \in Calls, CancelsCall(c)
      PROVE  Fine /\ aborted' \subseteq Durable /\ Governs
    <2> DEFINE S == {r \in Requests : CallOf[r] = c}
    <2>1. S \subseteq Requests /\ Interrupt(S, FALSE) /\ UNCHANGED <<at, answer, tries, sent>>
        BY <1>2 DEF CancelsCall, Spawning
    <2> HIDE DEF S
    <2>2. Fine
        BY <2>1, InterruptingDoes
    <2>3. QED
        BY <1>1, <1>2, <2>2 DEF CancelsCall, Governs, RequestTypeOK
<1>3. ASSUME NEW r \in Requests, CancelsTask(r)
      PROVE  Fine /\ aborted' \subseteq Durable /\ Governs
    <2>1. Interrupt({r}, FALSE) /\ UNCHANGED <<at, answer, tries, sent>>
        BY <1>3 DEF CancelsTask
    <2>2. Fine
        BY <2>1, InterruptingDoes
    <2>3. QED
        BY <1>1, <1>3, <2>2 DEF CancelsTask, Governs, RequestTypeOK
<1>4. CASE Panics
    <2>1. Interrupt(Phone, TRUE) /\ Phone \subseteq Requests /\ UNCHANGED <<at, answer, tries, sent>>
        BY <1>4, RequestAssumption DEF Panics
    <2>2. Fine /\ \A y \in Phone : run'[y].rec # "running"
        BY <2>1, InterruptingDoes
    <2>3. QED
        BY <1>1, <1>4, <2>1, <2>2 DEF Panics, Governs, RequestTypeOK
<1>5. CASE Unlocks
    BY <1>1, <1>5, IdlingDoes DEF Unlocks, requestVars, Governs, RequestTypeOK
<1>6. CASE Shutdown
    <2> DEFINE S == {r \in Durable : at[r] \in {"claimed", "running"}}
    <2>1. S \subseteq Requests /\ Interrupt(S, FALSE) /\ UNCHANGED <<at, answer, tries, sent>>
        BY <1>6 DEF Shutdown, Requests
    <2>2. Fine
        <3> HIDE DEF S
        <3> QED
            BY <2>1, InterruptingDoes
    <2>3. QED
        BY <1>1, <1>6, <2>2 DEF Shutdown, Serving, Governs, RequestTypeOK
<1>7. CASE Drains
    <2>1. Interrupt(Requests, FALSE) /\ UNCHANGED <<at, answer, tries, sent>>
        BY <1>7 DEF Drains
    <2>2. Fine /\ \A y \in Requests : run'[y].rec # "running"
        BY <2>1, InterruptingDoes
    <2>3. QED
        BY <1>1, <1>7, <2>2 DEF Drains, Governs, RequestTypeOK
<1>8. CASE DrainsByForce
    <2>1. CASE Active = {}
        BY <1>1, <1>8, <2>1, IdlingDoes DEF DrainsByForce, Governs, RequestTypeOK
    <2>2. CASE Active # {}
        <3>1. /\ run' = [r \in Requests |-> IF Alive(r) THEN [run[r] EXCEPT !.killed = TRUE] ELSE run[r]]
              /\ phase = "graceful" /\ phase' = "forced" /\ quiet' = quiet
              /\ UNCHANGED <<at, answer, sent, tries, cut, aborted, locked, store, exit>>
            BY <1>8, <2>2 DEF DrainsByForce
        <3>2. Fine
            BY <3>1, KillingDoes
        <3>3. ASSUME NEW y \in Requests
              PROVE  run'[y].child = run[y].child /\ (Alive(y) => run'[y].killed)
            BY <1>1, <3>1 DEF RequestTypeOK, RunRecords
        <3>4. QED
            BY <1>1, <3>1, <3>2, <3>3 DEF Governs, RequestTypeOK
    <2>3. QED
        BY <2>1, <2>2
<1>9. CASE DrainEnds
    BY <1>1, <1>9, IdlingDoes DEF DrainEnds, requestVars, Governs, RequestTypeOK
<1>10. CASE Exits
    <2>1. /\ store' \in {"open", "closed"} /\ exit' \in {"zero", "one"}
          /\ store' = "closed" \/ exit' = "zero" => quiet \/ store = "closed"
        BY <1>1, <1>10 DEF Exits, RequestTypeOK
    <2>2. QED
        BY <1>1, <1>10, <2>1, IdlingDoes DEF Exits, requestVars, Governs, RequestTypeOK
<1>11. CASE ForcedExit
    BY <1>1, <1>11, IdlingDoes DEF ForcedExit, requestVars, Governs, RequestTypeOK
<1>12. QED
    BY <1>2, <1>3, <1>4, <1>5, <1>6, <1>7, <1>8, <1>9, <1>10, <1>11 DEF Control

-----------------------------------------------------------------------------
(* Every step, and what it keeps.                                           *)

\* Every step of the controller, in one view.
LEMMA StepDoes ==
    ASSUME RequestInv, [RequestNext]_agentVars
    PROVE  /\ \A x \in Requests : DoneTo(x)
           /\ run' \in [Requests -> RunRecords] /\ cut' \subseteq Requests
           /\ sent' \subseteq Spawning /\ aborted' \subseteq Durable
           /\ Governs
<1>1. RequestTypeOK
    BY DEF RequestInv
<1>2. ASSUME NEW r \in Requests, Client(r)
      PROVE  /\ \A x \in Requests : DoneTo(x)
             /\ run' \in [Requests -> RunRecords] /\ sent' \subseteq Spawning
             /\ UNCHANGED <<cut, aborted, locked, shutdownVars>>
    <2>1. UNCHANGED <<cut, aborted, locked, shutdownVars>>
        BY <1>2 DEF Client, Accepted, Refused, Forwards, ClientEnds, Dies, ClientOnly
    <2>2. QED
        BY <1>2, <2>1, ClientDoes
<1>3. ASSUME NEW r \in Requests, Handler(r)
      PROVE  Fine /\ UNCHANGED <<aborted, locked, shutdownVars>>
    <2>1. UNCHANGED <<aborted, locked, shutdownVars>>
        BY <1>3 DEF Handler, AskArrives, StructuredArrives, MessageArrives, ManagedAskArrives, Comes,
           Denied, AskStarts, StructuredStarts, SendsMessage, MessageEnds, ReadsStatus, OutputLimited,
           TimesOut, ForceKills, SpawnFails, AskCloses, StructuredCloses, HandlerOnly
    <2>2. QED
        BY <1>3, <2>1, HandlerDoes
<1>4. CASE Control
    <2>1. Fine /\ aborted' \subseteq Durable /\ Governs
        BY <1>4, ControlDoes
    <2>2. QED
        BY <1>1, <2>1, <1>4 DEF Fine, RequestTypeOK
<1>5. CASE UNCHANGED agentVars
    BY <1>1, <1>5, IdlingDoes DEF Fine, agentVars, requestVars, Governs, RequestTypeOK
<1>6. QED
    BY <1>1, <1>2, <1>3, <1>4, <1>5 DEF RequestNext, Fine, Governs, RequestTypeOK

\* The types of what a handler alone writes.
HandlerTypes ==
    /\ at \in [Requests -> {"idle", "authorizing", "claimed", "running", "answered"}]
    /\ answer \in [Requests -> {"none", "refused", "shutdown", "locked", "busy", "unknown", "failed", "success"}]
    /\ tries \in [Requests -> 0 .. MaxTries]

\* Every step keeps the types; no request runs more agents than MaxTries.
LEMMA TypesStep == RequestInv /\ [RequestNext]_agentVars => RequestTypeOK'
<1>0. SUFFICES ASSUME RequestInv, [RequestNext]_agentVars PROVE RequestTypeOK'
    OBVIOUS
<1>1. RequestTypeOK /\ \A r \in Requests : RunFits(r)
    BY <1>0 DEF RequestInv
<1>2. /\ at' \in [Requests -> {"idle", "authorizing", "claimed", "running", "answered"}]
      /\ answer' \in [Requests -> {"none", "refused", "shutdown", "locked", "busy", "unknown", "failed", "success"}]
      /\ tries' \in [Requests -> 0 .. MaxTries]
    <2>1. CASE UNCHANGED <<at, answer, tries>>
        BY <1>1, <2>1 DEF RequestTypeOK
    <2>2. ASSUME NEW r \in Requests, Entering(r)
          PROVE  HandlerTypes'
        BY <1>1, <2>2 DEF HandlerTypes, RequestTypeOK, Entering, AskArrives, StructuredArrives, MessageArrives,
           ManagedAskArrives, Comes
    <2>3. ASSUME NEW r \in Requests, Running(r)
          PROVE  HandlerTypes'
        <3>1. CASE RunsAgent(r) /\ tries[r] < MaxTries
            BY <1>1, <3>1, RequestAssumption DEF HandlerTypes, RequestTypeOK, RunsAgent, Answers, Refusal
        <3>2. CASE StructuredCloses(r) /\ ~(RunsAgent(r) /\ tries[r] < MaxTries)
            <4>1. PICK a \in {"failed", "success"} : Answers(r, a) /\ tries' = tries
                BY <3>2 DEF StructuredCloses
            <4>2. QED
                BY <1>1, <4>1 DEF HandlerTypes, RequestTypeOK, Answers
        <3>3. CASE AskStarts(r) \/ StructuredStarts(r)
            <4>1. tries[r] = 0 /\ RunsAgent(r) /\ 0 < MaxTries
                BY <1>1, <3>3, RequestAssumption DEF AskStarts, StructuredStarts, RunFits
            <4>2. QED
                BY <3>1, <4>1
        <3>4. QED
            BY <2>3, <3>1, <3>2, <3>3 DEF Running
    <2>4. ASSUME NEW r \in Requests,
                 Denied(r) \/ SendsMessage(r) \/ MessageEnds(r) \/ SpawnFails(r) \/ AskCloses(r)
          PROVE  HandlerTypes'
        <3>1. \/ \E a \in {"refused", "shutdown", "success", "failed", "unknown", "busy"} : Answers(r, a)
              \/ at' = [at EXCEPT ![r] = "running"] /\ UNCHANGED answer
            BY <2>4 DEF Denied, SendsMessage, MessageEnds, SpawnFails, AskCloses, AskAnswer
        <3>2. tries' = tries
            BY <2>4 DEF Denied, SendsMessage, MessageEnds, SpawnFails, AskCloses
        <3>3. QED
            BY <1>1, <3>1, <3>2 DEF HandlerTypes, RequestTypeOK, Answers
    <2>5. \/ UNCHANGED <<at, answer, tries>>
          \/ \E r \in Requests : \/ Entering(r) \/ Running(r)
                                \/ Denied(r) \/ SendsMessage(r) \/ MessageEnds(r)
                                \/ SpawnFails(r) \/ AskCloses(r)
        <3>1. ASSUME NEW r \in Requests, Client(r) \/ ReadsStatus(r) \/ Stopping(r) \/ ForceKills(r)
              PROVE  UNCHANGED <<at, answer, tries>>
            BY <3>1 DEF Client, Accepted, Refused, Forwards, ClientEnds, Dies, ClientOnly, ReadsStatus,
               Stopping, OutputLimited, TimesOut, ForceKills
        <3>2. CASE Control
            BY <3>2 DEF Control, CancelsCall, CancelsTask, Panics, Unlocks, Shutdown, Drains,
               DrainsByForce, DrainEnds, Exits, ForcedExit, requestVars
        <3>3. CASE UNCHANGED agentVars
            BY <3>3 DEF agentVars, requestVars
        <3>4. QED
            BY <1>0, <3>1, <3>2, <3>3 DEF RequestNext, Handler, Entering, Running, Stopping
    <2>6. QED
        BY <2>1, <2>2, <2>3, <2>4, <2>5 DEF HandlerTypes
<1>5. /\ locked' \in BOOLEAN /\ quiet' \in BOOLEAN
      /\ phase' \in {"serving", "dispatching", "graceful", "forced", "closing", "exited"}
      /\ store' \in {"open", "closed"} /\ exit' \in {"none", "zero", "one"}
    BY <1>0, <1>1, StepDoes DEF Governs, RequestTypeOK, shutdownVars
<1>6. QED
    BY <1>0, <1>2, <1>5, StepDoes DEF RequestTypeOK

\* Every step keeps a handler, its record and its child in agreement.
LEMMA RunFitsStep ==
    ASSUME RequestInv, [RequestNext]_agentVars, NEW x \in Requests
    PROVE  RunFits(x)'
<1>1. DoneTo(x) /\ RunFits(x) /\ CutFits(x) /\ RequestTypeOK
    BY StepDoes DEF RequestInv
<1>2. run[x] \in RunRecords
    BY <1>1 DEF RequestTypeOK
<1> USE <1>1, <1>2
<1>3. CASE Undisturbed(x) \/ Enters(x)
    BY <1>3 DEF Undisturbed, Enters, HandlerKept, SentKept, CutKept, RunFits
<1>4. CASE GetsAnswer(x)
    BY <1>4, NoRunTypes DEF GetsAnswer, SentKept, CutKept, RunFits
<1>5. CASE GetsChild(x)
    BY <1>5 DEF GetsChild, SentKept, RunFits
<1>6. CASE Delivers(x)
    BY <1>6, NoRunTypes, RequestAssumption DEF Delivers, SentKept, CutKept, RunFits, Spawning
<1>7. CASE ClientMoves(x)
    BY <1>7, NoRunTypes DEF ClientMoves, HandlerKept, SentKept, CutKept, SameRecord, Alive, RunFits
<1>8. CASE StatusRead(x)
    BY <1>8, NoRunTypes DEF StatusRead, HandlerKept, SentKept, CutKept, RunFits
<1>9. CASE GetsCut(x)
    BY <1>9, NoRunTypes DEF GetsCut, HandlerKept, SentKept, RunFits
<1>10. CASE GetsKilled(x)
    BY <1>10 DEF GetsKilled, HandlerKept, SentKept, CutKept, RunFits
<1>11. QED
    BY <1>3, <1>4, <1>5, <1>6, <1>7, <1>8, <1>9, <1>10 DEF DoneTo

\* Every step keeps an interrupted record from running again.
LEMMA CutFitsStep ==
    ASSUME RequestInv, [RequestNext]_agentVars, NEW x \in Requests
    PROVE  CutFits(x)'
<1>1. DoneTo(x) /\ RunFits(x) /\ CutFits(x) /\ RequestTypeOK /\ Governs
    BY StepDoes DEF RequestInv
<1>2. run[x] \in RunRecords
    BY <1>1 DEF RequestTypeOK
<1>3. ~Up => ~Up'
    BY <1>1 DEF Up, Governs, shutdownVars
<1> USE <1>1, <1>2, <1>3
<1>4. CASE Undisturbed(x) \/ Enters(x)
    BY <1>4 DEF Undisturbed, Enters, HandlerKept, SentKept, CutKept, CutFits, Alive
<1>5. CASE GetsAnswer(x)
    BY <1>5, NoRunTypes DEF GetsAnswer, CutFits, Alive
<1>6. CASE GetsChild(x)
    BY <1>6 DEF GetsChild, CutFits, Alive
<1>7. CASE Delivers(x)
    BY <1>7 DEF Delivers, CutKept, CutFits, Alive, RunFits
<1>8. CASE ClientMoves(x)
    BY <1>8 DEF ClientMoves, CutKept, SameRecord, CutFits, Alive
<1>9. CASE StatusRead(x)
    BY <1>9 DEF StatusRead, CutKept, CutFits, Alive
<1>10. CASE GetsCut(x)
    BY <1>10 DEF GetsCut, CutFits, Alive
<1>11. CASE GetsKilled(x)
    BY <1>11 DEF GetsKilled, CutKept, CutFits, Alive
<1>12. QED
    BY <1>4, <1>5, <1>6, <1>7, <1>8, <1>9, <1>10, <1>11 DEF DoneTo

\* Outside of service no record is registered, so an empty house stays empty.
LEMMA ShutdownStep == RequestInv /\ [RequestNext]_agentVars => ShutdownFits'
<1>0. SUFFICES ASSUME RequestInv, [RequestNext]_agentVars PROVE ShutdownFits'
    OBVIOUS
<1>1. RequestTypeOK /\ ShutdownFits /\ Governs
    BY <1>0, StepDoes DEF RequestInv
\* outside of service nobody registers a record
<1>2. ASSUME NEW x \in Requests, ~Serving
      PROVE  run'[x].rec \in {run[x].rec, "none", "interrupted"} /\ (run[x].rec = "none" => run'[x].rec = "none")
    <2>1. DoneTo(x) /\ run[x] \in RunRecords /\ RunFits(x)
        BY <1>0, <1>1, StepDoes DEF RequestInv, RequestTypeOK
    <2>2. QED
        BY <1>2, <2>1, NoRunTypes DEF DoneTo, Undisturbed, Enters, GetsAnswer, GetsChild, Delivers,
           ClientMoves, SameRecord, StatusRead, GetsCut, GetsKilled, RunRecords
<1>3. /\ (phase \in {"graceful", "forced", "closing"})' => \A x \in Requests : run'[x].rec # "running"
      /\ quiet' => (phase \in {"closing", "exited"})' /\ Active' = {}
      /\ (store = "closed" \/ exit = "zero")' => quiet'
    <2>1. ASSUME phase' \in {"graceful", "forced", "closing"}, NEW x \in Requests
          PROVE  run'[x].rec # "running"
        BY <1>1, <1>2, <2>1 DEF Governs, ShutdownFits, Serving, shutdownVars
    <2>2. quiet' => phase' \in {"closing", "exited"} /\ Active' = {}
        BY <1>1, <1>2 DEF Governs, ShutdownFits, Serving, shutdownVars, Active
    <2>3. (store' = "closed" \/ exit' = "zero") => quiet'
        BY <1>1 DEF Governs, ShutdownFits, shutdownVars
    <2>4. QED
        BY <2>1, <2>2, <2>3
<1>4. QED
    BY <1>3 DEF ShutdownFits

\* No answer that denies an effect is given once the agent was sent its input.
LEMMA TruthStep == RequestInv /\ [RequestNext]_agentVars => TruthfulAnswers'
<1>0. SUFFICES ASSUME RequestInv, [RequestNext]_agentVars, NEW x \in Mutating
               PROVE  (answer[x] \notin {"none", "unknown", "success"} => x \notin sent)'
    BY DEF TruthfulAnswers
<1>1. x \in Requests /\ x \notin Structured
    BY RequestAssumption DEF Requests
<1>2. DoneTo(x) /\ RequestTypeOK /\ RunFits(x) /\ (answer[x] \notin {"none", "unknown", "success"} => x \notin sent)
    BY <1>0, <1>1, StepDoes DEF RequestInv, TruthfulAnswers
<1> USE <1>2
<1>3. CASE Undisturbed(x) \/ Enters(x)
    BY <1>3 DEF Undisturbed, Enters, HandlerKept, SentKept
<1>4. CASE GetsAnswer(x)
    BY <1>0, <1>4 DEF GetsAnswer, SentKept
<1>5. CASE GetsChild(x) \/ Delivers(x)
    BY <1>1, <1>5 DEF GetsChild, Delivers, SentKept
<1>6. CASE ClientMoves(x)
    BY <1>6, NoRunTypes DEF ClientMoves, HandlerKept, SentKept, Alive, RunFits
<1>7. CASE StatusRead(x) \/ GetsCut(x) \/ GetsKilled(x)
    BY <1>7 DEF StatusRead, GetsCut, GetsKilled, HandlerKept, SentKept
<1>8. QED
    BY <1>3, <1>4, <1>5, <1>6, <1>7 DEF DoneTo

\* The lock interrupts what runs by phone, and no step starts more behind it.
LEMMA LockStep == RequestInv /\ [RequestNext]_agentVars => LockFits'
<1>0. SUFFICES ASSUME RequestInv, [RequestNext]_agentVars, locked', NEW x \in Phone \cap Spawning
               PROVE  run'[x].rec # "running"
    BY DEF LockFits
<1>1. x \in Requests
    BY DEF Spawning
<1>2. DoneTo(x) /\ RequestTypeOK /\ Governs
    BY <1>0, <1>1, StepDoes DEF RequestInv
<1>3. CASE ~locked
    BY <1>0, <1>2, <1>3 DEF Governs, RequestTypeOK
<1>4. CASE locked
    <2>1. run[x].rec # "running"
        BY <1>0, <1>4 DEF LockFits, RequestInv
    <2>2. QED
        BY <1>0, <1>2, <1>4, <2>1, NoRunTypes DEF Spawning, DoneTo, Undisturbed, Enters, GetsAnswer, GetsChild,
           Delivers, ClientMoves, SameRecord, StatusRead, GetsCut, GetsKilled
<1>5. QED
    BY <1>3, <1>4

\* A closed store and a zero exit leave no client alive.
LEMMA ClosedStep == RequestInv /\ [RequestNext]_agentVars => ClosedIsQuiet'
<1>0. SUFFICES ASSUME RequestInv, [RequestNext]_agentVars PROVE ClosedIsQuiet'
    OBVIOUS
<1>1. RequestTypeOK /\ ShutdownFits /\ ShutdownFits' /\ Governs /\ ClosedIsQuiet
    BY <1>0, StepDoes, ShutdownStep DEF RequestInv
<1>2. \A x \in Requests : DoneTo(x) /\ RunFits(x)' /\ run[x] \in RunRecords
    BY <1>0, <1>1, StepDoes, RunFitsStep DEF RequestTypeOK
<1>3. ASSUME (store = "closed" \/ exit = "zero")', NEW x \in Requests
      PROVE  ~Alive(x)' /\ run'[x].rec = "none"
    <2>1. run'[x].rec = "none"
        BY <1>1, <1>3 DEF ShutdownFits, Active
    <2>2. QED
        BY <1>2, <2>1, NoRunTypes DEF RunFits, Alive
<1>4. ASSUME phase' \in {"forced", "closing"}, NEW x \in Requests, Alive(x)'
      PROVE  run'[x].killed
    <2>1. CASE phase = "graceful" /\ phase' = "forced"
        BY <1>1, <1>2, <1>4, <2>1 DEF Governs, Alive, shutdownVars
    <2>2. CASE phase = "graceful" /\ phase' = "closing"
        <3>1. Active = {} /\ run' = run
            BY <1>1, <2>2 DEF Governs, shutdownVars
        <3>2. run[x].rec = "none" /\ RunFits(x)
            BY <1>0, <3>1 DEF Active, RequestInv
        <3>3. QED
            BY <1>4, <3>1, <3>2, NoRunTypes DEF RunFits, Alive
    <2>3. CASE phase \in {"forced", "closing"}
        <3>1. (Alive(x) => run[x].killed) /\ run[x].rec # "running" /\ ~Serving
            BY <1>1, <2>3 DEF ClosedIsQuiet, ShutdownFits, Serving
        <3>2. QED
            BY <1>2, <1>4, <3>1, NoRunTypes DEF DoneTo, Undisturbed, Enters, GetsAnswer, GetsChild,
               Delivers, ClientMoves, SameRecord, StatusRead, GetsCut, GetsKilled, Alive
    <2>4. QED
        BY <1>1, <1>4, <2>1, <2>2, <2>3 DEF Governs, shutdownVars
<1>5. QED
    BY <1>3, <1>4 DEF ClosedIsQuiet, Alive

\* The invariant is inductive; that a panic reaches everyone follows from its parts.
LEMMA RequestInvStep == RequestInv /\ [RequestNext]_agentVars => RequestInv'
<1>0. SUFFICES ASSUME RequestInv, [RequestNext]_agentVars PROVE RequestInv'
    OBVIOUS
<1>1. /\ RequestTypeOK' /\ ShutdownFits' /\ TruthfulAnswers' /\ ClosedIsQuiet' /\ LockFits'
      /\ \A x \in Requests : RunFits(x)' /\ CutFits(x)'
    BY <1>0, TypesStep, ShutdownStep, TruthStep, ClosedStep, LockStep, RunFitsStep, CutFitsStep
<1>2. ASSUME locked', NEW x \in Phone, Alive(x)'
      PROVE  (run[x].killed \/ run[x].timer \/ ~Up)'
    <2>1. x \in Requests
        BY RequestAssumption
    <2>2. run'[x] \in RunRecords /\ run'[x].rec # "none" /\ x \in Spawning
        BY <1>1, <1>2, <2>1, NoRunTypes DEF RunFits, Alive, RequestTypeOK
    <2>3. run'[x].rec # "running"
        BY <1>1, <1>2, <2>2 DEF LockFits
    <2>4. run'[x].rec = "interrupted"
        BY <2>2, <2>3 DEF RunRecords
    <2>5. QED
        BY <1>1, <1>2, <2>1, <2>4 DEF CutFits
<1>3. PanicReachesAll'
    BY <1>2 DEF PanicReachesAll
<1>4. QED
    BY <1>1, <1>3 DEF RequestInv

\* From every request that can come together with every end of a call, panic,
\* deadline, lost frame and shutdown: answers are true, a panic reaches every
\* client, and the store is closed only over an empty house.
THEOREM RequestInvariant == RequestSpec => []RequestInv
<1>1. RequestInit => RequestInv
    <2> SUFFICES ASSUME RequestInit PROVE RequestInv
        OBVIOUS
    <2>1. \A r \in Requests : run[r] = NoRun
        BY DEF RequestInit
    <2>2. RequestTypeOK
        <3>1. MaxTries \in Nat /\ 0 \in 0 .. MaxTries
            BY RequestAssumption
        <3>2. /\ at \in [Requests -> {"idle"}] /\ answer \in [Requests -> {"none"}]
              /\ run \in [Requests -> RunRecords] /\ tries \in [Requests -> 0 .. MaxTries]
            BY <3>1, NoRunTypes DEF RequestInit
        <3>3. QED
            BY <3>2 DEF RequestInit, RequestTypeOK
    <2>3. \A r \in Requests : RunFits(r) /\ CutFits(r)
        BY <2>1, NoRunTypes DEF RequestInit, RunFits, CutFits, Alive
    <2>4. ShutdownFits /\ LockFits /\ PanicReachesAll /\ ClosedIsQuiet
        BY DEF RequestInit, ShutdownFits, LockFits, PanicReachesAll, ClosedIsQuiet
    <2>5. TruthfulAnswers
        BY RequestAssumption DEF RequestInit, TruthfulAnswers, Requests
    <2>6. QED
        BY <2>2, <2>3, <2>4, <2>5 DEF RequestInv
<1>2. QED
    BY <1>1, RequestInvStep, PTL DEF RequestSpec

\* Once interrupted, a request gets no other client and no result; and none is
\* started behind the panic lock or the beginning of a shutdown.
THEOREM InterruptionsAreFinal == RequestSpec => InterruptedIsFinal
<1>1. ASSUME RequestInv, [RequestNext]_agentVars
      PROVE  [\A r \in Spawning :
                /\ r \in cut => tries'[r] = tries[r] /\ (answer'[r] = "success" => answer[r] = "success")
                /\ tries'[r] # tries[r] => Serving /\ ~(r \in Phone /\ locked)]_agentVars
    <2>1. ASSUME NEW r \in Spawning
          PROVE  /\ r \in cut => tries'[r] = tries[r] /\ (answer'[r] = "success" => answer[r] = "success")
                 /\ tries'[r] # tries[r] => Serving /\ ~(r \in Phone /\ locked)
        <3>1. r \in Requests
            BY DEF Spawning
        <3>2. DoneTo(r)
            BY <1>1, <3>1, StepDoes
        <3>3. QED
            BY <3>2 DEF DoneTo, Undisturbed, Enters, GetsAnswer, GetsChild, Delivers, ClientMoves,
               StatusRead, GetsCut, GetsKilled, HandlerKept
    <2>2. QED
        BY <2>1
<1>2. QED
    BY <1>1, RequestInvariant, PTL DEF RequestSpec, InterruptedIsFinal

-----------------------------------------------------------------------------
(* The provider planes. *)

USE ProviderAssumption
USE DEF vars, boundaryVars, fileVars, superVars, launchVars, rootVars, Plane, Of, PanicLocked,
        Runs, Visible, LauncherOnly, Release, Revoked, MaybeRevoked, UnitOnly, Becomes, Quiesced,
        SuperOnly, NoBoundary, Uncertain, Certain, Unproved, Asked, Looked, ControlOnly, RootOnly,
        NoSuper, lookVars, BoundaryTypes, PlaneTypes, WatchTypes, RootTypes

\* No unit, no lock and no record at first: the invariant holds.
LEMMA InitHolds == ProviderInit => PInv
<1> SUFFICES ASSUME ProviderInit
             PROVE  PInv
    OBVIOUS
<1>1. PTypeOK
    BY DEF ProviderInit, PTypeOK
<1>2. LockIsHeld /\ RootGains /\ RecordsFit /\ LooksFit
    BY DEF ProviderInit, LockIsHeld, RootGains, RecordsFit, LooksFit
<1> QED
    BY <1>1, <1>2 DEF PInv

\* What a supervisor makes of a recovery, in its types.
LEMMA RecoveredTyped ==
    ASSUME PTypeOK, NEW p \in Providers, NEW ok \in BOOLEAN, Recovered(p, ok)
    PROVE  PlaneTypes'
<1>1. sup' \in [Providers -> {"down", "starting", "up", "closing"}]
    BY DEF Recovered, Down, PTypeOK
<1>2. fence' \in [Providers -> BOOLEAN]
  <2>1. \/ UNCHANGED fence
        \/ fence' = [fence EXCEPT ![p] = TRUE]
        \/ fence' = [fence EXCEPT ![p] = FALSE]
      BY Zenon DEF Recovered
  <2>2. fence \in [Providers -> BOOLEAN]
      BY DEF PTypeOK
  <2> QED
      BY <2>1, <2>2
<1>3. sure' \in [Providers -> BOOLEAN]
  <2>1. \/ UNCHANGED sure
        \/ sure' = [sure EXCEPT ![p] = TRUE]
        \/ sure' = [sure EXCEPT ![p] = FALSE]
        \/ Down({p})
      BY Zenon DEF Recovered
  <2>2. ASSUME Down({p})
        PROVE  sure' \in [Providers -> BOOLEAN]
    <3>1. \A q \in Providers : (sure[q] /\ q \notin {p}) \in BOOLEAN
        BY Zenon
    <3>2. sure' = [q \in Providers |-> sure[q] /\ q \notin {p}]
        BY <2>2, Zenon DEF Down
    <3> QED
        BY <3>1, <3>2, Zenon
  <2>3. CASE ~Down({p})
    <3>1. sure \in [Providers -> BOOLEAN]
        BY DEF PTypeOK
    <3>2. \/ UNCHANGED sure
          \/ sure' = [sure EXCEPT ![p] = TRUE]
          \/ sure' = [sure EXCEPT ![p] = FALSE]
        BY <2>1, <2>3, Zenon
    <3> QED
        BY <3>1, <3>2
  <2> QED
      BY <2>2, <2>3
<1>4. ctl' \in [Providers -> {"none", "panic", "unproved", "unlock"}]
    BY DEF Recovered, Down, PTypeOK
<1>5. rec' \in [Providers -> {"none", "egress", "units", "loose", "purge", "failed"}]
    BY DEF Recovered, Down, PTypeOK
<1> QED
    BY <1>1, <1>2, <1>3, <1>4, <1>5

-----------------------------------------------------------------------------
\* A launcher keeps it: what it starts, it holds the lock for.
LEMMA LauncherKeeps ==
    ASSUME PInv, NEW l \in Launches, Launcher(l) \/ LauncherDies(l)
    PROVE  PInv'
<1> USE DEF PInv
<1>1. CASE TakeLock(l)
    BY <1>1 DEF PTypeOK, LockIsHeld, RootGains, RecordsFit, LooksFit, TakeLock
<1>2. CASE Plan(l)
    BY <1>2 DEF PTypeOK, LockIsHeld, RootGains, RecordsFit, LooksFit, Plan
<1>3. CASE Register(l)
    BY <1>3 DEF PTypeOK, LockIsHeld, RootGains, RecordsFit, LooksFit, Register
<1>4. CASE Submit(l)
    BY <1>4 DEF PTypeOK, LockIsHeld, RootGains, RecordsFit, LooksFit, Submit
<1>5. CASE HelperEnds(l)
    BY <1>5 DEF PTypeOK, LockIsHeld, RootGains, RecordsFit, LooksFit, HelperEnds
<1>6. CASE Unwind(l)
    BY <1>6 DEF PTypeOK, LockIsHeld, RootGains, RecordsFit, LooksFit, Unwind
<1>7. CASE LauncherDies(l)
    BY <1>7 DEF PTypeOK, LockIsHeld, RootGains, RecordsFit, LooksFit, LauncherDies
<1>8. CASE Sends(l)
    BY <1>8 DEF PTypeOK, LockIsHeld, RootGains, RecordsFit, LooksFit, Sends
<1> QED
    BY <1>1, <1>2, <1>3, <1>4, <1>5, <1>6, <1>7, <1>8 DEF Launcher

-----------------------------------------------------------------------------
\* systemd and the unit keep it: what is not canceled holds the lock.
LEMMA UnitKeeps ==
    ASSUME PInv, NEW l \in Launches, Arrives(l) \/ Intent(l) \/ Spawn(l) \/ Mark(l) \/ UnitEnds(l)
    PROVE  PInv'
<1> USE DEF PInv
<1>1. CASE Arrives(l)
    BY <1>1 DEF PTypeOK, LockIsHeld, RootGains, RecordsFit, LooksFit, Arrives
<1>2. CASE Intent(l)
    BY <1>2 DEF PTypeOK, LockIsHeld, RootGains, RecordsFit, LooksFit, Intent
<1>3. CASE Spawn(l)
    BY <1>3 DEF PTypeOK, LockIsHeld, RootGains, RecordsFit, LooksFit, Spawn
<1>4. CASE Mark(l)
    BY <1>4 DEF PTypeOK, LockIsHeld, RootGains, RecordsFit, LooksFit, Mark
<1>5. CASE UnitEnds(l)
    BY <1>5 DEF PTypeOK, LockIsHeld, RootGains, RecordsFit, LooksFit, UnitEnds
<1> QED
    BY <1>1, <1>2, <1>3, <1>4, <1>5

-----------------------------------------------------------------------------
\* A supervisor keeps it for each of its launches.
LEMMA WatchKeeps ==
    ASSUME PInv, NEW l \in Launches,
           Admit(l) \/ StopAsked(l) \/ Watching(l) \/ CallFails(l)
    PROVE  PInv'
<1> USE DEF PInv
<1>1. CASE Admit(l)
    BY <1>1 DEF PTypeOK, LockIsHeld, RootGains, RecordsFit, LooksFit, Admit
<1>2. CASE StopAsked(l)
    BY <1>2 DEF PTypeOK, LockIsHeld, RootGains, RecordsFit, LooksFit, StopAsked
<1>3. CASE Poll(l)
    BY <1>3 DEF PTypeOK, LockIsHeld, RootGains, RecordsFit, LooksFit, Poll, Observe
<1>4. CASE Inspect(l)
  <2>1. PTypeOK'
      BY <1>4 DEF PTypeOK, Inspect, Observe, Finish, AskAfter
  <2>2. LockIsHeld'
      BY <1>4 DEF PTypeOK, LockIsHeld, RootGains, RecordsFit, Inspect, Observe, Finish, AskAfter
  <2>3. RootGains'
      BY <1>4 DEF PTypeOK, LockIsHeld, RootGains, RecordsFit, Inspect, Observe, Finish, AskAfter
  <2>4. RecordsFit'
      BY <1>4 DEF PTypeOK, LockIsHeld, RootGains, RecordsFit, LooksFit, Inspect, Observe, Finish, AskAfter
  <2>5. LooksFit'
      BY <1>4 DEF PTypeOK, LockIsHeld, RootGains, RecordsFit, LooksFit, Inspect, Observe, Finish, AskAfter
  <2> QED
      BY <2>1, <2>2, <2>3, <2>4, <2>5
<1>5. CASE TermFence(l)
    BY <1>5 DEF PTypeOK, LockIsHeld, RootGains, RecordsFit, LooksFit, TermFence
<1>6. CASE TermStop(l)
  <2>1. PTypeOK'
      BY <1>6 DEF PTypeOK, TermStop, Stopped, Observe, Finish
  <2>2. LockIsHeld'
      BY <1>6 DEF PTypeOK, LockIsHeld, RootGains, RecordsFit, TermStop, Stopped, Observe, Finish
  <2>3. RootGains'
      BY <1>6 DEF PTypeOK, LockIsHeld, RootGains, RecordsFit, TermStop, Stopped, Observe, Finish
  <2>4. RecordsFit'
      BY <1>6 DEF PTypeOK, LockIsHeld, RootGains, RecordsFit, TermStop, Stopped, Observe, Finish
  <2>5. LooksFit'
      BY <1>6 DEF PTypeOK, LockIsHeld, RootGains, RecordsFit, LooksFit, TermStop, Stopped, Observe, Finish
  <2> QED
      BY <2>1, <2>2, <2>3, <2>4, <2>5
<1>7. CASE TermUnproved(l)
  <2>1. PTypeOK'
      BY <1>7 DEF PTypeOK, TermUnproved
  <2>2. LockIsHeld'
      BY <1>7 DEF PTypeOK, LockIsHeld, RootGains, RecordsFit, TermUnproved
  <2>3. RootGains'
      BY <1>7 DEF PTypeOK, LockIsHeld, RootGains, RecordsFit, TermUnproved
  <2>4. RecordsFit'
      BY <1>7 DEF PTypeOK, LockIsHeld, RootGains, RecordsFit, TermUnproved
  <2>5. LooksFit'
      BY <1>7 DEF PTypeOK, LockIsHeld, RootGains, RecordsFit, LooksFit, TermUnproved
  <2> QED
      BY <2>1, <2>2, <2>3, <2>4, <2>5
<1>8. CASE Drained(l)
    BY <1>8 DEF PTypeOK, LockIsHeld, RootGains, RecordsFit, LooksFit, Drained, Finish
<1>9. CASE PollFails(l)
    BY <1>9 DEF PTypeOK, LockIsHeld, RootGains, RecordsFit, LooksFit, PollFails
<1>10. CASE InspectFails(l)
    BY <1>10 DEF PTypeOK, LockIsHeld, RootGains, RecordsFit, LooksFit, InspectFails, AskAfter
<1>11. CASE TermFails(l)
  <2>1. PTypeOK'
      BY <1>11 DEF PTypeOK, TermFails
  <2>2. LockIsHeld'
      BY <1>11 DEF PTypeOK, LockIsHeld, RootGains, RecordsFit, TermFails
  <2>3. RootGains'
      BY <1>11 DEF PTypeOK, LockIsHeld, RootGains, RecordsFit, TermFails
  <2>4. RecordsFit'
      BY <1>11 DEF PTypeOK, LockIsHeld, RootGains, RecordsFit, TermFails
  <2>5. LooksFit'
      BY <1>11 DEF PTypeOK, LockIsHeld, RootGains, RecordsFit, LooksFit, TermFails
  <2> QED
      BY <2>1, <2>2, <2>3, <2>4, <2>5
<1>12. CASE TermLost(l)
  <2>1. PTypeOK'
      BY <1>12 DEF PTypeOK, TermLost, Stopped
  <2>2. LockIsHeld'
      BY <1>12 DEF PTypeOK, LockIsHeld, RootGains, RecordsFit, TermLost, Stopped
  <2>3. RootGains'
      BY <1>12 DEF PTypeOK, LockIsHeld, RootGains, RecordsFit, TermLost, Stopped
  <2>4. RecordsFit'
      BY <1>12 DEF PTypeOK, LockIsHeld, RootGains, RecordsFit, TermLost, Stopped
  <2>5. LooksFit'
      BY <1>12 DEF PTypeOK, LockIsHeld, RootGains, RecordsFit, LooksFit, TermLost, Stopped
  <2> QED
      BY <2>1, <2>2, <2>3, <2>4, <2>5
<1>13. CASE LookAtUnit(l)
    BY <1>13 DEF PTypeOK, LockIsHeld, RootGains, RecordsFit, LooksFit, LookAtUnit
<1>14. CASE LookAtRecord(l)
    BY <1>14 DEF PTypeOK, LockIsHeld, RootGains, RecordsFit, LooksFit, LookAtRecord
<1> QED
    BY <1>1, <1>2, <1>3, <1>4, <1>5, <1>6, <1>7, <1>8, <1>9, <1>10, <1>11, <1>12, <1>13, <1>14
       DEF Watching, CallFails

-----------------------------------------------------------------------------
\* A plane keeps it: its control lane, its recovery, and whatever ends it.
LEMMA PlaneKeeps ==
    ASSUME PInv, NEW p \in Providers,
           Panic(p) \/ Unlock(p) \/ Close(p) \/ Crash(p) \/ Start(p) \/ Supervise(p) \/ EgressRestarts(p)
    PROVE  PInv'
<1> USE DEF PInv
<1>1. CASE Panic(p)
    BY <1>1 DEF PTypeOK, LockIsHeld, RootGains, RecordsFit, LooksFit, Panic
<1>2. CASE Unlock(p)
    BY <1>2 DEF PTypeOK, LockIsHeld, RootGains, RecordsFit, LooksFit, Unlock
<1>3. CASE Close(p)
    BY <1>3 DEF PTypeOK, LockIsHeld, RootGains, RecordsFit, LooksFit, Close
<1>4. CASE Crash(p)
    BY <1>4 DEF PTypeOK, LockIsHeld, RootGains, RecordsFit, LooksFit, Crash, Down
<1>5. CASE Start(p)
    BY <1>5 DEF PTypeOK, LockIsHeld, RootGains, RecordsFit, LooksFit, Start
<1>6. CASE Answered(p)
    BY <1>6 DEF PTypeOK, LockIsHeld, RootGains, RecordsFit, LooksFit, Answered
<1>7. CASE RecoverEgress(p)
    BY <1>7 DEF PTypeOK, LockIsHeld, RootGains, RecordsFit, LooksFit, RecoverEgress
<1>8. CASE RecoverUnits(p)
    BY <1>8 DEF PTypeOK, LockIsHeld, RootGains, RecordsFit, LooksFit, RecoverUnits
<1>9. CASE RecoverPurge(p)
  <2>1. PTypeOK'
    <3>1. BoundaryTypes'
        BY <1>9 DEF PTypeOK, RecoverPurge, Recovered, Down
    <3>2. PlaneTypes'
        BY <1>9, RecoveredTyped DEF RecoverPurge
    <3>3. WatchTypes'
        BY <1>9 DEF PTypeOK, RecoverPurge, Recovered, Down
    <3>4. RootTypes'
        BY <1>9 DEF PTypeOK, RecoverPurge, Recovered, Down
    <3> QED
        BY <3>1, <3>2, <3>3, <3>4 DEF PTypeOK
  <2>2. LockIsHeld'
      BY <1>9 DEF PTypeOK, LockIsHeld, RootGains, RecordsFit, RecoverPurge, Recovered, Down
  <2>3. RootGains'
      BY <1>9 DEF PTypeOK, LockIsHeld, RootGains, RecordsFit, RecoverPurge, Recovered, Down
  <2>4. RecordsFit'
      BY <1>9 DEF PTypeOK, LockIsHeld, RootGains, RecordsFit, RecoverPurge, Recovered, Down
  <2>5. LooksFit'
      BY <1>9 DEF PTypeOK, LockIsHeld, RootGains, RecordsFit, LooksFit, RecoverPurge, Recovered, Down
  <2> QED
      BY <2>1, <2>2, <2>3, <2>4, <2>5
<1>10. CASE RecoverFails(p)
  <2>1. PTypeOK'
    <3>1. BoundaryTypes'
        BY <1>10 DEF PTypeOK, RecoverFails, Recovered, Down
    <3>2. PlaneTypes'
        BY <1>10, RecoveredTyped DEF RecoverFails
    <3>3. WatchTypes'
        BY <1>10 DEF PTypeOK, RecoverFails, Recovered, Down
    <3>4. RootTypes'
        BY <1>10 DEF PTypeOK, RecoverFails, Recovered, Down
    <3> QED
        BY <3>1, <3>2, <3>3, <3>4 DEF PTypeOK
  <2>2. LockIsHeld'
      BY <1>10 DEF PTypeOK, LockIsHeld, RootGains, RecordsFit, RecoverFails, Recovered, Down
  <2>3. RootGains'
      BY <1>10 DEF PTypeOK, LockIsHeld, RootGains, RecordsFit, RecoverFails, Recovered, Down
  <2>4. RecordsFit'
      BY <1>10 DEF PTypeOK, LockIsHeld, RootGains, RecordsFit, RecoverFails, Recovered, Down
  <2>5. LooksFit'
      BY <1>10 DEF PTypeOK, LockIsHeld, RootGains, RecordsFit, LooksFit, RecoverFails, Recovered, Down
  <2> QED
      BY <2>1, <2>2, <2>3, <2>4, <2>5
<1>11. CASE EgressRestarts(p)
    BY <1>11 DEF PTypeOK, LockIsHeld, RootGains, RecordsFit, LooksFit, EgressRestarts
<1> QED
    BY <1>1, <1>2, <1>3, <1>4, <1>5, <1>6, <1>7, <1>8, <1>9, <1>10, <1>11 DEF Supervise

-----------------------------------------------------------------------------
\* Root keeps it: each stage of a stop gains what the next one rests on.
LEMMA RootKeeps ==
    ASSUME PInv, Root \/ RootBegins("panic") \/ RootBegins("unlock")
    PROVE  PInv'
<1> USE DEF PInv
<1>1. CASE RootBegins("panic")
    BY <1>1 DEF PTypeOK, LockIsHeld, RootGains, RecordsFit, LooksFit, RootBegins
<1>2. CASE RootBegins("unlock")
    BY <1>2 DEF PTypeOK, LockIsHeld, RootGains, RecordsFit, LooksFit, RootBegins
<1>3. CASE RootStops
    BY <1>3 DEF PTypeOK, LockIsHeld, RootGains, RecordsFit, LooksFit, RootStops, Down
<1>4. CASE RootMasks
  <2>1. PTypeOK'
      BY <1>4 DEF PTypeOK, RootMasks
  <2>2. LockIsHeld'
      BY <1>4 DEF PTypeOK, LockIsHeld, RootGains, RecordsFit, RootMasks
  <2>3. RootGains'
      BY <1>4 DEF PTypeOK, LockIsHeld, RootGains, RecordsFit, RootMasks
  <2>4. RecordsFit'
      BY <1>4 DEF PTypeOK, LockIsHeld, RootGains, RecordsFit, RootMasks
  <2>5. LooksFit'
      BY <1>4 DEF PTypeOK, LockIsHeld, RootGains, RecordsFit, LooksFit, RootMasks
  <2> QED
      BY <2>1, <2>2, <2>3, <2>4, <2>5
<1>5. CASE RootRetained
  <2>1. PTypeOK'
    <3>1. BoundaryTypes'
        BY <1>5 DEF PTypeOK, RootRetained, Terminate
    <3>2. PlaneTypes'
        BY <1>5 DEF PTypeOK, RootRetained, Terminate
    <3>3. WatchTypes'
        BY <1>5 DEF PTypeOK, RootRetained, Terminate
    <3>4. RootTypes'
        BY <1>5 DEF PTypeOK, RootRetained, Terminate
    <3> QED
        BY <3>1, <3>2, <3>3, <3>4 DEF PTypeOK
  <2>2. LockIsHeld'
      BY <1>5 DEF PTypeOK, LockIsHeld, RootGains, RecordsFit, RootRetained, Terminate
  <2>3. RootGains'
      BY <1>5 DEF PTypeOK, LockIsHeld, RootGains, RecordsFit, RootRetained, Terminate
  <2>4. RecordsFit'
      BY <1>5 DEF PTypeOK, LockIsHeld, RootGains, RecordsFit, RootRetained, Terminate
  <2>5. LooksFit'
      BY <1>5 DEF PTypeOK, LockIsHeld, RootGains, RecordsFit, LooksFit, RootRetained, Terminate
  <2> QED
      BY <2>1, <2>2, <2>3, <2>4, <2>5
<1>6. CASE RootUnits
  <2>1. PTypeOK'
    <3>1. BoundaryTypes'
        BY <1>6 DEF PTypeOK, RootUnits, Terminate
    <3>2. PlaneTypes'
        BY <1>6 DEF PTypeOK, RootUnits, Terminate
    <3>3. WatchTypes'
        BY <1>6 DEF PTypeOK, RootUnits, Terminate
    <3>4. RootTypes'
        BY <1>6 DEF PTypeOK, RootUnits, Terminate
    <3> QED
        BY <3>1, <3>2, <3>3, <3>4 DEF PTypeOK
  <2>2. LockIsHeld'
      BY <1>6 DEF PTypeOK, LockIsHeld, RootGains, RecordsFit, RootUnits, Terminate
  <2>3. RootGains'
      BY <1>6 DEF PTypeOK, LockIsHeld, RootGains, RecordsFit, RootUnits, Terminate
  <2>4. RecordsFit'
      BY <1>6 DEF PTypeOK, LockIsHeld, RootGains, RecordsFit, RootUnits, Terminate
  <2>5. LooksFit'
      BY <1>6 DEF PTypeOK, LockIsHeld, RootGains, RecordsFit, LooksFit, RootUnits, Terminate
  <2> QED
      BY <2>1, <2>2, <2>3, <2>4, <2>5
<1>7. CASE RootEgress
  <2>1. PTypeOK'
    <3>1. BoundaryTypes'
        BY <1>7 DEF PTypeOK, RootEgress
    <3>2. PlaneTypes'
        BY <1>7 DEF PTypeOK, RootEgress
    <3>3. WatchTypes'
        BY <1>7 DEF PTypeOK, RootEgress
    <3>4. RootTypes'
        BY <1>7 DEF PTypeOK, RootEgress
    <3> QED
        BY <3>1, <3>2, <3>3, <3>4 DEF PTypeOK
  <2>2. LockIsHeld'
      BY <1>7 DEF PTypeOK, LockIsHeld, RootGains, RecordsFit, RootEgress
  <2>3. RootGains'
      BY <1>7 DEF PTypeOK, LockIsHeld, RootGains, RecordsFit, RootEgress
  <2>4. RecordsFit'
      BY <1>7 DEF PTypeOK, LockIsHeld, RootGains, RecordsFit, RootEgress
  <2>5. LooksFit'
      BY <1>7 DEF PTypeOK, LockIsHeld, RootGains, RecordsFit, LooksFit, RootEgress
  <2> QED
      BY <2>1, <2>2, <2>3, <2>4, <2>5
<1>8. CASE RootClears
  <2>1. PTypeOK'
    <3>1. BoundaryTypes'
        BY <1>8 DEF PTypeOK, RootClears
    <3>2. PlaneTypes'
        BY <1>8 DEF PTypeOK, RootClears
    <3>3. WatchTypes'
        BY <1>8 DEF PTypeOK, RootClears
    <3>4. RootTypes'
      <4>1. UNCHANGED fileVars /\ (calm' = calm \/ calm' = TRUE)
          BY <1>8 DEF RootClears
      <4>2. Ends \/ (root' = "restarting" /\ UNCHANGED <<kind, proved, retained>>)
          BY <1>8 DEF RootClears, Ends
      <4>3. CASE Ends
          BY <4>1, <4>3 DEF PTypeOK, Ends
      <4>4. CASE root' = "restarting" /\ UNCHANGED <<kind, proved, retained>>
          BY <4>1, <4>4 DEF PTypeOK
      <4> QED
          BY <4>2, <4>3, <4>4
    <3> QED
        BY <3>1, <3>2, <3>3, <3>4 DEF PTypeOK
  <2>2. LockIsHeld'
      BY <1>8 DEF PTypeOK, LockIsHeld, RootGains, RecordsFit, RootClears, Ends
  <2>3. RootGains'
      BY <1>8 DEF PTypeOK, LockIsHeld, RootGains, RecordsFit, RootClears, Ends
  <2>4. RecordsFit'
      BY <1>8 DEF PTypeOK, LockIsHeld, RootGains, RecordsFit, RootClears, Ends
  <2>5. LooksFit'
      BY <1>8 DEF PTypeOK, LockIsHeld, RootGains, RecordsFit, LooksFit, RootClears, Ends
  <2> QED
      BY <2>1, <2>2, <2>3, <2>4, <2>5
<1>9. CASE RootRestarts
  <2>1. PTypeOK'
    <3>1. BoundaryTypes'
        BY <1>9 DEF PTypeOK, RootRestarts
    <3>2. PlaneTypes'
        BY <1>9 DEF PTypeOK, RootRestarts
    <3>3. WatchTypes'
        BY <1>9 DEF PTypeOK, RootRestarts
    <3>4. RootTypes'
      <4>1. UNCHANGED <<panicFile, calm>> /\ recoveryFile' = TRUE
          BY <1>9 DEF RootRestarts
      <4>2. \/ masked' = FALSE /\ root' = "probing" /\ UNCHANGED <<kind, proved, retained>>
            \/ UNCHANGED masked /\ Ends
          BY <1>9 DEF RootRestarts, Ends
      <4>3. CASE UNCHANGED masked /\ Ends
          BY <4>1, <4>3 DEF PTypeOK, Ends
      <4>4. CASE masked' = FALSE /\ root' = "probing" /\ UNCHANGED <<kind, proved, retained>>
          BY <4>1, <4>4 DEF PTypeOK
      <4> QED
          BY <4>2, <4>3, <4>4
    <3> QED
        BY <3>1, <3>2, <3>3, <3>4 DEF PTypeOK
  <2>2. LockIsHeld'
      BY <1>9 DEF PTypeOK, LockIsHeld, RootGains, RecordsFit, RootRestarts, Ends
  <2>3. RootGains'
      BY <1>9 DEF PTypeOK, LockIsHeld, RootGains, RecordsFit, RootRestarts, Ends
  <2>4. RecordsFit'
      BY <1>9 DEF PTypeOK, LockIsHeld, RootGains, RecordsFit, RootRestarts, Ends
  <2>5. LooksFit'
      BY <1>9 DEF PTypeOK, LockIsHeld, RootGains, RecordsFit, LooksFit, RootRestarts, Ends
  <2> QED
      BY <2>1, <2>2, <2>3, <2>4, <2>5
<1>10. CASE RootProbes
    BY <1>10 DEF PTypeOK, LockIsHeld, RootGains, RecordsFit, LooksFit, RootProbes
<1>11. CASE RootRollsBack
  <2>1. PTypeOK'
    <3>1. BoundaryTypes'
        BY <1>11 DEF PTypeOK, RootRollsBack, Down, Ends
    <3>2. PlaneTypes'
        BY <1>11 DEF PTypeOK, RootRollsBack, Down, Ends
    <3>3. WatchTypes'
        BY <1>11 DEF PTypeOK, RootRollsBack, Down, Ends
    <3>4. RootTypes'
        BY <1>11 DEF PTypeOK, RootRollsBack, Down, Ends
    <3> QED
        BY <3>1, <3>2, <3>3, <3>4 DEF PTypeOK
  <2>2. LockIsHeld'
      BY <1>11 DEF PTypeOK, LockIsHeld, RootGains, RecordsFit, RootRollsBack, Down, Ends
  <2>3. RootGains'
      BY <1>11 DEF PTypeOK, LockIsHeld, RootGains, RecordsFit, RootRollsBack, Down, Ends
  <2>4. RecordsFit'
      BY <1>11 DEF PTypeOK, LockIsHeld, RootGains, RecordsFit, RootRollsBack, Down, Ends
  <2>5. LooksFit'
      BY <1>11 DEF PTypeOK, LockIsHeld, RootGains, RecordsFit, LooksFit, RootRollsBack, Down, Ends
  <2> QED
      BY <2>1, <2>2, <2>3, <2>4, <2>5
<1>12. CASE RootCommits
    BY <1>12 DEF PTypeOK, LockIsHeld, RootGains, RecordsFit, LooksFit, RootCommits, Ends
<1>13. CASE RootDies
    BY <1>13 DEF PTypeOK, LockIsHeld, RootGains, RecordsFit, LooksFit, RootDies, Ends
<1> QED
    BY <1>1, <1>2, <1>3, <1>4, <1>5, <1>6, <1>7, <1>8, <1>9, <1>10, <1>11, <1>12, <1>13 DEF Root

-----------------------------------------------------------------------------
\* Whatever launchers, units, supervisors and root do next, PInv stays.
LEMMA PInvStep == PInv /\ [ProviderNext]_vars => PInv'
<1> SUFFICES ASSUME PInv, [ProviderNext]_vars
             PROVE  PInv'
    OBVIOUS
<1>1. CASE UNCHANGED vars
    BY <1>1 DEF PInv, PTypeOK, LockIsHeld, RootGains, RecordsFit, LooksFit
<1>2. CASE ProviderNext
    BY <1>2, LauncherKeeps, UnitKeeps, WatchKeeps, PlaneKeeps, RootKeeps
       DEF ProviderNext, Course, Trouble
<1> QED
    BY <1>1, <1>2

\* The lock, root's gains and the records hold in every state of every instance.
THEOREM PInvAlways == ProviderSpec => []PInv
<1>1. PInv /\ [ProviderNext]_vars => PInv'
    BY PInvStep
<1> QED
    BY InitHolds, <1>1, PTL DEF ProviderSpec

\* One model runs at a time on both planes: each would hold the one lock.
THEOREM OneProviderAlways == ProviderSpec => []OneProvider
<1>1. PInv => OneProvider
    BY DEF PInv, LockIsHeld, OneProvider
<1> QED
    BY <1>1, PInvAlways, PTL

\* A root stop that was answered quiesced covers what could not be seen.
THEOREM StopCoversAll == ProviderSpec => []PanicMeansStopped
<1>1. PInv => PanicMeansStopped
  <2> SUFFICES ASSUME PInv, calm, NEW l \in Launches
               PROVE  ~Visible(l) /\ (unit[l] = "sent" => l \in tombs) /\ cap[l] # "active"
      BY DEF PanicMeansStopped
  <2> QED
      BY DEF PInv, RootGains
<1> QED
    BY <1>1, PInvAlways, PTL

-----------------------------------------------------------------------------
\* What the last frame of a launch may say.
Truthful(l) ==
    told'[l] # told[l] =>
        /\ told'[l] \in {"accepted", "exit"} => l \in ran
        /\ told'[l] \in {"exit", "unknown", "notStarted"} =>
              \/ ~Visible(l)' /\ (told'[l] = "notStarted" => l \notin ran)
              \/ sawUnit[l] = "sent" /\ sawUnit'[l] = "none" /\ glock = l

\* Only polls, inspections and terminations answer, and they answer what the
\* record they read, or read before they removed it, proves.
LEMMA AnswersStep ==
    ASSUME PInv, ProviderNext, NEW m \in Launches
    PROVE  Truthful(m)
<1> USE DEF PInv, PTypeOK, RecordsFit, LooksFit, Truthful

<1>1. ASSUME NEW l \in Launches, Poll(l)
      PROVE  Truthful(m)
    BY <1>1 DEF Poll, Observe
<1>2. ASSUME NEW l \in Launches, Inspect(l)
      PROVE  Truthful(m)
    BY <1>2 DEF Inspect, Observe, Finish, AskAfter
<1>3. ASSUME NEW l \in Launches, TermStop(l)
      PROVE  Truthful(m)
    BY <1>3 DEF TermStop, Stopped, Observe, Finish
<1>4. ASSUME NEW l \in Launches, Drained(l)
      PROVE  Truthful(m)
    BY <1>4 DEF Drained, Finish
<1>5. ASSUME NEW l \in Launches,
             \/ Admit(l) \/ Launcher(l) \/ LauncherDies(l) \/ StopAsked(l) \/ CallFails(l)
             \/ TermFence(l) \/ TermUnproved(l) \/ LookAtUnit(l) \/ LookAtRecord(l)
             \/ Arrives(l) \/ Intent(l) \/ Spawn(l) \/ Mark(l) \/ UnitEnds(l)
      PROVE  UNCHANGED told
    BY <1>5 DEF Admit, Launcher, TakeLock, Plan, Register, Submit, Sends, HelperEnds, Unwind, LauncherDies,
                StopAsked, CallFails, PollFails, InspectFails, TermFails, TermLost, TermFence,
                TermUnproved, LookAtUnit, LookAtRecord, Arrives, Intent, Spawn, Mark, UnitEnds
<1>6. ASSUME NEW p \in Providers,
             \/ Panic(p) \/ Unlock(p) \/ Close(p) \/ Crash(p) \/ Start(p) \/ Supervise(p)
             \/ EgressRestarts(p)
      PROVE  UNCHANGED told
    BY <1>6 DEF Panic, Unlock, Close, Crash, Start, Supervise, Answered, RecoverEgress, RecoverUnits,
                RecoverPurge, RecoverFails, Recovered, Down, EgressRestarts
<1>7. ASSUME Root \/ RootBegins("panic") \/ RootBegins("unlock")
      PROVE  UNCHANGED told
    BY <1>7 DEF Root, RootBegins, RootStops, RootMasks, RootRetained, RootUnits, RootEgress, RootClears,
                RootRestarts, RootProbes, RootRollsBack, RootCommits, RootDies, Down
<1> QED
    BY <1>1, <1>2, <1>3, <1>4, <1>5, <1>6, <1>7 DEF ProviderNext, Course, Trouble, Watching

\* An exit is said of no launch that did not run, and PROVIDER_NOT_STARTED of none
\* that did or still shows, unless the status it rests on was taken while a request
\* was on its way whose launch holds the global lock.
THEOREM AnswersHold == ProviderSpec => AnswersAreTrue
<1>1. PInv /\ [ProviderNext]_vars =>
          [\A l \in Launches : told'[l] # told[l] =>
              /\ told'[l] \in {"accepted", "exit"} => l \in ran
              /\ told'[l] \in {"exit", "unknown", "notStarted"} =>
                    \/ ~Visible(l)' /\ (told'[l] = "notStarted" => l \notin ran)
                    \/ sawUnit[l] = "sent" /\ sawUnit'[l] = "none" /\ glock = l]_vars
    BY AnswersStep DEF Truthful
<1> QED
    BY <1>1, PInvAlways, PTL DEF ProviderSpec, AnswersAreTrue
=============================================================================
