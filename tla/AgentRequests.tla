---------------------------- MODULE AgentRequests ----------------------------
(***************************************************************************)
(* The agent requests of claude-api-server/server.js: POST /ask, POST       *)
(* /ask-structured with its repair attempts, managed asks run by the        *)
(* executor, and POST /operator/session-message; the provider client that   *)
(* runAgentOnce spawns for them and the two side channels between the two;   *)
(* what interrupts them (the end of a call, a panic, a deadline, too much   *)
(* output, a write that fails) and the shutdown that drains them.            *)
(* An operator marked "bug" is used by no other.                             *)
(***************************************************************************)
EXTENDS Naturals, FiniteSets

CONSTANTS
    Asks, Structured, Durable, Messages,  \* the requests of each kind
    Phone,      \* those with a phone profile
    Mutating,   \* managed asks approved for more than reading
    Calls, CallOf,  \* keys of activeRequests: a call, or the operation of a message
    MaxTries,   \* attempts of a structured request
    MaxBegun    \* bound on the requests of one history

Requests == Asks \cup Structured \cup Durable \cup Messages
Spawning == Requests \ Messages

ASSUME RequestAssumption ==
    /\ Asks \cap (Structured \cup Durable \cup Messages) = {}
    /\ Structured \cap (Durable \cup Messages) = {} /\ Durable \cap Messages = {}
    /\ Messages \subseteq Phone /\ Phone \subseteq Requests
    /\ Mutating \subseteq Durable
    /\ CallOf \in [Requests -> Calls]
    /\ MaxTries \in Nat \ {0} /\ MaxBegun \in Nat

VARIABLES
    at,       \* where the handler is at
    answer,   \* what it answered
    run,      \* the active request record, its child and their side channels
    sent,     \* requests whose prompt was forwarded to a provider
    tries,    \* children spawned for a request
    cut,      \* requests whose record was interrupted
    aborted,  \* managed asks whose signal is aborted
    locked,   \* the voice lock
    phase,    \* how far shutdown() is
    quiet,    \* activeRequestsQuiesced
    store,    \* the executor task store
    exit      \* the exit code

requestVars  == <<at, answer, run, sent, tries, cut, aborted>>
shutdownVars == <<phase, quiet, store, exit>>
agentVars == <<requestVars, locked, shutdownVars>>

\* rec is the record in activeRequests; "canceled", "timed_out" and
\* "output_limited" differ in their error code only.  Of the child: "failed"
\* was not spawned, "zero" and "nonzero" have exited and are not closed yet.
\* status travels on fd 3; launch is what was read of it; ack is on fd 4.
NoRun == [rec |-> "none", child |-> "none", status |-> "none", launch |-> "none",
          ack |-> FALSE, killed |-> FALSE, timer |-> FALSE]

RunRecords ==
        [rec    : {"none", "running", "interrupted"},
         child  : {"none", "failed", "connecting", "reporting", "forwarding", "zero", "nonzero"},
         status : {"none", "accepted", "busy", "unknown"},
         launch : {"none", "accepted", "busy", "unknown"},
         ack : BOOLEAN, killed : BOOLEAN, timer : BOOLEAN]

Alive(r)  == run[r].child \in {"connecting", "reporting", "forwarding"}
Exited(r) == run[r].child \in {"zero", "nonzero"}
Active    == {r \in Requests : run[r].rec # "none"}
Serving   == phase = "serving"     \* not shutdownRequested
Up        == phase # "exited"

RequestInit ==
    /\ at = [r \in Requests |-> "idle"]
    /\ answer = [r \in Requests |-> "none"]
    /\ run = [r \in Requests |-> NoRun]
    /\ sent = {} /\ cut = {} /\ aborted = {}
    /\ tries = [r \in Requests |-> 0]
    /\ locked = FALSE
    /\ phase = "serving" /\ quiet = FALSE /\ store = "open" /\ exit = "none"

-----------------------------------------------------------------------------
(* transitionActiveRequest: only a running record is interrupted.  SIGTERM   *)
(* is passed on by the client and binds it to nothing; SIGKILL is sent at    *)
(* once by force, otherwise by a timer.                                      *)

\* bug: nothing follows a SIGTERM
TransitionedMildly(q, force) ==
    IF q.rec # "running" THEN q ELSE [q EXCEPT !.rec = "interrupted", !.killed = force]

Transitioned(q, force) ==
    IF q.rec # "running" THEN q
    ELSE [q EXCEPT !.rec = "interrupted", !.killed = force, !.timer = ~force /\ q.child # "none"]

\* the records of the requests S are interrupted
Interrupt(S, force) ==
    /\ run' = [r \in Requests |->
                  IF r \in S /\ run[r].rec # "none" THEN Transitioned(run[r], force) ELSE run[r]]
    /\ cut' = cut \cup {r \in S : run[r].rec = "running"}

\* cleanup and clearActiveRequest, then the answer
Answers(r, a) ==
    /\ at' = [at EXCEPT ![r] = "answered"]
    /\ answer' = [answer EXCEPT ![r] = a]
    /\ run' = [run EXCEPT ![r] = NoRun]

-----------------------------------------------------------------------------
(* runAgentOnce.                                                            *)

\* bug: the fence is only in front of the handler, not next to the spawn
NoRefusal(r) == IF r \in Phone /\ locked THEN "locked" ELSE "none"

\* The refusals it rejects with, in their order.
Refusal(r) == IF ~Serving THEN "shutdown" ELSE IF r \in Phone /\ locked THEN "locked" ELSE "none"

\* What is spawned and registered; onStarted of a managed ask needs the
\* identity of the process and may fail to write it.
Spawned(r) ==
    LET at0(child) == [NoRun EXCEPT !.rec = "running", !.child = child]
        stopped(child) == Transitioned(at0(child), FALSE)
    IN  IF r \notin Durable THEN {at0("connecting"), at0("failed")}
        ELSE {stopped("connecting"), stopped("failed")}
             \cup (IF r \in aborted THEN {} ELSE {at0("connecting")})

\* the handler calls it, or the next attempt of a structured request does
RunsAgent(r) ==
    /\ IF Refusal(r) # "none"
       THEN /\ Answers(r, Refusal(r))
            /\ UNCHANGED <<tries, cut>>
       ELSE /\ \E q \in Spawned(r) :
                  /\ run' = [run EXCEPT ![r] = q]
                  /\ cut' = IF q.rec = "running" THEN cut ELSE cut \cup {r}
            /\ at' = [at EXCEPT ![r] = "running"]
            /\ tries' = [tries EXCEPT ![r] = @ + 1]
            /\ UNCHANGED answer

-----------------------------------------------------------------------------
(* The handlers up to their first child.                                    *)

Begun == {r \in Requests : at[r] # "idle"}

\* what every handler looks at before its first await
Comes(r, to) ==
    /\ Serving
    /\ at[r] = "idle"
    /\ Cardinality(Begun) < MaxBegun
    /\ r \in Phone => ~locked
    /\ at' = [at EXCEPT ![r] = to]
    /\ UNCHANGED <<answer, run, sent, tries, cut, aborted, locked, shutdownVars>>

AskArrives(r)        == r \in Asks /\ Comes(r, "authorizing")
StructuredArrives(r) == r \in Structured /\ Comes(r, "authorizing")
MessageArrives(r)    == r \in Messages /\ Comes(r, "authorizing")
\* the dispatcher runs a managed ask, which was authorized before
ManagedAskArrives(r) == r \in Durable /\ Comes(r, "claimed")

\* the approval is denied, or the target cannot be prepared
Denied(r) ==
    /\ Up
    /\ at[r] = "authorizing"
    /\ Answers(r, "refused")
    /\ UNCHANGED <<sent, tries, cut, aborted, locked, shutdownVars>>

AskStarts(r) ==
    /\ Up
    /\ r \in Asks \cup Durable
    /\ at[r] \in {"authorizing", "claimed"}
    /\ RunsAgent(r)
    /\ UNCHANGED <<sent, aborted, locked, shutdownVars>>

StructuredStarts(r) ==
    /\ Up
    /\ r \in Structured
    /\ at[r] = "authorizing"
    /\ RunsAgent(r)
    /\ UNCHANGED <<sent, aborted, locked, shutdownVars>>

\* The voice lock was looked at before the awaits and is not looked at again:
\* it is the worker that refuses the delivery then.
SendsMessage(r) ==
    /\ Up
    /\ r \in Messages
    /\ at[r] = "authorizing"
    /\ IF Serving
       THEN /\ at' = [at EXCEPT ![r] = "running"]
            /\ run' = [run EXCEPT ![r].rec = "running"]
            /\ UNCHANGED answer
       ELSE Answers(r, "shutdown")
    /\ UNCHANGED <<sent, tries, cut, aborted, locked, shutdownVars>>

\* Delivered or not: an aborted delivery may have gone through.
MessageEnds(r) ==
    /\ Up
    /\ r \in Messages
    /\ at[r] = "running"
    /\ \E a \in {"success", "failed"} : Answers(r, a)
    /\ UNCHANGED <<sent, tries, cut, aborted, locked, shutdownVars>>

-----------------------------------------------------------------------------
(* The client of the provider supervisor, a process of its own: it outlives  *)
(* a controller that exits.                                                  *)

ClientOnly == UNCHANGED <<at, answer, tries, cut, aborted, locked, shutdownVars>>

\* The supervisor accepts, or refuses; the client blocks until the acceptance
\* is acknowledged.
Accepted(r) ==
    /\ run[r].child = "connecting"
    /\ run' = [run EXCEPT ![r].child = "reporting", ![r].status = "accepted"]
    /\ UNCHANGED sent /\ ClientOnly

Refused(r) ==
    /\ run[r].child = "connecting"
    /\ \E s \in {"busy", "unknown", "none"} :
          run' = [run EXCEPT ![r].child = "nonzero", ![r].status = s]
    /\ UNCHANGED sent /\ ClientOnly

Forwards(r) ==
    /\ run[r].child = "reporting"
    /\ run[r].ack
    /\ run' = [run EXCEPT ![r].child = "forwarding"]
    /\ sent' = sent \cup {r}
    /\ ClientOnly

\* the provider ends, or the connection to the supervisor does
ClientEnds(r) ==
    /\ \/ run[r].child = "forwarding" /\ \E c \in {"zero", "nonzero"} : run' = [run EXCEPT ![r].child = c]
       \/ run[r].child = "connecting" /\ run' = [run EXCEPT ![r].child = "nonzero"]
       \/ run[r].child = "reporting" /\ ~Up /\ run' = [run EXCEPT ![r].child = "nonzero"]
    /\ UNCHANGED sent /\ ClientOnly

Dies(r) ==
    /\ Alive(r)
    /\ run[r].killed
    /\ run' = [run EXCEPT ![r].child = "nonzero"]
    /\ UNCHANGED sent /\ ClientOnly

-----------------------------------------------------------------------------
(* What the controller hears of a child.                                     *)

HandlerOnly == UNCHANGED <<sent, aborted, locked, shutdownVars>>

\* whether what a callback of a managed ask writes is stored
Stored(r) == IF r \in Durable THEN BOOLEAN ELSE {TRUE}

\* finalizeProviderStatus: what a managed ask cannot write cancels it and is
\* never acknowledged
ReadsStatus(r) ==
    /\ Up
    /\ run[r].status # "none"
    /\ \E stored \in Stored(r) :
          LET read == [run[r] EXCEPT !.status = "none"]
          IN  run' = [run EXCEPT ![r] =
                 IF stored THEN [read EXCEPT !.launch = run[r].status, !.ack = run[r].status = "accepted"]
                 ELSE Transitioned(read, FALSE)]
    /\ cut' = IF run'[r].rec # run[r].rec THEN cut \cup {r} ELSE cut
    /\ UNCHANGED <<at, answer, tries>> /\ HandlerOnly

\* captureAgentOutput
OutputLimited(r) ==
    /\ Up
    /\ run[r].child = "forwarding" \/ (Exited(r) /\ r \in sent)
    /\ Interrupt({r}, FALSE)
    /\ UNCHANGED <<at, answer, tries>> /\ HandlerOnly

TimesOut(r) ==
    /\ Up
    /\ r \in Spawning /\ run[r].rec = "running"
    /\ Interrupt({r}, FALSE)
    /\ UNCHANGED <<at, answer, tries>> /\ HandlerOnly

\* forceKillTimer
ForceKills(r) ==
    /\ Up
    /\ run[r].timer
    /\ run' = [run EXCEPT ![r].killed = TRUE, ![r].timer = FALSE]
    /\ UNCHANGED <<at, answer, tries, cut>> /\ HandlerOnly

\* "error" of a child that was not spawned
SpawnFails(r) ==
    /\ Up
    /\ run[r].child = "failed"
    /\ Answers(r, "failed")
    /\ UNCHANGED <<tries, cut>> /\ HandlerOnly

\* The child closed and its status is read: an interrupted record, or an
\* acceptance nobody acknowledged, is an error whatever the child did.
InError(r) == run[r].rec # "running" \/ (run[r].launch = "accepted" /\ ~run[r].ack)

\* bug: a refusal of the supervisor is believed, whatever it is
AskAnswerRetryable(r) ==
    IF InError(r) THEN IF r \in Mutating THEN "unknown" ELSE "failed"
    ELSE IF run[r].child = "zero" THEN "success"
    ELSE IF run[r].launch = "busy" THEN "busy"
    ELSE "failed"

AskAnswer(r) ==
    IF InError(r) THEN IF r \in Mutating THEN "unknown" ELSE "failed"
    ELSE IF run[r].child = "zero" THEN "success"
    ELSE IF run[r].launch = "unknown" THEN "unknown"
    ELSE IF run[r].launch = "busy" THEN "busy"
    ELSE IF r \in Mutating THEN "unknown" ELSE "failed"

AskCloses(r) ==
    /\ Up
    /\ r \in Asks \cup Durable
    /\ Exited(r) /\ run[r].status = "none"
    /\ Answers(r, AskAnswer(r))
    /\ UNCHANGED <<tries, cut>> /\ HandlerOnly

\* a structured answer that does not parse or validate is asked for again
StructuredCloses(r) ==
    /\ Up
    /\ r \in Structured
    /\ Exited(r) /\ run[r].status = "none"
    /\ \/ /\ Answers(r, IF InError(r) \/ run[r].child # "zero" THEN "failed" ELSE "success")
          /\ UNCHANGED <<tries, cut>>
       \/ /\ ~InError(r) /\ run[r].child = "zero"
          /\ IF tries[r] < MaxTries THEN RunsAgent(r)
             ELSE Answers(r, "failed") /\ UNCHANGED <<tries, cut>>
    /\ HandlerOnly

-----------------------------------------------------------------------------
(* What stops requests.                                                     *)

\* POST /cancel-session with the scope of a call: every record of its bucket, then
\* the signals of its managed asks.  A request that is not registered yet is missed.
CancelsCall(c) ==
    /\ Serving
    /\ LET S == {r \in Requests : CallOf[r] = c}
       IN  /\ Interrupt(S, FALSE)
           /\ aborted' = aborted \cup {r \in S \cap Durable : at[r] \in {"claimed", "running"}}
    /\ UNCHANGED <<at, answer, sent, tries, locked, shutdownVars>>

\* with the scope of a task, only the dispatcher's record
CancelsTask(r) ==
    /\ Serving
    /\ r \in Durable
    /\ at[r] \in {"claimed", "running"}
    /\ Interrupt({r}, FALSE)
    /\ aborted' = aborted \cup {r}
    /\ UNCHANGED <<at, answer, sent, tries, locked, shutdownVars>>

\* performVoicePanic up to its first await: the lock, the requests by force,
\* the executor queue
Panics ==
    /\ Serving
    /\ locked' = TRUE
    /\ Interrupt(Phone, TRUE)
    /\ aborted' = aborted \cup {r \in Durable : at[r] \in {"claimed", "running"}}
    /\ UNCHANGED <<at, answer, sent, tries, shutdownVars>>

\* only the durable work is looked at
Unlocks ==
    /\ Serving
    /\ locked
    /\ \A r \in Durable : at[r] \in {"idle", "answered"}
    /\ locked' = FALSE
    /\ UNCHANGED <<requestVars, shutdownVars>>

-----------------------------------------------------------------------------
(* shutdown()                                                               *)

\* the fence, and dispatcher.shutdown, which interrupts its records
Shutdown ==
    /\ Serving
    /\ phase' = "dispatching"
    /\ LET S == {r \in Durable : at[r] \in {"claimed", "running"}}
       IN  Interrupt(S, FALSE) /\ aborted' = aborted \cup S
    /\ UNCHANGED <<at, answer, sent, tries, locked, quiet, store, exit>>

\* it drains or times out; drainAllActiveRequests interrupts what is left
Drains ==
    /\ phase = "dispatching"
    /\ phase' = "graceful"
    /\ Interrupt(Requests, FALSE)
    /\ UNCHANGED <<at, answer, sent, tries, aborted, locked, quiet, store, exit>>

\* all gone, or the deadline passes and the children left get SIGKILL
DrainsByForce ==
    /\ phase = "graceful"
    /\ IF Active = {}
       THEN phase' = "closing" /\ quiet' = TRUE /\ UNCHANGED run
       ELSE /\ phase' = "forced"
            /\ run' = [r \in Requests |-> IF Alive(r) THEN [run[r] EXCEPT !.killed = TRUE] ELSE run[r]]
            /\ UNCHANGED quiet
    /\ UNCHANGED <<at, answer, sent, tries, cut, aborted, locked, store, exit>>

DrainEnds ==
    /\ phase = "forced"
    /\ phase' = "closing"
    /\ quiet' = (Active = {})
    /\ UNCHANGED <<requestVars, locked, store, exit>>

\* the owner sessions, the HTTP listeners and the store close in time, or not;
\* of the dispatcher's shutdown only the exit code tells
Exits ==
    /\ phase = "closing"
    /\ phase' = "exited"
    /\ \E dispatched, closed \in BOOLEAN :
          /\ store' = IF quiet /\ closed THEN "closed" ELSE store
          /\ exit' = IF quiet /\ closed /\ dispatched THEN "zero" ELSE "one"
    /\ UNCHANGED <<requestVars, locked, quiet>>

\* the hard deadline
ForcedExit ==
    /\ phase \notin {"serving", "exited"}
    /\ phase' = "exited" /\ exit' = "one"
    /\ UNCHANGED <<requestVars, locked, quiet, store>>

-----------------------------------------------------------------------------
Client(r)  == Accepted(r) \/ Refused(r) \/ Forwards(r) \/ ClientEnds(r) \/ Dies(r)
Handler(r) == \/ AskArrives(r) \/ StructuredArrives(r) \/ MessageArrives(r) \/ ManagedAskArrives(r)
              \/ Denied(r) \/ AskStarts(r) \/ StructuredStarts(r) \/ SendsMessage(r) \/ MessageEnds(r)
              \/ ReadsStatus(r) \/ OutputLimited(r) \/ TimesOut(r) \/ ForceKills(r)
              \/ SpawnFails(r) \/ AskCloses(r) \/ StructuredCloses(r)
Control    == \/ \E c \in Calls : CancelsCall(c)
              \/ \E r \in Requests : CancelsTask(r)
              \/ Panics \/ Unlocks
              \/ Shutdown \/ Drains \/ DrainsByForce \/ DrainEnds \/ Exits \/ ForcedExit

RequestNext == (\E r \in Requests : Client(r) \/ Handler(r)) \/ Control

\* Timers fire, a killed process dies, what a child sent is read, a delivery
\* returns, and shutdown goes on; no provider owes an end.
Hears(r) == ReadsStatus(r) \/ ForceKills(r) \/ SpawnFails(r) \/ AskCloses(r) \/ StructuredCloses(r)
            \/ MessageEnds(r)
Closing == Drains \/ DrainsByForce \/ DrainEnds \/ Exits

RequestFairness ==
    /\ \A r \in Requests : WF_agentVars(Dies(r)) /\ WF_agentVars(Hears(r))
    /\ WF_agentVars(Closing)

RequestSpec == RequestInit /\ [][RequestNext]_agentVars /\ RequestFairness

-----------------------------------------------------------------------------
RequestTypeOK ==
    /\ at \in [Requests -> {"idle", "authorizing", "claimed", "running", "answered"}]
    /\ answer \in [Requests -> {"none", "refused", "shutdown", "locked", "busy", "unknown", "failed", "success"}]
    /\ run \in [Requests -> RunRecords]
    /\ sent \subseteq Spawning /\ cut \subseteq Requests /\ aborted \subseteq Durable
    /\ tries \in [Requests -> 0 .. MaxTries]
    /\ locked \in BOOLEAN /\ quiet \in BOOLEAN
    /\ phase \in {"serving", "dispatching", "graceful", "forced", "closing", "exited"}
    /\ store \in {"open", "closed"} /\ exit \in {"none", "zero", "one"}

\* A managed ask approved to change something is only answered with a refusal,
\* a failure or a retry when its prompt never reached a provider: whatever may
\* have happened is answered as unknown (handleAskRequest, runAgentOnce).
TruthfulAnswers ==
    \A r \in Mutating : answer[r] \notin {"none", "unknown", "success"} => r \notin sent

\* While phone execution is locked, every client of a phone request has been
\* killed or is about to be, by force or by the timer of an earlier
\* interruption (cancelAllVoiceRequests, transitionActiveRequest).
PanicReachesAll ==
    locked => \A r \in Phone : Alive(r) => run[r].killed \/ run[r].timer \/ ~Up

\* The store is closed, and the controller exits with 0, only when no client
\* is left, registered or not; and but for the hard deadline no client survives
\* the controller unkilled (drainAllActiveRequests, shutdown).
ClosedIsQuiet ==
    /\ store = "closed" \/ exit = "zero" => \A r \in Requests : ~Alive(r) /\ run[r].rec = "none"
    /\ phase \in {"forced", "closing"} => \A r \in Requests : Alive(r) => run[r].killed

\* Where the handler is, the record and the child of a request agree; only a
\* handler that has not begun to run an agent may find that nothing was sent.
RunFits(r) ==
    /\ at[r] # "running" => run[r] = NoRun
    /\ at[r] = "running" => run[r].rec # "none"
    /\ at[r] # "answered" => answer[r] = "none"
    /\ at[r] \in {"idle", "authorizing", "claimed"} => r \notin sent \cup cut /\ tries[r] = 0
    /\ run[r].child # "none" => r \in Spawning
    /\ run[r].child \in {"failed", "connecting"} => run[r].status = "none" /\ run[r].launch = "none"
    /\ run[r].child = "reporting" => {run[r].status, run[r].launch} \subseteq {"none", "accepted"}
    /\ r \in sent \ Structured /\ at[r] = "running" =>
          /\ run[r].child \in {"forwarding", "zero", "nonzero"}
          /\ {run[r].status, run[r].launch} \subseteq {"none", "accepted"}

\* An interrupted record is never running again, and its client is told to die.
CutFits(r) ==
    /\ r \in cut => run[r].rec # "running"
    /\ run[r].rec = "interrupted" /\ Alive(r) => run[r].killed \/ run[r].timer \/ ~Up

\* No phone request's record is running behind the lock, but for a message.
LockFits == locked => \A r \in Phone \cap Spawning : run[r].rec # "running"

\* The graceful drain leaves no record running; quiet is what was seen, for good.
ShutdownFits ==
    /\ phase \in {"graceful", "forced", "closing"} => \A r \in Requests : run[r].rec # "running"
    /\ quiet => phase \in {"closing", "exited"} /\ Active = {}
    /\ store = "closed" \/ exit = "zero" => quiet

\* Every step keeps the handlers, their records and children, the interruptions
\* and the shutdown in agreement: what the safety properties rest on.
RequestInv == /\ RequestTypeOK /\ TruthfulAnswers /\ PanicReachesAll /\ ClosedIsQuiet
              /\ (\A r \in Requests : RunFits(r) /\ CutFits(r)) /\ LockFits /\ ShutdownFits

\* An interruption is final: no step starts another client for that request,
\* and it is not answered with the result of the one it had; and none is
\* started once shutdown began or the phone is locked (runAgentOnce, its
\* callers, registerActiveRequest).
InterruptedIsFinal ==
    [][\A r \in Spawning :
          /\ r \in cut => tries'[r] = tries[r] /\ (answer'[r] = "success" => answer[r] = "success")
          /\ tries'[r] # tries[r] => Serving /\ ~(r \in Phone /\ locked)]_agentVars

\* An interrupted request is answered, or the controller exits; and a shutdown
\* that began ends (forceKillTimer, drainAllActiveRequests, shutdown).
RequestsSettle ==
    /\ \A r \in Requests : r \in cut ~> at[r] = "answered" \/ ~Up
    /\ ~Serving ~> ~Up
=============================================================================
