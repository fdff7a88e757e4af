----------------------------- MODULE VoiceProofs -----------------------------
(***************************************************************************)
(* Proofs about the jobs of the voice application, for any set of jobs:      *)
(* VInv is inductive, and a verdict is not rewritten.                       *)
(***************************************************************************)
EXTENDS VoiceProperties, TLAPS

\* The helpers of the steps, in their types.
LEMMA HelpersTyped ==
    ASSUME VoiceTypeOK, NEW j \in Jobs
    PROVE  /\ Scheduled(j) \in [Jobs -> Points]
           /\ Deferred(j) \in {"none", "queued"} \cup Open \cup Terminal
           /\ Canceling(j) \in {"none", "queued"} \cup Open \cup Terminal
           /\ VerdictOf(j) \in {"absent", "live"} \cup Ended \cup Terminal
           /\ task[j] \in Ended => VerdictOf(j) \in Terminal
    BY DEF VoiceTypeOK, Points, Scheduled, Deferred, Canceling, VerdictOf, Open, Unsettled, Terminal, Ended

LEMMA DeferTyped ==
    ASSUME VoiceTypeOK, NEW j \in Jobs, Defer(j)
    PROVE  /\ status' \in [Jobs -> {"none", "queued"} \cup Open \cup Terminal]
           /\ timer' \in [Jobs -> BOOLEAN]
<1>1. (timer[j] \/ Deferred(j) \in Unsettled) \in BOOLEAN
    BY Zenon
<1> QED
    BY <1>1, HelpersTyped DEF Defer, VoiceTypeOK

LEMMA ClosesTyped ==
    ASSUME VoiceTypeOK, NEW j \in Jobs, NEW to \in Terminal, Closes(j, to)
    PROVE  /\ status' \in [Jobs -> {"none", "queued"} \cup Open \cup Terminal]
           /\ at' \in [Jobs -> Points]
           /\ saw' \in [Jobs -> Unsettled \cup {"none"}]
           /\ final' \in [Jobs -> BOOLEAN]
           /\ UNCHANGED timer
    BY DEF Closes, Over, Finish, VoiceTypeOK, Points, Open, Unsettled, Terminal

LEMMA DefersTyped ==
    ASSUME VoiceTypeOK, NEW j \in Jobs, Defers(j)
    PROVE  /\ status' \in [Jobs -> {"none", "queued"} \cup Open \cup Terminal]
           /\ at' \in [Jobs -> Points]
           /\ saw' \in [Jobs -> Unsettled \cup {"none"}]
           /\ final' \in [Jobs -> BOOLEAN]
           /\ timer' \in [Jobs -> BOOLEAN]
<1>1. Defer(j)
    BY DEF Defers
<1> QED
    BY <1>1, DeferTyped DEF Defers, Over, VoiceTypeOK, Points

LEMMA PostsTyped ==
    ASSUME VoiceTypeOK, NEW j \in Jobs, NEW to \in Open, Posts(j, to)
    PROVE  /\ status' \in [Jobs -> {"none", "queued"} \cup Open \cup Terminal]
           /\ at' \in [Jobs -> Points]
           /\ saw' \in [Jobs -> Unsettled \cup {"none"}]
           /\ post' \in [Jobs -> {"none", "sent", "accepted", "refused"}]
           /\ sent' \in [Jobs -> 0..2]
           /\ UNCHANGED <<final, timer>>
    BY DEF Posts, VoiceTypeOK, Points, Open, Unsettled

-----------------------------------------------------------------------------
\* Every step keeps the types.
LEMMA TypesStep == VoiceTypeOK /\ [VoiceNext]_vars => VoiceTypeOK'
<1> SUFFICES ASSUME VoiceTypeOK, [VoiceNext]_vars PROVE VoiceTypeOK'
    OBVIOUS
<1> DEFINE Rows == {"none", "queued"} \cup Open \cup Terminal
<1> USE DEF VoiceTypeOK, rowVars, execVars, lockVars, panicVars, xVars, wireVars
<1>1. ASSUME NEW j \in Jobs, Create(j) PROVE VoiceTypeOK'
  <2>1. status' \in [Jobs -> Rows]
    BY <1>1 DEF Create, Open, Unsettled, Terminal
  <2>2. at' \in [Jobs -> Points] /\ targets' \subseteq Jobs
    BY <1>1, HelpersTyped DEF Create
  <2> QED
    BY <1>1, <2>1, <2>2 DEF Create, RequestOnly
<1>2. ASSUME NEW j \in Jobs, Cancel(j) PROVE VoiceTypeOK'
  <2>1. status' \in [Jobs -> Rows]
    BY <1>2, HelpersTyped DEF Cancel
  <2>2. call' \in [Jobs -> BOOLEAN]
    BY <1>2 DEF Cancel
  <2>3. asks' \in [Jobs -> SUBSET Callers]
    BY <1>2 DEF Cancel, Callers
  <2> QED
    BY <1>2, <2>1, <2>2, <2>3 DEF Cancel, RequestOnly
<1>3. ASSUME NEW j \in Jobs, CancelReturns(j) PROVE VoiceTypeOK'
    BY <1>3, DeferTyped DEF CancelReturns, RequestOnly
<1>4. ASSUME NEW j \in Jobs, TimerFires(j) PROVE VoiceTypeOK'
  <2>1. timer' \in [Jobs -> BOOLEAN]
    BY <1>4 DEF TimerFires
  <2> QED
    BY <1>4, <2>1, HelpersTyped DEF TimerFires, ExecOnly, NoPost
<1>5. ASSUME NEW j \in Jobs, Execute(j) PROVE VoiceTypeOK'
  <2>1. CASE status[j] \in Unsettled
    BY <1>5, <2>1 DEF Execute, ExecOnly, NoPost, Goes, Unsettled, Points
  <2>2. CASE status[j] = "queued" /\ ~lock /\ j \in targets
    BY <1>5, <2>2, PostsTyped DEF Execute, ExecOnly, Open, Unsettled
  <2>3. CASE status[j] = "queued" /\ ~lock /\ j \notin targets
    BY <1>5, <2>3 DEF Execute, ExecOnly, NoPost, Open, Unsettled, Points
  <2>4. CASE Moves(j, "none") /\ NoPost
    BY <1>5, <2>4 DEF Execute, ExecOnly, NoPost, Goes, Moves, Points
  <2> QED
    BY <1>5, <2>1, <2>2, <2>3, <2>4 DEF Execute, Unsettled
<1>6. ASSUME NEW j \in Jobs, Probe(j) PROVE VoiceTypeOK'
  <2>1. CASE Moves(j, "waiting") /\ NoPost
    BY <1>6, <2>1 DEF Probe, ExecOnly, NoPost, Goes, Moves, Points
  <2>2. CASE Posts(j, status[j])
    BY <1>6, <2>2 DEF Probe, Posts, ExecOnly, Points
  <2> QED
    BY <1>6, <2>1, <2>2 DEF Probe
<1>7. ASSUME NEW j \in Jobs, PostAnswered(j) PROVE VoiceTypeOK'
  <2>1. CASE Moves(j, "waiting")
    BY <1>7, <2>1 DEF PostAnswered, ExecOnly, Goes, Moves, Points
  <2>2. ASSUME NEW to \in Terminal, Closes(j, to) PROVE VoiceTypeOK'
    BY <1>7, <2>2, ClosesTyped DEF PostAnswered, ExecOnly
  <2> QED
    BY <1>7, <2>1, <2>2 DEF PostAnswered, Terminal
<1>8. ASSUME NEW j \in Jobs, PostUnanswered(j) \/ Retrieve(j) PROVE VoiceTypeOK'
    BY <1>8 DEF PostUnanswered, Retrieve, ExecOnly, NoPost, Goes, Moves, Points
<1>9. ASSUME NEW j \in Jobs, RetrieveFails(j) \/ RetrieveFailsPlainly(j) \/ LookupFails(j) \/ StopUnconfirmed(j) PROVE VoiceTypeOK'
  <2>1. CASE Defers(j)
    BY <1>9, <2>1, DefersTyped DEF RetrieveFails, RetrieveFailsPlainly, LookupFails, StopUnconfirmed, ExecOnly, NoPost
  <2>2. ASSUME NEW to \in Terminal, Closes(j, to) PROVE VoiceTypeOK'
    BY <1>9, <2>2, ClosesTyped DEF RetrieveFails, RetrieveFailsPlainly, LookupFails, StopUnconfirmed, ExecOnly, NoPost
  <2> QED
    BY <1>9, <2>1, <2>2 DEF RetrieveFails, RetrieveFailsPlainly, LookupFails, StopUnconfirmed, Terminal
<1>10. ASSUME NEW j \in Jobs, WaitEnds(j) \/ Watch(j) PROVE VoiceTypeOK'
  <2>1. CASE Defers(j)
    BY <1>10, <2>1, DefersTyped DEF WaitEnds, Watch, ExecOnly, NoPost
  <2>2. CASE task[j] \in Ended /\ Closes(j, VerdictOf(j))
    BY <1>10, <2>2, HelpersTyped, ClosesTyped DEF WaitEnds, Watch, ExecOnly, NoPost
  <2> QED
    BY <1>10, <2>1, <2>2 DEF WaitEnds, Watch
<1>11. ASSUME NEW j \in Jobs, LookupAbsent(j) PROVE VoiceTypeOK'
  <2>1. ASSUME NEW to \in Terminal, Closes(j, to), NoPost PROVE VoiceTypeOK'
    BY <1>11, <2>1, ClosesTyped DEF LookupAbsent, ExecOnly, NoPost
  <2>2. CASE Posts(j, IF status[j] = "reconciling" THEN "running" ELSE status[j])
    BY <1>11, <2>2 DEF LookupAbsent, Posts, ExecOnly, Points, Open
  <2> QED
    BY <1>11, <2>1, <2>2 DEF LookupAbsent, Absent, Terminal
<1>12. ASSUME NEW j \in Jobs, LookupFinds(j) PROVE VoiceTypeOK'
  <2>1. final' \in [Jobs -> BOOLEAN]
    BY <1>12 DEF LookupFinds
  <2>2. at' \in [Jobs -> Points] /\ asks' \in [Jobs -> SUBSET Callers]
    BY <1>12 DEF LookupFinds, Goes, Points, Callers
  <2>3. UNCHANGED <<status, timer, targets, saw, stop, call, lockVars, panicVars, phase, xVars, post, sent>>
    BY <1>12 DEF LookupFinds, Goes, NoPost
  <2> QED
    BY <2>1, <2>2, <2>3
<1>13. ASSUME NEW j \in Jobs, StopConfirmed(j) PROVE VoiceTypeOK'
    BY <1>13 DEF StopConfirmed, ExecOnly, NoPost, Goes, Moves, Points
<1>14. ASSUME NEW j \in Jobs, PostArrives(j) PROVE VoiceTypeOK'
  <2>1. task' \in [Jobs -> {"absent", "live"} \cup Ended]
    BY <1>14 DEF PostArrives, Ended
  <2>2. post' \in [Jobs -> {"none", "sent", "accepted", "refused"}]
    BY <1>14 DEF PostArrives
  <2> QED
    BY <1>14, <2>1, <2>2 DEF PostArrives, ControllerOnly
<1>15. ASSUME NEW j \in Jobs, PostDies(j) PROVE VoiceTypeOK'
    BY <1>15 DEF PostDies, ControllerOnly
<1>16. ASSUME NEW j \in Jobs, TaskEnds(j) PROVE VoiceTypeOK'
    BY <1>16 DEF TaskEnds, ControllerOnly
<1>17. ASSUME NEW j \in Jobs, NEW who \in Callers, AskArrives(j, who) \/ AskDies(j, who) PROVE VoiceTypeOK'
  <2>1. (stopped[j] \/ task[j] = "live") \in BOOLEAN
    BY Zenon
  <2>2. stopped' \in [Jobs -> BOOLEAN]
    BY <1>17, <2>1 DEF AskArrives, AskDies
  <2>3. asks' \in [Jobs -> SUBSET Callers] /\ tombs' \subseteq Jobs
    BY <1>17 DEF AskArrives, AskDies
  <2> QED
    BY <1>17, <2>2, <2>3 DEF AskArrives, AskDies, ControllerOnly
<1>18. CASE Panic
  <2>1. status' \in [Jobs -> Rows]
    BY <1>18, HelpersTyped DEF Panic
  <2> QED
    BY <1>18, <2>1 DEF Panic
<1>19. CASE RetryPanic
    BY <1>19 DEF RetryPanic
<1>20. ASSUME NEW success \in BOOLEAN, PanicReturns(success) PROVE VoiceTypeOK'
  <2>1. pending' \in BOOLEAN /\ retry' \in BOOLEAN
    BY <1>20, Zenon DEF PanicReturns
  <2>2. timer' \in [Jobs -> BOOLEAN]
    BY <1>20 DEF PanicReturns
  <2> QED
    BY <1>20, <2>1, <2>2 DEF PanicReturns
<1>21. CASE Unlock
    BY <1>21 DEF Unlock, Recover, Points
<1>22. CASE Close
    BY <1>22 DEF Close, Points
<1>23. CASE Crash \/ PanicAndDie
  <2>1. Dies /\ lock' \in BOOLEAN /\ pending' \in BOOLEAN
    BY <1>23 DEF Crash, PanicAndDie
  <2>2. post' \in [Jobs -> {"none", "sent", "accepted", "refused"}]
    BY <2>1 DEF Dies
  <2>3. final' \in [Jobs -> BOOLEAN] /\ timer' \in [Jobs -> BOOLEAN] /\ call' \in [Jobs -> BOOLEAN]
    BY <2>1 DEF Dies
  <2> QED
    BY <2>1, <2>2, <2>3 DEF Dies, Points
<1>24. CASE Start
  <2>1. retry' \in BOOLEAN
    BY <1>24, Zenon DEF Start
  <2>2. at' \in [Jobs -> Points] /\ timer' \in [Jobs -> BOOLEAN]
    BY <1>24 DEF Start, Recover, Points
  <2>3. status' \in [Jobs -> Rows]
    BY <1>24 DEF Start, Open, Unsettled
  <2> QED
    BY <1>24, <2>1, <2>2, <2>3 DEF Start
<1>25. CASE StopArrives
  <2>1. stopped' \in [Jobs -> BOOLEAN]
    BY <1>25 DEF StopArrives
  <2> QED
    BY <1>25, <2>1 DEF StopArrives, ControllerOnly
<1>26. CASE StopDies \/ ExecutorUnlocks
    BY <1>26 DEF StopDies, ExecutorUnlocks, ControllerOnly
<1>27. CASE UNCHANGED vars
    BY <1>27 DEF vars
<1> HIDE DEF VoiceTypeOK
<1> QED
    BY <1>1, <1>2, <1>3, <1>4, <1>5, <1>6, <1>7, <1>8, <1>9, <1>10, <1>11, <1>12, <1>13, <1>14, <1>15, <1>16, <1>17, <1>18, <1>19, <1>20, <1>21, <1>22, <1>23, <1>24, <1>25, <1>26, <1>27
    DEF VoiceNext, ExecSteps, ControllerSteps
-----------------------------------------------------------------------------
\* What VInv says of one job.
Sound(k) ==
    /\ status[k] \in {"none", "queued"} =>
          /\ sent[k] = 0 /\ task[k] = "absent" /\ post[k] # "sent"
          /\ at[k] \in {"none", "scheduled"}
    /\ k \in targets => at[k] # "probing" /\ sent[k] <= 1
    /\ status[k] = "completed" => task[k] = "completed"
    /\ status[k] = "canceled" =>
          /\ task[k] \in {"absent", "canceled"}
          /\ task[k] = "absent" => post[k] # "sent" /\ at[k] \in {"none", "scheduled"}

\* VInv says it of every job.
LEMMA SoundJobs == VInv => \A k \in Jobs : Sound(k)
    BY DEF VoiceTypeOK, VInv, Sound, Untouched, ProbesAreManaged, TargetSentOnce, TruthfulVerdict, CompletedIsTrue, CanceledIsTrue

\* A job a step does not touch stays sound.
LEMMA SoundKept ==
    ASSUME NEW k \in Jobs, Sound(k),
           status'[k] = status[k], at'[k] = at[k], task'[k] = task[k], post'[k] = post[k],
           sent'[k] = sent[k], k \in targets' <=> k \in targets
    PROVE  Sound(k)'
    BY DEF Sound

\* A step of an execution that only moves its point.
LEMMA SoundMoves ==
    ASSUME VoiceTypeOK, NEW j \in Jobs, NEW k \in Jobs, Sound(j), Sound(k),
           NEW to \in Points \ {"probing"}, Goes(j, to), UNCHANGED <<targets, task, sent>>,
           to = "none" \/ (status[j] \notin {"none", "queued", "canceled"}) \/ task[j] # "absent",
           \A i \in Jobs : post'[i] = "sent" => post[i] = "sent"
    PROVE  Sound(k)'
    BY DEF VoiceTypeOK, Sound, Goes, Points

\* One that ends with a row finished as the executor has it.
LEMMA SoundCloses ==
    ASSUME VoiceTypeOK, NEW j \in Jobs, NEW k \in Jobs, Sound(j), Sound(k),
           NEW to \in Terminal, Closes(j, to), UNCHANGED <<targets, task, sent>>,
           at[j] \notin {"none", "scheduled"},
           to = "completed" => task[j] = "completed",
           to = "canceled" => task[j] = "canceled" \/ (task[j] = "absent" /\ post[j] # "sent"),
           \A i \in Jobs : post'[i] = "sent" => post[i] = "sent"
    PROVE  Sound(k)'
    BY DEF VoiceTypeOK, Sound, Closes, Over, Finish, Terminal

\* One that leaves the row for another reconciliation.
LEMMA SoundDefers ==
    ASSUME VoiceTypeOK, NEW j \in Jobs, NEW k \in Jobs, Sound(j), Sound(k),
           Defers(j), UNCHANGED <<targets, task, sent, post>>,
           at[j] \notin {"none", "scheduled"}
    PROVE  Sound(k)'
    BY DEF VoiceTypeOK, Sound, Defers, Defer, Deferred, Over

\* One that submits the task of a job that is started: a target only for the
\* first time.
LEMMA SoundPosts ==
    ASSUME VoiceTypeOK, NEW j \in Jobs, NEW k \in Jobs, Sound(j), Sound(k),
           NEW to \in Open \cup Terminal, Posts(j, to), UNCHANGED <<targets, task>>,
           j \in targets => sent[j] = 0,
           to \in {"completed", "canceled"} => status[j] = to /\ task[j] = to
    PROVE  Sound(k)'
    BY DEF VoiceTypeOK, Sound, Posts, Open, Unsettled, Terminal

-----------------------------------------------------------------------------
\* Every step keeps every job sound.
LEMMA SoundStep ==
    ASSUME VoiceTypeOK, \A k \in Jobs : Sound(k), [VoiceNext]_vars, NEW k \in Jobs
    PROVE  Sound(k)'
<1> USE DEF rowVars, execVars, lockVars, panicVars, xVars, wireVars
<1>1. ASSUME NEW j \in Jobs, Create(j) PROVE Sound(k)'
    BY <1>1 DEF Create, RequestOnly, Scheduled, VoiceTypeOK, Sound
<1>2. ASSUME NEW j \in Jobs, Cancel(j) PROVE Sound(k)'
    BY <1>2 DEF Cancel, RequestOnly, Canceling, VoiceTypeOK, Sound, Open, Unsettled
<1>3. ASSUME NEW j \in Jobs, CancelReturns(j) PROVE Sound(k)'
    BY <1>3 DEF CancelReturns, Defer, Deferred, RequestOnly, VoiceTypeOK, Sound
<1>4. ASSUME NEW j \in Jobs, TimerFires(j) PROVE Sound(k)'
    BY <1>4 DEF TimerFires, ExecOnly, NoPost, Scheduled, VoiceTypeOK, Sound
<1>5. ASSUME NEW j \in Jobs, Execute(j) PROVE Sound(k)'
  <2>1. CASE status[j] \in Unsettled /\ Goes(j, "looking") /\ NoPost
    BY <1>5, <2>1, SoundMoves DEF Execute, ExecOnly, NoPost, Unsettled, Points
  <2>2. CASE j \in targets /\ status[j] = "queued" /\ Posts(j, "running")
    BY <1>5, <2>2, SoundPosts DEF Execute, ExecOnly, Open, Sound
  <2>3. CASE status[j] = "queued" /\ ~lock /\ j \notin targets
    BY <1>5, <2>3 DEF Execute, ExecOnly, NoPost, VoiceTypeOK, Sound, Unsettled
  <2>4. CASE Moves(j, "none") /\ NoPost
    BY <1>5, <2>4, SoundMoves DEF Execute, ExecOnly, NoPost, Moves, Points
  <2> QED
    BY <1>5, <2>1, <2>2, <2>3, <2>4 DEF Execute, Unsettled
<1>6. ASSUME NEW j \in Jobs, Probe(j) PROVE Sound(k)'
  <2>1. CASE task[j] # "absent" /\ Moves(j, "waiting") /\ NoPost
    BY <1>6, <2>1, SoundMoves DEF Probe, ExecOnly, NoPost, Moves, Points
  <2>2. CASE Posts(j, status[j])
    <3>1. j \notin targets /\ status[j] \in Open \cup Terminal
      BY <1>6 DEF Probe, Sound, VoiceTypeOK
    <3>2. status[j] \in {"completed", "canceled"} => task[j] = status[j]
      BY <1>6 DEF Probe, Sound
    <3> QED
      BY <1>6, <2>2, <3>1, <3>2, SoundPosts DEF Probe, ExecOnly
  <2> QED
    BY <1>6, <2>1, <2>2 DEF Probe
<1>7. ASSUME NEW j \in Jobs, PostAnswered(j) PROVE Sound(k)'
  <2>1. \A i \in Jobs : post'[i] = "sent" => post[i] = "sent"
    BY <1>7 DEF PostAnswered, VoiceTypeOK
  <2>2. CASE Moves(j, "waiting")
    BY <1>7, <2>1, <2>2 DEF PostAnswered, ExecOnly, Moves, Goes, Sound, VoiceTypeOK
  <2>3. ASSUME NEW to \in {"failed", "outcome_unknown"}, Closes(j, to) PROVE Sound(k)'
    BY <1>7, <2>1, <2>3, SoundCloses DEF PostAnswered, ExecOnly, Terminal
  <2> QED
    BY <1>7, <2>2, <2>3 DEF PostAnswered
<1>8. ASSUME NEW j \in Jobs, PostUnanswered(j) \/ Retrieve(j) PROVE Sound(k)'
    BY <1>8 DEF PostUnanswered, Retrieve, ExecOnly, NoPost, Moves, Goes, Sound, VoiceTypeOK
<1>9. ASSUME NEW j \in Jobs, RetrieveFails(j) \/ RetrieveFailsPlainly(j) \/ LookupFails(j) \/ StopUnconfirmed(j) PROVE Sound(k)'
  <2>1. UNCHANGED <<targets, task, sent, post>> /\ at[j] \notin {"none", "scheduled"}
    BY <1>9 DEF RetrieveFails, RetrieveFailsPlainly, LookupFails, StopUnconfirmed, ExecOnly, NoPost
  <2>2. CASE Defers(j)
    BY <2>1, <2>2, SoundDefers
  <2>3. ASSUME NEW to \in {"failed", "outcome_unknown"}, Closes(j, to) PROVE Sound(k)'
    BY <2>1, <2>3, SoundCloses DEF Terminal
  <2> QED
    BY <1>9, <2>2, <2>3 DEF RetrieveFails, RetrieveFailsPlainly, LookupFails, StopUnconfirmed
<1>10. ASSUME NEW j \in Jobs, WaitEnds(j) \/ Watch(j) PROVE Sound(k)'
  <2>1. UNCHANGED <<targets, task, sent, post>> /\ at[j] \notin {"none", "scheduled"}
    BY <1>10 DEF WaitEnds, Watch, ExecOnly, NoPost
  <2>2. CASE Defers(j)
    BY <2>1, <2>2, SoundDefers
  <2>3. CASE task[j] \in Ended /\ Closes(j, VerdictOf(j))
    BY <2>1, <2>3, SoundCloses, HelpersTyped DEF VerdictOf
  <2> QED
    BY <1>10, <2>2, <2>3 DEF WaitEnds, Watch
<1>11. ASSUME NEW j \in Jobs, LookupAbsent(j) PROVE Sound(k)'
  <2>1. at[j] = "looking" /\ task[j] = "absent" /\ UNCHANGED <<targets, task>>
    BY <1>11 DEF LookupAbsent, ExecOnly
  <2>2. CASE j \in targets /\ Closes(j, "outcome_unknown") /\ NoPost
    BY <2>1, <2>2, SoundCloses DEF NoPost, Terminal
  <2>3. CASE j \notin targets /\ Closes(j, "canceled") /\ NoPost
    BY <1>11, <2>1, <2>3, SoundCloses DEF LookupAbsent, Answerable, NoPost, Terminal
  <2>4. CASE j \notin targets /\ Posts(j, IF status[j] = "reconciling" THEN "running" ELSE status[j])
    <3>1. status[j] \in (Open \cup Terminal) \ {"completed", "canceled"}
      BY <2>1 DEF Sound, VoiceTypeOK
    <3> QED
      BY <2>1, <2>4, <3>1, SoundPosts DEF Open
  <2> QED
    BY <1>11, <2>2, <2>3, <2>4 DEF LookupAbsent, Absent
<1>12. ASSUME NEW j \in Jobs, LookupFinds(j) \/ StopConfirmed(j) PROVE Sound(k)'
    BY <1>12 DEF LookupFinds, StopConfirmed, ExecOnly, NoPost, Moves, Goes, Sound, VoiceTypeOK
<1>14. ASSUME NEW j \in Jobs, PostArrives(j) PROVE Sound(k)'
  <2>1. UNCHANGED <<status, targets, at, sent>> /\ post[j] = "sent"
    BY <1>14 DEF PostArrives, ControllerOnly
  <2>2. CASE k = j
    <3>1. task[j] # "absent" => task'[j] = task[j]
      BY <1>14 DEF PostArrives
    <3>2. post'[j] # "sent" /\ task'[j] \in {task[j], "canceled", "live"}
      BY <1>14 DEF PostArrives, VoiceTypeOK
    <3> QED
      BY <2>1, <2>2, <3>1, <3>2 DEF Sound
  <2>3. CASE k # j
    <3>1. task'[k] = task[k] /\ post'[k] = post[k]
      BY <1>14, <2>3 DEF PostArrives, VoiceTypeOK
    <3> QED
      BY <2>1, <3>1, SoundKept
  <2> QED
    BY <2>2, <2>3
<1>15. ASSUME NEW j \in Jobs, PostDies(j) PROVE Sound(k)'
    BY <1>15 DEF PostDies, ControllerOnly, Sound, VoiceTypeOK
<1>16. ASSUME NEW j \in Jobs, TaskEnds(j) PROVE Sound(k)'
    BY <1>16 DEF TaskEnds, ControllerOnly, Sound, VoiceTypeOK
<1>17. ASSUME NEW j \in Jobs, NEW who \in Callers, AskArrives(j, who) \/ AskDies(j, who) PROVE Sound(k)'
    BY <1>17 DEF AskArrives, AskDies, ControllerOnly, Sound
<1>18. CASE Panic
    BY <1>18 DEF Panic, Canceling, Sound, VoiceTypeOK
<1>19. CASE RetryPanic
    BY <1>19 DEF RetryPanic, Sound
<1>20. ASSUME NEW success \in BOOLEAN, PanicReturns(success) PROVE Sound(k)'
    BY <1>20 DEF PanicReturns, Sound
<1>21. CASE Unlock
    BY <1>21 DEF Unlock, Recover, Sound
<1>22. CASE Close
    BY <1>22 DEF Close, Sound
<1>23. CASE Crash \/ PanicAndDie
    BY <1>23 DEF Crash, PanicAndDie, Dies, Sound
<1>24. CASE Start
    BY <1>24 DEF Start, Recover, Sound
<1>25. CASE StopArrives \/ StopDies \/ ExecutorUnlocks
    BY <1>25 DEF StopArrives, StopDies, ExecutorUnlocks, ControllerOnly, Sound
<1>26. CASE UNCHANGED vars
    BY <1>26 DEF vars, Sound
<1> QED
    BY <1>1, <1>2, <1>3, <1>4, <1>5, <1>6, <1>7, <1>8, <1>9, <1>10, <1>11, <1>12, <1>14, <1>15, <1>16, <1>17, <1>18, <1>19, <1>20, <1>21, <1>22, <1>23, <1>24, <1>25, <1>26
    DEF VoiceNext, ExecSteps, ControllerSteps

\* VInv is inductive.
LEMMA VInvInit == VoiceInit => VInv
<1> SUFFICES ASSUME VoiceInit PROVE VInv
    OBVIOUS
<1>1. VoiceTypeOK
  <2>1. /\ final \in [Jobs -> BOOLEAN] /\ timer \in [Jobs -> BOOLEAN]
        /\ call \in [Jobs -> BOOLEAN] /\ stopped \in [Jobs -> BOOLEAN]
    BY DEF VoiceInit
  <2>2. /\ lock \in BOOLEAN /\ pending \in BOOLEAN /\ retry \in BOOLEAN
        /\ xlock \in BOOLEAN /\ stop \in BOOLEAN
    BY Zenon DEF VoiceInit
  <2>3. asks \in [Jobs -> SUBSET Callers] /\ sent \in [Jobs -> 0..2]
    BY DEF VoiceInit
  <2> QED
    BY <2>1, <2>2, <2>3 DEF VoiceInit, VoiceTypeOK, Points
<1>2. Untouched /\ ProbesAreManaged /\ TargetSentOnce /\ TruthfulVerdict
    BY DEF VoiceInit, Untouched, ProbesAreManaged, TargetSentOnce, TruthfulVerdict, CompletedIsTrue, CanceledIsTrue
<1> QED
    BY <1>1, <1>2 DEF VInv

\* Every step keeps it.
LEMMA VInvStep == VInv /\ [VoiceNext]_vars => VInv'
<1> SUFFICES ASSUME VInv, [VoiceNext]_vars PROVE VInv'
    OBVIOUS
<1>1. VoiceTypeOK /\ VoiceTypeOK'
    BY TypesStep DEF VInv
<1>2. \A k \in Jobs : Sound(k)
    BY SoundJobs
<1>3. \A k \in Jobs : Sound(k)'
    BY <1>1, <1>2, SoundStep
<1>4. targets' \subseteq Jobs
    BY <1>1 DEF VoiceTypeOK
<1>5. (Untouched /\ ProbesAreManaged /\ TargetSentOnce /\ TruthfulVerdict)'
    BY <1>3, <1>4 DEF Sound, Untouched, ProbesAreManaged, TargetSentOnce,
        TruthfulVerdict, CompletedIsTrue, CanceledIsTrue
<1> QED
    BY <1>1, <1>5 DEF VInv

-----------------------------------------------------------------------------
\* The types, and with them everything a verdict rests on, hold in every state.
THEOREM VoiceInvariant == VoiceSpec => []VInv
<1> QED
    BY VInvInit, VInvStep, PTL DEF VoiceSpec

\* No restart, timeout or reconciliation sends a target's message a second time.
THEOREM TargetsSentOnce == VoiceSpec => []TargetSentOnce
<1>1. VInv => TargetSentOnce
    BY DEF VInv
<1> QED
    BY <1>1, VoiceInvariant, PTL

\* What the caller is told was done was done, and what was canceled was not and
\* will not be.
THEOREM VerdictsAreTrue == VoiceSpec => []TruthfulVerdict
<1>1. VInv => TruthfulVerdict
    BY DEF VInv
<1> QED
    BY <1>1, VoiceInvariant, PTL

\* A verdict is not rewritten, by a late answer, a cancellation, a panic or a
\* restart.
THEOREM VoiceVerdictsStay == VoiceSpec => VerdictStays
<1>1. ASSUME VoiceTypeOK, [VoiceNext]_vars
      PROVE  \A j \in Jobs : status[j] \in Terminal => status'[j] = status[j]
  <2> SUFFICES ASSUME NEW k \in Jobs, status[k] \in Terminal PROVE status'[k] = status[k]
    OBVIOUS
  <2>1. ASSUME NEW j \in Jobs, NEW to \in Terminal, Closes(j, to) PROVE status'[k] = status[k]
    BY <1>1, <2>1 DEF Closes, Finish, VoiceTypeOK, Open, Unsettled, Terminal
  <2>2. ASSUME NEW j \in Jobs, Defer(j) PROVE status'[k] = status[k]
    BY <1>1, <2>2 DEF Defer, Deferred, VoiceTypeOK, Terminal
  <2>3. ASSUME NEW j \in Jobs, NEW to, Posts(j, to), status[j] \in Terminal => to = status[j] PROVE status'[k] = status[k]
    BY <1>1, <2>3 DEF Posts, VoiceTypeOK
  <2>4. ASSUME NEW j \in Jobs, NEW to, Goes(j, to) PROVE status'[k] = status[k]
    BY <2>4 DEF Goes
  <2>5. ASSUME NEW j \in Jobs, Create(j) \/ Cancel(j) \/ TimerFires(j) PROVE status'[k] = status[k]
    BY <1>1, <2>5 DEF Create, Cancel, TimerFires, Canceling, VoiceTypeOK, Terminal
  <2>6. ASSUME NEW j \in Jobs, Execute(j) PROVE status'[k] = status[k]
    BY <1>1, <2>3, <2>4, <2>6 DEF Execute, Moves, VoiceTypeOK, Terminal
  <2>7. ASSUME NEW j \in Jobs, CancelReturns(j) \/ Probe(j) \/ PostUnanswered(j) \/ Retrieve(j) \/ LookupFinds(j) \/ StopConfirmed(j)
        PROVE status'[k] = status[k]
    BY <2>2, <2>3, <2>4, <2>7 DEF CancelReturns, Probe, PostUnanswered, Retrieve, LookupFinds, StopConfirmed, Moves
  <2>8. ASSUME NEW j \in Jobs, PostAnswered(j) \/ RetrieveFails(j) \/ RetrieveFailsPlainly(j) \/ LookupFails(j) \/ StopUnconfirmed(j)
        PROVE status'[k] = status[k]
    BY <2>1, <2>2, <2>4, <2>8 DEF PostAnswered, RetrieveFails, RetrieveFailsPlainly, LookupFails, StopUnconfirmed, Moves, Defers, Terminal
  <2>9. ASSUME NEW j \in Jobs, WaitEnds(j) \/ Watch(j) PROVE status'[k] = status[k]
    BY <1>1, <2>1, <2>2, <2>9, HelpersTyped DEF WaitEnds, Watch, Defers
  <2>10. ASSUME NEW j \in Jobs, LookupAbsent(j) PROVE status'[k] = status[k]
    BY <2>1, <2>3, <2>10 DEF LookupAbsent, Absent, Terminal
  <2>11. ASSUME NEW j \in Jobs, ControllerSteps(j) PROVE status'[k] = status[k]
    BY <2>11 DEF ControllerSteps, PostArrives, PostDies, TaskEnds, AskArrives, AskDies, ControllerOnly, rowVars
  <2>12. CASE Panic \/ Start
    BY <2>12 DEF Panic, Start, Canceling, Terminal
  <2>13. CASE RetryPanic \/ Unlock \/ Close \/ Crash \/ PanicAndDie \/ \E success \in BOOLEAN : PanicReturns(success)
    BY <2>13 DEF RetryPanic, Unlock, Close, Crash, PanicAndDie, Dies, PanicReturns, rowVars
  <2>14. CASE StopArrives \/ StopDies \/ ExecutorUnlocks \/ UNCHANGED vars
    BY <2>14 DEF StopArrives, StopDies, ExecutorUnlocks, ControllerOnly, rowVars, vars
  <2> QED
    BY <1>1, <2>5, <2>6, <2>7, <2>8, <2>9, <2>10, <2>11, <2>12, <2>13, <2>14 DEF VoiceNext, ExecSteps
<1>2. VInv /\ [VoiceNext]_vars
      => [\A j \in Jobs : status[j] \in Terminal => status'[j] = status[j]]_vars
    BY <1>1 DEF VInv
<1> QED
    BY <1>2, VoiceInvariant, PTL DEF VoiceSpec, VerdictStays
=============================================================================
