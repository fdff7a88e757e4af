--------------------------- MODULE VoiceProperties ---------------------------
(***************************************************************************)
(* What a job of the voice application promises: its message is sent to a     *)
(* target once, its verdict is the executor's and stays, and it gets one.     *)
(***************************************************************************)
EXTENDS VoiceJobs

Points == {"none", "scheduled", "probing", "posting", "retrieving", "waiting",
           "looking", "stopping", "watching"}

VoiceTypeOK ==
    /\ status \in [Jobs -> {"none", "queued"} \cup Open \cup Terminal]
    /\ targets \subseteq Jobs
    /\ at \in [Jobs -> Points]
    /\ saw \in [Jobs -> Unsettled \cup {"none"}]
    /\ final \in [Jobs -> BOOLEAN]
    /\ timer \in [Jobs -> BOOLEAN]
    /\ call \in [Jobs -> BOOLEAN]
    /\ lock \in BOOLEAN /\ pending \in BOOLEAN
    /\ panic \in {"none", "stop", "retry"}
    /\ caught \subseteq Jobs
    /\ retry \in BOOLEAN
    /\ phase \in {"down", "up", "closing"}
    /\ task \in [Jobs -> {"absent", "live"} \cup Ended]
    /\ stopped \in [Jobs -> BOOLEAN]
    /\ tombs \subseteq Jobs
    /\ xlock \in BOOLEAN
    /\ post \in [Jobs -> {"none", "sent", "accepted", "refused"}]
    /\ sent \in [Jobs -> 0..2]
    /\ asks \in [Jobs -> SUBSET Callers]
    /\ stop \in BOOLEAN

\* A message for a tmux session goes to the executor once: no restart, timeout or
\* reconciliation sends it a second time.
TargetSentOnce == \A j \in targets : sent[j] <= 1

\* What the caller is told is so and stays so: a completed job was completed by
\* the executor, and a canceled one neither was nor will be carried out.
CompletedIsTrue == \A j \in Jobs : status[j] = "completed" => task[j] = "completed"

CanceledIsTrue ==
    \A j \in Jobs : status[j] = "canceled" =>
        /\ task[j] \in {"absent", "canceled"}
        /\ task[j] = "absent" => post[j] # "sent" /\ at[j] \in {"none", "scheduled"}

TruthfulVerdict == CompletedIsTrue /\ CanceledIsTrue

\* A verdict is not rewritten by a late answer, a cancellation or a restart.
VerdictStays ==
    [][\A j \in Jobs : status[j] \in Terminal => status'[j] = status[j]]_vars

\* What these rest on: nothing was asked of the executor for a job that is not
\* started, and only a managed job is looked up before it is submitted.
Untouched ==
    \A j \in Jobs : status[j] \in {"none", "queued"} =>
        /\ sent[j] = 0 /\ task[j] = "absent" /\ post[j] # "sent"
        /\ at[j] \in {"none", "scheduled"}

ProbesAreManaged == \A j \in targets : at[j] # "probing"

VInv == VoiceTypeOK /\ Untouched /\ ProbesAreManaged /\ TargetSentOnce /\ TruthfulVerdict

\* bridge.test.js and HERMES-FUNCTIONAL-INTEGRATION: work whose end is not known
\* is kept nonterminal and not recorded as failed.
FailedIsOver ==
    \A j \in Jobs : status[j] = "failed" => task[j] \notin {"live", "completed"}

\* README: an emergency stop immediately locks new phone-originated dispatch.
NothingSentUnderLock ==
    [][\A j \in Jobs : post[j] # "sent" /\ post'[j] = "sent" => ~lock]_vars

-----------------------------------------------------------------------------
(* Liveness.  What the process scheduled runs, the controller serves the      *)
(* requests that reach it, and a task ends.                                 *)

VoiceFairness ==
    \A j \in Jobs :
        /\ WF_vars(ExecSteps(j)) /\ WF_vars(TimerFires(j)) /\ WF_vars(CancelReturns(j))
        /\ WF_vars(PostArrives(j)) /\ WF_vars(AskArrives(j, "execution"))
        /\ WF_vars(TaskEnds(j))

VoiceLiveSpec == VoiceSpec /\ VoiceFairness

\* a request, or the wait for the task, fails or times out
Fails(j) ==
    \/ LookupFails(j) \/ StopUnconfirmed(j) \/ PostUnanswered(j)
    \/ RetrieveFails(j) \/ RetrieveFailsPlainly(j)
    \/ (WaitEnds(j) \/ Watch(j)) /\ status'[j] \notin Terminal

\* Once the process stays up and requests no longer fail, a job that was started,
\* or whose cancellation was requested, gets a verdict, whatever was lost before and
\* however often it is canceled or stopped in between.
JobsSettle ==
    <>[](phase = "up") /\ <>[][\A j \in Jobs : ~Fails(j)]_vars
    => \A j \in Jobs : status[j] \in Open ~> status[j] \in Terminal
=============================================================================
