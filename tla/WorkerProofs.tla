----------------------------- MODULE WorkerProofs -----------------------------
(***************************************************************************)
(* Proofs about the worker session broker, for any sets of operations and   *)
(* callers: WInv is inductive, a panic answered quiesced stays quiet, and    *)
(* the broker implements RootPlane and, for each operation, DeliveryPromise. *)
(***************************************************************************)
EXTENDS WorkerProperties, TLAPS

-----------------------------------------------------------------------------
(* Types.                                                                   *)

LEMMA CallersOps == \A c \in Callers : CallOf[c] \in Ops
    BY WorkerAssumption

\* What the store's operators write is a state of a row.
LEMMA RowsTyped ==
    ASSUME WorkerTypeOK
    PROVE  /\ \A o \in Ops : Failed(o) \in [Ops -> OperStates]
           /\ \A o \in Ops : Finish(o, "completed") \in [Ops -> OperStates]
           /\ Fenced \in [Ops -> OperStates]
           /\ Recover \in [Ops -> OperStates]
    BY DEF WorkerTypeOK, Failed, Finish, Fenced, Recover, OperStates

\* An answer is a verdict, or the proxy asks again.
LEMMA AnswerTyped ==
    ASSUME WorkerTypeOK, NEW c \in Callers, NEW v \in Verdicts \cup {"recovering"}, Answer(c, v)
    PROVE  caller' \in [Callers -> Verdicts \cup {"idle", "preparing", "prepared", "committing",
                                                  "recovering", "asking"}]
    BY DEF WorkerTypeOK, Answer

LEMMA ErrorsTyped == \A s \in OperStates : Errors(s) \subseteq Verdicts \cup {"recovering"}
    BY DEF Errors, Verdicts

LEMMA LeaveTyped ==
    ASSUME WorkerTypeOK, NEW c \in Callers, Leave(c)
    PROVE  /\ handler' \in [Callers -> Points]
           /\ aborted' \in [Callers -> BOOLEAN]
           /\ looking' \subseteq Callers
    BY DEF WorkerTypeOK, Leave, Points

\* Every step keeps the types.
LEMMA TypesStep == WInv /\ [WorkerNext]_vars => WorkerTypeOK'
<1> SUFFICES ASSUME WInv, [WorkerNext]_vars PROVE WorkerTypeOK'
    OBVIOUS
<1>0. /\ WorkerTypeOK
      /\ stage # "none" => lane # <<>>
    BY DEF WInv, FenceFits, WorkerTypeOK
<1> USE CallersOps, <1>0 DEF WorkerTypeOK, brokerVars, runVars
<1>1. ASSUME NEW c \in Callers, Preflight(c) PROVE WorkerTypeOK'
  <2>1. caller' \in [Callers -> Verdicts \cup {"idle", "preparing", "prepared", "committing",
                                               "recovering", "asking"}]
    BY <1>1 DEF Preflight, Verdicts
  <2>2. handler' \in [Callers -> Points]
    BY <1>1 DEF Preflight, Points
  <2> QED
    BY <1>1, <2>1, <2>2 DEF Preflight
<1>2. ASSUME NEW c \in Callers, Commit(c) PROVE WorkerTypeOK'
    BY <1>2 DEF Commit, Points, Verdicts
<1>3. ASSUME NEW c \in Callers, Handle(c) PROVE WorkerTypeOK'
  <2>1. CASE Prepared(c)
    BY <2>1, LeaveTyped DEF Prepared, OperStates
  <2>2. CASE PreflightFails(c)
    BY <2>2, LeaveTyped DEF PreflightFails, Verdicts
  <2>3. CASE Claim(c)
    BY <2>3 DEF Claim, OperStates, Points
  <2>4. CASE NotClaimed(c)
    BY <2>4, LeaveTyped, AnswerTyped, ErrorsTyped DEF NotClaimed, Verdicts
  <2>5. CASE Resolved(c)
    BY <2>5 DEF Resolved, Points
  <2>6. CASE NotResolved(c)
    BY <2>6, LeaveTyped, AnswerTyped, RowsTyped DEF NotResolved, Verdicts
  <2>7. CASE MarkDelivery(c)
    BY <2>7 DEF MarkDelivery, OperStates, Points
  <2>8. ASSUME Throw(c)
        PROVE  /\ oper' \in [Ops -> OperStates]
               /\ handler' \in [Callers -> Points]
               /\ aborted' \in [Callers -> BOOLEAN]
               /\ looking' \subseteq Callers
               /\ caller' \in [Callers -> Verdicts \cup {"idle", "preparing", "prepared",
                                                "committing", "recovering", "asking"}]
    BY <2>8, LeaveTyped, AnswerTyped, ErrorsTyped, RowsTyped DEF Throw
  <2>9. CASE SendFails(c)
    BY <2>9, <2>8 DEF SendFails
  <2>10. CASE CheckSignal(c)
    BY <2>10, <2>8 DEF CheckSignal, Points
  <2>11. CASE Paste(c)
    BY <2>11 DEF Paste, Points
  <2>12. CASE PasteFails(c)
    <3>1. delivered' \in [Ops -> Nat]
      BY <2>12 DEF PasteFails
    <3> QED
      BY <2>12, <2>8, <3>1 DEF PasteFails
  <2>13. CASE Complete(c)
    BY <2>13, LeaveTyped, AnswerTyped, RowsTyped DEF Complete, Verdicts
  <2>14. CASE Evidence(c)
    BY <2>14 DEF Evidence, Reply, OperStates, Verdicts
  <2>15. CASE NoEvidence(c)
    BY <2>15 DEF NoEvidence, Reply, Verdicts
  <2> QED
    BY <1>3, <2>1, <2>2, <2>3, <2>4, <2>5, <2>6, <2>7, <2>9, <2>10, <2>11, <2>12, <2>13, <2>14,
       <2>15 DEF Handle
<1>4. ASSUME NEW c \in Callers, Disconnect(c) PROVE WorkerTypeOK'
  <2>1. (aborted[c] \/ handler[c] \in RunPoints) \in BOOLEAN
    BY Zenon
  <2> QED
    BY <1>4, <2>1 DEF Disconnect
<1>5. ASSUME NEW c \in Callers, Ask(c) PROVE WorkerTypeOK'
    BY <1>5 DEF Ask, Verdicts
<1>6. ASSUME NEW c \in Callers, GiveUp(c) PROVE WorkerTypeOK'
    BY <1>6 DEF GiveUp, Verdicts
<1>7. ASSUME NEW o \in Ops, Interrupt(o) PROVE WorkerTypeOK'
  <2>1. \A c \in Callers : (aborted[c] \/ (CallOf[c] = o /\ handler[c] \in RunPoints)) \in BOOLEAN
    BY Zenon
  <2> QED
    BY <1>7, <2>1 DEF Interrupt
<1>8. ASSUME NEW kind \in {"panic", "unlock"}, Enqueue(kind) PROVE WorkerTypeOK'
    BY <1>8 DEF Enqueue
<1>9. CASE Control
  <2>1. CASE PanicBegins
    <3>1. \A c \in Callers : (aborted[c] \/ handler[c] \in RunPoints) \in BOOLEAN
      BY Zenon
    <3> QED
      BY <2>1, <3>1, RowsTyped DEF PanicBegins, AbortRuns
  <2>2. CASE PanicEnds
    <3>1. calm' \in BOOLEAN
      BY <2>2 DEF PanicEnds
    <3> QED
      BY <2>2, <3>1 DEF PanicEnds, Head1
  <2>3. CASE UnlockFails
    BY <2>3, RowsTyped DEF UnlockFails
  <2>4. CASE PanicFails \/ UnlockRefused \/ UnlockBegins \/ RootUnlocked
    <3>1. CASE PanicFails \/ UnlockRefused
      <4>1. UNCHANGED <<oper, fence, phase, stage, runVars, caller, delivered, calm>>
        BY <3>1 DEF PanicFails, UnlockRefused
      <4>2. lane # <<>> /\ lane' = Tail(lane)
        BY <3>1 DEF PanicFails, UnlockRefused, Head1
      <4> QED
        BY <4>1, <4>2
    <3>2. CASE UnlockBegins \/ RootUnlocked
      BY <3>2 DEF UnlockBegins, RootUnlocked
    <3> QED
      BY <2>4, <3>1, <3>2
  <2>5. CASE UnlockEnds
    <3>1. fence' \in BOOLEAN /\ calm' \in BOOLEAN
      BY <2>5 DEF UnlockEnds
    <3>2. lane' \in Seq({"panic", "unlock"}) /\ stage' = "none"
      BY <2>5 DEF UnlockEnds
    <3> QED
      BY <2>5, <3>1, <3>2 DEF UnlockEnds
  <2> QED
    BY <1>9, <2>1, <2>2, <2>3, <2>4, <2>5 DEF Control
<1>10. CASE Close
  <2>1. Append(lane, "panic") \in Seq({"panic", "unlock"})
    OBVIOUS
  <2> QED
    BY <1>10, <2>1 DEF Close
<1>11. CASE Crash
    BY <1>11 DEF Crash, Points, Verdicts
<1>12. CASE Closed
    BY <1>12 DEF Closed
<1>13. CASE Restart
    BY <1>13, RowsTyped DEF Restart
<1>14. CASE UNCHANGED vars
    BY <1>14 DEF vars
<1> QED
    BY <1>1, <1>2, <1>3, <1>4, <1>5, <1>6, <1>7, <1>8, <1>9, <1>10, <1>11, <1>12, <1>13, <1>14
    DEF WorkerNext

-----------------------------------------------------------------------------
(* What the store's operators make of each row.                             *)

LEMMA FailedRows ==
    ASSUME WorkerTypeOK, NEW o \in Ops, NEW p \in Ops
    PROVE  /\ p # o => Failed(o)[p] = oper[p]
           /\ oper[o] = "commit_claimed" => Failed(o)[o] = "failed_pre_delivery"
           /\ oper[o] = "delivery_started" => Failed(o)[o] = "outcome_unknown"
           /\ oper[o] \notin {"commit_claimed", "delivery_started"} => Failed(o)[o] = oper[o]
    BY DEF WorkerTypeOK, Failed

LEMMA FencedRows ==
    ASSUME NEW p \in Ops
    PROVE  /\ oper[p] \in {"prepared", "commit_claimed"} => Fenced[p] = "failed_pre_delivery"
           /\ oper[p] = "delivery_started" => Fenced[p] = "outcome_unknown"
           /\ ~Active(p) => Fenced[p] = oper[p]
    BY DEF Fenced, Active

LEMMA FinishedRows ==
    ASSUME WorkerTypeOK, NEW o \in Ops, NEW p \in Ops
    PROVE  /\ p # o => Finish(o, "completed")[p] = oper[p]
           /\ Finish(o, "completed")[o] = IF OperTerminal(o) THEN oper[o] ELSE "completed"
    BY DEF WorkerTypeOK, Finish

LEMMA RecoveredRows ==
    ASSUME NEW p \in Ops
    PROVE  Recover[p] = IF oper[p] = "commit_claimed" THEN "prepared" ELSE oper[p]
    BY DEF Recover

-----------------------------------------------------------------------------
(* The runs, the rows and the pane agree.                                   *)

\* A handler that leaves changes nothing for the others.
LEMMA Left ==
    ASSUME WorkerTypeOK, NEW c \in Callers, Leave(c)
    PROVE  /\ ~Claimed(c)' /\ ~Crossed(c)' /\ handler'[c] = "none"
           /\ \A d \in Callers \ {c} : handler'[d] = handler[d]
    BY DEF WorkerTypeOK, Leave, Claimed, Crossed

LEMMA RunsStep == WInv /\ [WorkerNext]_vars => RunsFit'
<1> SUFFICES ASSUME WInv, [WorkerNext]_vars PROVE RunsFit'
    OBVIOUS
<1>0. WorkerTypeOK /\ RunsFit
    BY DEF WInv
<1> USE CallersOps, <1>0
\* where neither the handlers nor the pane change, the rows decide
<1>a. ASSUME UNCHANGED <<handler, delivered>>, phase' = "down" => phase = "down",
             \A o \in Ops :
                \/ oper'[o] = oper[o]
                \/ oper[o] = "commit_claimed" /\ oper'[o] = "failed_pre_delivery"
                \/ oper[o] = "prepared" /\ oper'[o] = "failed_pre_delivery"
                \/ oper[o] = "delivery_started" /\ oper'[o] = "outcome_unknown"
                \/ /\ oper[o] \in {"delivery_started", "outcome_unknown", "completed"}
                   /\ oper'[o] = "completed" /\ delivered[o] > 0
      PROVE  RunsFit'
  <2>1. OneRun'
    BY <1>a DEF RunsFit, OneRun, Claimed
  <2>2. ASSUME NEW c \in Callers PROVE RunFits(c)'
    <3> DEFINE o == CallOf[c]
    <3>1. RunFits(c) /\ RowFits(o) /\ o \in Ops /\ delivered[o] \in Nat
      BY DEF RunsFit, WorkerTypeOK
    <3> QED
      BY <1>a, <3>1 DEF RunFits, RowFits, Claimed, Crossed
  <2>3. ASSUME NEW o \in Ops PROVE RowFits(o)'
    <3>1. RowFits(o) /\ delivered[o] \in Nat
      BY DEF RunsFit, WorkerTypeOK
    <3> QED
      BY <1>a, <3>1 DEF RowFits
  <2> QED
    BY <2>1, <2>2, <2>3 DEF RunsFit
\* a handler without a run moves to where it has none
<1>b. ASSUME NEW c \in Callers, UNCHANGED <<oper, delivered, phase>>,
             \E p \in {"preparing", "reading"} : handler' = [handler EXCEPT ![c] = p],
             phase # "down"
      PROVE  RunsFit'
    BY <1>b DEF RunsFit, OneRun, RunFits, RowFits, Claimed, Crossed, WorkerTypeOK
\* a handler leaves, with what failPreDelivery and outcomeUnknown make of its row
<1>c. ASSUME NEW c \in Callers, Leave(c), UNCHANGED <<delivered, phase>>,
             oper' = oper \/ oper' = Failed(CallOf[c])
      PROVE  RunsFit'
  <2>1. \A o \in Ops :
           \/ oper'[o] = oper[o]
           \/ oper[o] = "commit_claimed" /\ oper'[o] = "failed_pre_delivery"
           \/ oper[o] = "delivery_started" /\ oper'[o] = "outcome_unknown"
    BY <1>c, FailedRows
  <2>2. /\ handler'[c] = "none"
        /\ \A d \in Callers \ {c} : handler'[d] = handler[d]
    BY <1>c, Left
  <2>3. OneRun'
    BY <2>2 DEF RunsFit, OneRun, Claimed
  <2>4. ASSUME NEW d \in Callers PROVE RunFits(d)'
    <3>1. RunFits(d) /\ CallOf[d] \in Ops
      BY DEF RunsFit
    <3> QED
      BY <1>c, <2>1, <2>2, <3>1 DEF RunFits, Claimed, Crossed
  <2>5. ASSUME NEW o \in Ops PROVE RowFits(o)'
    <3>1. RowFits(o)
      BY DEF RunsFit
    <3> QED
      BY <1>c, <2>1, <3>1 DEF RowFits
  <2> QED
    BY <2>3, <2>4, <2>5 DEF RunsFit
<1>1. ASSUME NEW c \in Callers, Preflight(c) \/ Commit(c) PROVE RunsFit'
    BY <1>1, <1>a, <1>b DEF Preflight, Commit, brokerVars
<1>2. ASSUME NEW c \in Callers, Handle(c) PROVE RunsFit'
  <2> USE DEF brokerVars
  <2>1. CASE Prepared(c)
    BY <2>1, Left DEF Prepared, RunsFit, OneRun, RunFits, RowFits, Claimed, Crossed, WorkerTypeOK
  <2>2. CASE PreflightFails(c) \/ NotClaimed(c) \/ NotResolved(c) \/ SendFails(c)
    BY <2>2, <1>c DEF PreflightFails, NotClaimed, NotResolved, SendFails, Throw
  <2>3. CASE Claim(c)
    BY <2>3 DEF Claim, RunsFit, OneRun, RunFits, RowFits, Claimed, Crossed, WorkerTypeOK
  <2>4. CASE Resolved(c)
    BY <2>4 DEF Resolved, RunsFit, OneRun, RunFits, RowFits, Claimed, Crossed, WorkerTypeOK
  <2>5. CASE MarkDelivery(c)
    BY <2>5 DEF MarkDelivery, RunsFit, OneRun, RunFits, RowFits, Claimed, Crossed, WorkerTypeOK
  <2>6. CASE CheckSignal(c)
    <3>1. CASE Throw(c)
      BY <2>6, <3>1, <1>c DEF CheckSignal, Throw
    <3>2. CASE /\ handler[c] = "marked" /\ UNCHANGED <<oper, delivered, phase>>
               /\ handler' = [handler EXCEPT ![c] = "pasting"]
      BY <3>2 DEF RunsFit, OneRun, RunFits, RowFits, Claimed, Crossed, WorkerTypeOK
    <3> QED
      BY <2>6, <3>1, <3>2 DEF CheckSignal
  <2>7. CASE Paste(c)
    <3>1. /\ handler[c] = "pasting" /\ handler'[c] = "watching"
          /\ \A d \in Callers \ {c} : handler'[d] = handler[d]
          /\ \A o \in Ops : delivered'[o] = IF o = CallOf[c] THEN delivered[o] + 1 ELSE delivered[o]
          /\ UNCHANGED <<oper, phase>>
      BY <2>7 DEF Paste, WorkerTypeOK
    <3>2. delivered[CallOf[c]] = 0 /\ Claimed(c) /\ RunFits(c)
      BY <3>1 DEF RunsFit, RunFits, Claimed
    <3>3. OneRun'
      BY <3>1 DEF RunsFit, OneRun, Claimed
    <3>4. ASSUME NEW d \in Callers PROVE RunFits(d)'
      <4>1. RunFits(d) /\ CallOf[d] \in Ops
        BY DEF RunsFit
      <4>2. d # c /\ Claimed(d) => CallOf[d] # CallOf[c]
        BY <3>2 DEF RunsFit, OneRun
      <4>3. CASE d = c
        BY <3>1, <3>2, <4>3 DEF RunFits, Claimed, Crossed
      <4>4. CASE d # c
        BY <3>1, <4>1, <4>2, <4>4 DEF RunFits, Claimed, Crossed
      <4> QED
        BY <4>3, <4>4
    <3>5. ASSUME NEW o \in Ops PROVE RowFits(o)'
      <4>1. RowFits(o)
        BY DEF RunsFit
      <4> QED
        BY <3>1, <3>2, <4>1 DEF RowFits, RunFits, Crossed
    <3> QED
      BY <3>3, <3>4, <3>5 DEF RunsFit
  <2>8. CASE PasteFails(c)
    <3>1. handler[c] = "pasting" /\ Leave(c) /\ oper' = Failed(CallOf[c]) /\ UNCHANGED phase
      BY <2>8 DEF PasteFails, Throw
    <3>2. PICK n \in {0, 1} : delivered' = [delivered EXCEPT ![CallOf[c]] = @ + n]
      BY <2>8 DEF PasteFails
    <3>3. \A o \in Ops :
             \/ oper'[o] = oper[o]
             \/ oper[o] = "commit_claimed" /\ oper'[o] = "failed_pre_delivery"
             \/ oper[o] = "delivery_started" /\ oper'[o] = "outcome_unknown"
      BY <3>1, FailedRows
    <3>4. /\ handler'[c] = "none"
          /\ \A d \in Callers \ {c} : handler'[d] = handler[d]
      BY <3>1, Left
    <3>5. \A o \in Ops : delivered'[o] = IF o = CallOf[c] THEN delivered[o] + n ELSE delivered[o]
      BY <3>2 DEF WorkerTypeOK
    <3>6. delivered[CallOf[c]] = 0 /\ Claimed(c) /\ RunFits(c)
      BY <3>1 DEF RunsFit, RunFits, Claimed
    <3>7. OneRun'
      BY <3>4 DEF RunsFit, OneRun, Claimed
    <3>8. ASSUME NEW d \in Callers PROVE RunFits(d)'
      <4>1. RunFits(d) /\ CallOf[d] \in Ops
        BY DEF RunsFit
      <4>2. d # c /\ Claimed(d) => CallOf[d] # CallOf[c]
        BY <3>6 DEF RunsFit, OneRun
      <4>3. CASE d = c
        BY <3>1, <3>4, <4>3 DEF RunFits, Claimed, Crossed
      <4>4. CASE d # c
        BY <3>1, <3>3, <3>4, <3>5, <4>1, <4>2, <4>4 DEF RunFits, Claimed, Crossed
      <4> QED
        BY <4>3, <4>4
    <3>9. ASSUME NEW o \in Ops PROVE RowFits(o)'
      <4>1. RowFits(o)
        BY DEF RunsFit
      <4> QED
        BY <3>3, <3>5, <3>6, <3>1, <4>1 DEF RowFits, RunFits, Crossed
    <3> QED
      BY <3>7, <3>8, <3>9 DEF RunsFit
  <2>9. CASE Complete(c)
    <3>1. handler[c] = "watching" /\ Leave(c) /\ UNCHANGED <<delivered, phase>>
      BY <2>9 DEF Complete
    <3>2. /\ \A o \in Ops : oper'[o] = oper[o] \/ (o = CallOf[c] /\ oper'[o] = "completed")
          /\ oper'[CallOf[c]] \in {"completed", "failed_pre_delivery", "outcome_unknown"}
      BY <2>9, FinishedRows DEF Complete, OperTerminal
    <3>4. /\ handler'[c] = "none"
          /\ \A d \in Callers \ {c} : handler'[d] = handler[d]
      BY <3>1, Left
    <3> QED
      BY <3>1, <3>2, <3>4 DEF RunsFit, OneRun, RunFits, RowFits, Claimed, Crossed, WorkerTypeOK
  <2>10. CASE Evidence(c)
    BY <2>10, <1>a DEF Evidence, WorkerTypeOK
  <2>11. CASE NoEvidence(c)
    BY <2>11, <1>a DEF NoEvidence
  <2> QED
    BY <1>2, <2>1, <2>2, <2>3, <2>4, <2>5, <2>6, <2>7, <2>8, <2>9, <2>10, <2>11 DEF Handle
<1>3. ASSUME NEW c \in Callers, Disconnect(c) \/ Ask(c) \/ GiveUp(c) PROVE RunsFit'
    BY <1>3, <1>a DEF Disconnect, Ask, GiveUp, brokerVars, runVars
<1>4. ASSUME NEW o \in Ops, Interrupt(o) PROVE RunsFit'
    BY <1>4, <1>a DEF Interrupt, brokerVars
<1>5. ASSUME NEW kind \in {"panic", "unlock"}, Enqueue(kind) PROVE RunsFit'
    BY <1>5, <1>a DEF Enqueue, runVars
<1>6. CASE Control
  <2>1. UNCHANGED <<handler, delivered, phase>>
    BY <1>6 DEF Control, PanicBegins, PanicFails, PanicEnds, UnlockRefused, UnlockBegins,
       RootUnlocked, UnlockFails, UnlockEnds, runVars
  <2>2. oper' = oper \/ oper' = Fenced
    BY <1>6 DEF Control, PanicBegins, PanicFails, PanicEnds, UnlockRefused, UnlockBegins,
       RootUnlocked, UnlockFails, UnlockEnds
  <2>3. \A o \in Ops :
           \/ oper'[o] = oper[o]
           \/ oper[o] = "commit_claimed" /\ oper'[o] = "failed_pre_delivery"
           \/ oper[o] = "prepared" /\ oper'[o] = "failed_pre_delivery"
           \/ oper[o] = "delivery_started" /\ oper'[o] = "outcome_unknown"
    BY <2>2, FencedRows DEF Active
  <2> QED
    BY <1>a, <2>1, <2>3
<1>7. CASE Close
    BY <1>7, <1>a DEF Close, runVars
<1>8. CASE Closed
    BY <1>8 DEF Closed, runVars, RunsFit, OneRun, RunFits, RowFits, Claimed, Crossed, WorkerTypeOK
<1>9. CASE Crash
  <2>1. PICK landed \in SUBSET {c \in Callers : handler[c] = "pasting"} :
           delivered' = [o \in Ops |-> delivered[o] +
                           IF \E c \in landed : CallOf[c] = o THEN 1 ELSE 0]
    BY <1>9 DEF Crash
  <2>2. \A o \in Ops : \/ delivered'[o] = delivered[o]
                       \/ /\ delivered[o] = 0 /\ delivered'[o] = 1
                          /\ \E c \in Callers : Crossed(c) /\ CallOf[c] = o
    BY <2>1 DEF RunsFit, OneRun, RunFits, RowFits, Claimed, Crossed, WorkerTypeOK
  <2>3. oper' = oper /\ \A c \in Callers : handler'[c] = "none"
    BY <1>9 DEF Crash
  <2> QED
    BY <2>2, <2>3 DEF RunsFit, OneRun, RunFits, RowFits, Claimed, Crossed, WorkerTypeOK
<1>10. CASE Restart
    BY <1>10, RecoveredRows DEF Restart, runVars, RunsFit, OneRun, RunFits, RowFits, Claimed, Crossed, WorkerTypeOK
<1>11. CASE UNCHANGED vars
    BY <1>11, <1>a DEF vars, brokerVars, runVars
<1> QED
    BY <1>1, <1>2, <1>3, <1>4, <1>5, <1>6, <1>7, <1>8, <1>9, <1>10, <1>11 DEF WorkerNext

-----------------------------------------------------------------------------
(* The fence, the lane and what a quiesced panic left.                      *)

\* No handler crosses the durable boundary behind the fence.
LEMMA CrossingStep ==
    ASSUME WInv, NEW c \in Callers, Handle(c)
    PROVE  /\ UNCHANGED <<fence, calm, brokerVars>>
           /\ fence => \A o \in Ops : ~Active(o)'
           /\ fence /\ NoneCrossed => NoneCrossed'
<1> USE CallersOps DEF brokerVars
<1>0. /\ WorkerTypeOK /\ RunsFit
      /\ fence => \A o \in Ops : ~Active(o)
    BY DEF WInv, FenceFits
<1>1. ASSUME UNCHANGED <<fence, calm, phase, lane, stage>>,
             oper' = oper \/ oper' = Failed(CallOf[c]) \/ oper' = Finish(CallOf[c], "completed"),
             Leave(c)
      PROVE  /\ fence => \A o \in Ops : ~Active(o)'
             /\ NoneCrossed => NoneCrossed'
  <2>1. fence => \A o \in Ops : oper'[o] = oper[o] \/ oper'[o] = "completed"
    BY <1>0, <1>1, FailedRows, FinishedRows DEF Active
  <2>2. NoneCrossed => NoneCrossed'
    BY <1>0, <1>1, Left DEF NoneCrossed, Crossed
  <2> QED
    BY <1>0, <2>1, <2>2 DEF Active
<1>2. CASE Prepared(c)
    BY <1>0, <1>2 DEF Prepared
<1>3. CASE Claim(c)
    BY <1>0, <1>3 DEF Claim
<1>4. CASE \/ PreflightFails(c) \/ NotClaimed(c) \/ NotResolved(c) \/ SendFails(c) \/ PasteFails(c)
           \/ Complete(c)
  <2>1. /\ UNCHANGED <<fence, calm, phase, lane, stage>> /\ Leave(c)
        /\ oper' = oper \/ oper' = Failed(CallOf[c]) \/ oper' = Finish(CallOf[c], "completed")
    BY <1>4 DEF PreflightFails, NotClaimed, NotResolved, SendFails, PasteFails, Complete, Throw
  <2> QED
    BY <1>1, <2>1
<1>5. CASE Resolved(c)
    BY <1>0, <1>5 DEF Resolved, NoneCrossed, Crossed, Active, WorkerTypeOK
<1>6. CASE MarkDelivery(c)
    BY <1>0, <1>6 DEF MarkDelivery, Active
<1>7. CASE CheckSignal(c)
  <2>1. CASE Throw(c)
    BY <1>1, <1>7, <2>1 DEF CheckSignal, Throw
  <2>2. CASE UNCHANGED oper /\ handler[c] = "marked"
    BY <1>0, <1>7, <2>2 DEF CheckSignal, NoneCrossed, Crossed, Active
  <2> QED
    BY <1>7, <2>1, <2>2 DEF CheckSignal
<1>8. CASE Paste(c)
    BY <1>0, <1>8 DEF Paste, NoneCrossed, Crossed, Active
<1>9. CASE Evidence(c)
  <2>1. \A o \in Ops : oper'[o] = oper[o] \/ oper'[o] = "completed"
    BY <1>0, <1>9 DEF Evidence, WorkerTypeOK
  <2> QED
    BY <1>0, <1>9, <2>1 DEF Evidence, NoneCrossed, Crossed, Active
<1>10. CASE NoEvidence(c)
    BY <1>0, <1>10 DEF NoEvidence, NoneCrossed, Crossed, Active
<1> QED
    BY <1>2, <1>3, <1>4, <1>5, <1>6, <1>7, <1>8, <1>9, <1>10 DEF Handle

LEMMA FenceStep == WInv /\ [WorkerNext]_vars => FenceFits'
<1> SUFFICES ASSUME WInv, [WorkerNext]_vars PROVE FenceFits'
    OBVIOUS
<1>0. WorkerTypeOK /\ RunsFit /\ FenceFits /\ lane \in Seq({"panic", "unlock"})
    BY DEF WInv, WorkerTypeOK
<1> USE CallersOps, <1>0
\* what the fence, the lane and the process do not notice
<1>a. ASSUME UNCHANGED <<fence, calm, phase, lane, stage>>,
             fence => \A o \in Ops : ~Active(o)',
             fence /\ NoneCrossed => NoneCrossed'
      PROVE  FenceFits'
    BY <1>a DEF FenceFits
<1>b. ASSUME UNCHANGED <<oper, handler, fence, calm, phase, lane, stage>> PROVE FenceFits'
    BY <1>b DEF FenceFits, Active, NoneCrossed, Crossed
<1>1. ASSUME NEW c \in Callers, Preflight(c) \/ Commit(c) PROVE FenceFits'
  <2>1. UNCHANGED <<oper, fence, calm, phase, lane, stage>>
    BY <1>1 DEF Preflight, Commit, brokerVars
  <2>2. NoneCrossed => NoneCrossed'
    BY <1>1 DEF Preflight, Commit, NoneCrossed, Crossed, WorkerTypeOK
  <2> QED
    BY <1>a, <2>1, <2>2 DEF FenceFits, Active
<1>2. ASSUME NEW c \in Callers, Handle(c) PROVE FenceFits'
    BY <1>2, <1>a, CrossingStep DEF brokerVars
<1>3. ASSUME NEW c \in Callers, Disconnect(c) \/ Ask(c) \/ GiveUp(c) PROVE FenceFits'
    BY <1>3, <1>b DEF Disconnect, Ask, GiveUp, brokerVars, runVars
<1>4. ASSUME NEW o \in Ops, Interrupt(o) PROVE FenceFits'
    BY <1>4, <1>b DEF Interrupt, brokerVars
<1>5. ASSUME NEW kind \in {"panic", "unlock"}, Enqueue(kind) PROVE FenceFits'
  <2>1. lane # <<>> => Head(Append(lane, kind)) = Head(lane)
    OBVIOUS
  <2>2. Append(lane, kind) # <<>>
    OBVIOUS
  <2> QED
    BY <1>5, <2>1, <2>2 DEF Enqueue, runVars, FenceFits, Active, NoneCrossed, Crossed
<1>6. CASE PanicBegins
  <2>1. \A o \in Ops : ~Active(o)'
    BY <1>6, FencedRows DEF PanicBegins, Active
  <2>2. NoneCrossed' = NoneCrossed
    BY <1>6 DEF PanicBegins, NoneCrossed, Crossed
  <2> QED
    BY <1>6, <2>1, <2>2 DEF PanicBegins, Head1, FenceFits
<1>7. CASE PanicFails \/ UnlockRefused
  <2>1. /\ UNCHANGED <<oper, fence, phase, stage, handler, calm>>
        /\ lane # <<>> /\ stage = "none"
    BY <1>7 DEF PanicFails, UnlockRefused, Head1, runVars
  <2> QED
    BY <2>1 DEF FenceFits, Active, NoneCrossed, Crossed
<1>8. CASE PanicEnds
  <2>1. NoRuns => NoneCrossed
    BY DEF NoRuns, NoneCrossed, RunPoints, Crossed
  <2>2. NoneCrossed' = NoneCrossed /\ \A o \in Ops : Active(o)' = Active(o)
    BY <1>8 DEF PanicEnds, runVars, NoneCrossed, Crossed, Active
  <2>3. calm' => calm \/ NoRuns
    BY <1>8 DEF PanicEnds
  <2> QED
    BY <1>8, <2>1, <2>2, <2>3 DEF PanicEnds, FenceFits
<1>9. CASE UnlockBegins
  <2>1. NoneCrossed
    BY <1>9 DEF UnlockBegins, Quiescent, NoRuns, NoneCrossed, RunPoints, Crossed
  <2> QED
    BY <1>9, <2>1 DEF UnlockBegins, Head1, runVars, FenceFits, Active, NoneCrossed, Crossed
<1>10. CASE RootUnlocked
    BY <1>10 DEF RootUnlocked, runVars, FenceFits, Active, NoneCrossed, Crossed
<1>11. CASE UnlockFails
  <2>1. \A o \in Ops : ~Active(o)'
    BY <1>11, FencedRows DEF UnlockFails, Active
  <2>2. NoneCrossed' = NoneCrossed
    BY <1>11 DEF UnlockFails, runVars, NoneCrossed, Crossed
  <2>3. UNCHANGED <<calm, phase>> /\ fence' /\ stage' = "none" /\ lane # <<>> /\ phase # "down"
    BY <1>11 DEF UnlockFails, FenceFits
  <2> QED
    BY <2>1, <2>2, <2>3 DEF FenceFits
<1>12. CASE UnlockEnds
  <2>1. NoneCrossed' = NoneCrossed /\ \A o \in Ops : Active(o)' = Active(o)
    BY <1>12 DEF UnlockEnds, runVars, NoneCrossed, Crossed, Active
  <2>2. stage' = "none" /\ phase' = phase /\ phase # "down"
    BY <1>12 DEF UnlockEnds, FenceFits
  <2>3. UNCHANGED <<fence, calm>> \/ (~fence' /\ ~calm')
    BY <1>12 DEF UnlockEnds
  <2> QED
    BY <2>1, <2>2, <2>3 DEF FenceFits
<1>13. CASE Close
  <2>1. lane # <<>> => Head(Append(lane, "panic")) = Head(lane)
    OBVIOUS
  <2>2. Append(lane, "panic") # <<>>
    OBVIOUS
  <2> QED
    BY <1>13, <2>1, <2>2 DEF Close, runVars, FenceFits, Active, NoneCrossed, Crossed
<1>14. CASE Closed
    BY <1>14 DEF Closed, runVars, FenceFits, Active, NoneCrossed, Crossed, WorkerTypeOK
<1>15. CASE Crash
    BY <1>15 DEF Crash, FenceFits, Active, NoneCrossed, Crossed
<1>16. CASE Restart
  <2>1. \A o \in Ops : Active(o)' = Active(o)
    BY <1>16, RecoveredRows DEF Restart, Active
  <2> QED
    BY <1>16, <2>1 DEF Restart, runVars, FenceFits, NoneCrossed, Crossed
<1>17. CASE UNCHANGED vars
    BY <1>17, <1>b DEF vars, brokerVars, runVars
<1> QED
    BY <1>1, <1>2, <1>3, <1>4, <1>5, <1>6, <1>7, <1>8, <1>9, <1>10, <1>11, <1>12, <1>13, <1>14,
       <1>15, <1>16, <1>17 DEF WorkerNext, Control

-----------------------------------------------------------------------------
(* Answers.                                                                 *)

\* A message in a pane stays there.
LEMMA DeliveredStays ==
    ASSUME WInv, [WorkerNext]_vars, NEW o \in Ops, delivered[o] = 1, RunsFit'
    PROVE  delivered'[o] = 1
<1> USE CallersOps
<1>0. WorkerTypeOK
    BY DEF WInv
<1>1. delivered' = delivered \/ (delivered'[o] \in Nat /\ delivered'[o] >= delivered[o])
  <2>1. ASSUME NEW c \in Callers, Paste(c) PROVE delivered'[o] \in Nat /\ delivered'[o] >= delivered[o]
    BY <1>0, <2>1 DEF Paste, WorkerTypeOK
  <2>2. ASSUME NEW c \in Callers, PasteFails(c)
        PROVE  delivered'[o] \in Nat /\ delivered'[o] >= delivered[o]
    BY <1>0, <2>2 DEF PasteFails, WorkerTypeOK
  <2>3. ASSUME Crash PROVE delivered'[o] \in Nat /\ delivered'[o] >= delivered[o]
    BY <1>0, <2>3 DEF Crash, WorkerTypeOK
  <2>4. ASSUME NEW c \in Callers, Handle(c), ~Paste(c), ~PasteFails(c) PROVE delivered' = delivered
    BY <2>4 DEF Handle, Prepared, PreflightFails, Claim, NotClaimed, Resolved, NotResolved,
       MarkDelivery, SendFails, CheckSignal, Complete, Evidence, NoEvidence
  <2>5. ASSUME NEW c \in Callers,
               Preflight(c) \/ Commit(c) \/ Disconnect(c) \/ Ask(c) \/ GiveUp(c)
        PROVE  delivered' = delivered
    BY <2>5 DEF Preflight, Commit, Disconnect, Ask, GiveUp
  <2>6. ASSUME Control \/ Close \/ Closed \/ Restart PROVE delivered' = delivered
    BY <2>6 DEF Control, PanicBegins, PanicFails, PanicEnds, UnlockRefused, UnlockBegins,
       RootUnlocked, UnlockFails, UnlockEnds, Close, Closed, Restart
  <2>7. ASSUME NEW p \in Ops, Interrupt(p) PROVE delivered' = delivered
    BY <2>7 DEF Interrupt
  <2>8. ASSUME NEW kind \in {"panic", "unlock"}, Enqueue(kind) PROVE delivered' = delivered
    BY <2>8 DEF Enqueue
  <2> QED
    BY <2>1, <2>2, <2>3, <2>4, <2>5, <2>6, <2>7, <2>8 DEF WorkerNext, vars
<1> QED
    BY <1>0, <1>1 DEF RunsFit, RowFits, WorkerTypeOK

\* A call learns of success only where the row or the run proves the delivery.
LEMMA LearnsSuccess ==
    ASSUME WInv, [WorkerNext]_vars, NEW c \in Callers, caller[c] # "ok", caller'[c] = "ok"
    PROVE  delivered[CallOf[c]] = 1
<1> USE CallersOps
<1>0. WorkerTypeOK /\ RunFits(c) /\ RowFits(CallOf[c])
    BY DEF WInv, RunsFit
<1>1. ASSUME NEW d \in Callers, NEW v \in Verdicts \cup {"recovering"}, Answer(d, v)
      PROVE  c = d /\ v = "ok"
    BY <1>0, <1>1 DEF Answer, WorkerTypeOK
<1>2. \A s : "ok" \notin Errors(s)
    BY DEF Errors
<1>3. ASSUME NEW d \in Callers, Throw(d) PROVE FALSE
    BY <1>0, <1>2, <1>3 DEF Throw, Answer, WorkerTypeOK
<1>4. ASSUME NEW d \in Callers, Handle(d) PROVE delivered[CallOf[c]] = 1
  <2>1. CASE NotClaimed(d)
    <3>1. CASE oper[CallOf[d]] = "completed"
      BY <1>0, <1>1, <2>1, <3>1 DEF NotClaimed, RowFits, Verdicts
    <3>2. CASE oper[CallOf[d]] # "completed"
      BY <1>0, <1>2, <2>1, <3>2 DEF NotClaimed, Answer, WorkerTypeOK
    <3> QED
      BY <3>1, <3>2
  <2>2. CASE NotResolved(d)
    BY <1>1, <2>2 DEF NotResolved, Verdicts
  <2>3. CASE SendFails(d) \/ PasteFails(d)
    BY <1>3, <2>3 DEF SendFails, PasteFails
  <2>4. CASE CheckSignal(d)
    BY <1>3, <2>4 DEF CheckSignal
  <2>5. CASE Complete(d)
    BY <1>0, <1>1, <2>5 DEF Complete, RunFits, Verdicts
  <2>6. CASE Evidence(d)
    BY <1>0, <2>6 DEF Evidence, Reply, RowFits, WorkerTypeOK
  <2>7. CASE NoEvidence(d)
    BY <1>0, <2>7 DEF NoEvidence, Reply, WorkerTypeOK
  <2>8. CASE Prepared(d) \/ PreflightFails(d)
    BY <1>0, <2>8 DEF Prepared, PreflightFails, WorkerTypeOK
  <2>9. CASE Claim(d) \/ Resolved(d) \/ MarkDelivery(d) \/ Paste(d)
    BY <2>9 DEF Claim, Resolved, MarkDelivery, Paste
  <2> QED
    BY <1>4, <2>1, <2>2, <2>3, <2>4, <2>5, <2>6, <2>7, <2>8, <2>9 DEF Handle
<1>5. ASSUME NEW d \in Callers, Ask(d) PROVE delivered[CallOf[c]] = 1
    BY <1>0, <1>5 DEF Ask, RowFits, WorkerTypeOK
<1>6. ASSUME NEW d \in Callers, Preflight(d) \/ Commit(d) PROVE FALSE
    BY <1>0, <1>6 DEF Preflight, Commit, WorkerTypeOK
<1>7. ASSUME NEW d \in Callers, Disconnect(d) \/ GiveUp(d) PROVE FALSE
    BY <1>0, <1>7 DEF Disconnect, GiveUp, WorkerTypeOK
<1>8. ASSUME Control \/ Close \/ Closed \/ Restart PROVE FALSE
    BY <1>8 DEF Control, PanicBegins, PanicFails, PanicEnds, UnlockRefused, UnlockBegins,
       RootUnlocked, UnlockFails, UnlockEnds, Close, Closed, Restart
<1>9. ASSUME NEW o \in Ops, Interrupt(o) PROVE FALSE
    BY <1>9 DEF Interrupt
<1>10. ASSUME NEW kind \in {"panic", "unlock"}, Enqueue(kind) PROVE FALSE
    BY <1>10 DEF Enqueue
<1>11. ASSUME Crash PROVE FALSE
    BY <1>0, <1>11 DEF Crash, WorkerTypeOK
<1> QED
    BY <1>4, <1>5, <1>6, <1>7, <1>8, <1>9, <1>10, <1>11 DEF WorkerNext, vars

LEMMA SuccessStep == WInv /\ [WorkerNext]_vars => HonestSuccess'
<1> SUFFICES ASSUME WInv, [WorkerNext]_vars, NEW c \in Callers, caller'[c] = "ok"
             PROVE  delivered'[CallOf[c]] = 1
    BY DEF HonestSuccess
<1>1. delivered[CallOf[c]] = 1
    BY LearnsSuccess DEF WInv, HonestSuccess
<1> QED
    BY <1>1, CallersOps, RunsStep, DeliveredStays

-----------------------------------------------------------------------------
(* The invariant, and what follows from it.                                 *)

LEMMA WorkerInvStep == WInv /\ [WorkerNext]_vars => WInv'
    BY TypesStep, RunsStep, FenceStep, SuccessStep DEF WInv

\* However many calls race for an operation and however often the broker
\* panics, is unlocked, crashes and starts again, rows, runs, fence, panes and
\* answers agree: one delivery at most, and success only for a delivery.
THEOREM WorkerInvariant == WorkerSpec => []WInv
<1>1. WorkerInit => WInv
  <2> SUFFICES ASSUME WorkerInit PROVE WInv
    OBVIOUS
  <2>1. WorkerTypeOK
    <3>1. <<>> \in Seq({"panic", "unlock"})
      OBVIOUS
    <3> QED
      BY <3>1 DEF WorkerInit, WorkerTypeOK, OperStates, Points
  <2>2. RunsFit
    BY CallersOps DEF WorkerInit, RunsFit, OneRun, RunFits, RowFits, Claimed, Crossed
  <2>3. FenceFits /\ HonestSuccess
    BY DEF WorkerInit, FenceFits, HonestSuccess, Active
  <2> QED
    BY <2>1, <2>2, <2>3 DEF WInv
<1> QED
    BY <1>1, WorkerInvStep, PTL DEF WorkerSpec

\* Between a panic answered quiesced and the next unlock nothing reaches a pane.
THEOREM PanicStaysQuiet == WorkerSpec => QuietAfterPanic
<1>1. WInv /\ [WorkerNext]_vars => (calm => delivered' = delivered)
  <2> SUFFICES ASSUME WInv, [WorkerNext]_vars, calm PROVE delivered' = delivered
    OBVIOUS
  <2>1. NoneCrossed /\ delivered \in [Ops -> Nat]
    BY DEF WInv, FenceFits, WorkerTypeOK
  <2>2. ASSUME NEW c \in Callers, Handle(c) PROVE delivered' = delivered
    BY <2>1, <2>2 DEF NoneCrossed, Crossed, Handle, Prepared, PreflightFails, Claim, NotClaimed,
       Resolved, NotResolved, MarkDelivery, SendFails, CheckSignal, Complete, Evidence, NoEvidence,
       Paste, PasteFails
  <2>3. CASE Crash
    BY <2>1, <2>3 DEF Crash, NoneCrossed, Crossed
  <2>4. ASSUME NEW c \in Callers,
               Preflight(c) \/ Commit(c) \/ Disconnect(c) \/ Ask(c) \/ GiveUp(c)
        PROVE  delivered' = delivered
    BY <2>4 DEF Preflight, Commit, Disconnect, Ask, GiveUp
  <2>5. ASSUME Control \/ Close \/ Closed \/ Restart PROVE delivered' = delivered
    BY <2>5 DEF Control, PanicBegins, PanicFails, PanicEnds, UnlockRefused, UnlockBegins,
       RootUnlocked, UnlockFails, UnlockEnds, Close, Closed, Restart
  <2>6. ASSUME NEW o \in Ops, Interrupt(o) PROVE delivered' = delivered
    BY <2>6 DEF Interrupt
  <2>7. ASSUME NEW kind \in {"panic", "unlock"}, Enqueue(kind) PROVE delivered' = delivered
    BY <2>7 DEF Enqueue
  <2> QED
    BY <2>2, <2>3, <2>4, <2>5, <2>6, <2>7 DEF WorkerNext, vars
<1> QED
    BY <1>1, WorkerInvariant, PTL DEF WorkerSpec, QuietAfterPanic

-----------------------------------------------------------------------------
(* The plane.                                                               *)

\* What begins no work, and lifts no fence, is a step of the plane or none.
LEMMA PlaneLocks ==
    ASSUME fence \in BOOLEAN, Busy' => Busy, UNCHANGED fence \/ fence'
    PROVE  [Plane!Next]_<<fence, Busy>>
<1>1. Busy \in BOOLEAN /\ Busy' \in BOOLEAN
    BY DEF Busy
<1>2. CASE Busy /\ ~Busy'
    BY <1>2 DEF Plane!Next, Plane!End
<1>3. CASE UNCHANGED Busy /\ UNCHANGED fence
    BY <1>3
<1>4. CASE UNCHANGED Busy /\ fence'
    BY <1>4 DEF Plane!Next, Plane!Lock
<1> QED
    BY <1>1, <1>2, <1>3, <1>4

\* Work only begins with a prepared row.
LEMMA BusyStep ==
    ASSUME WInv, NEW c \in Callers, Handle(c), ~Prepared(c)
    PROVE  (Busy' => Busy) /\ UNCHANGED fence
<1> USE CallersOps DEF brokerVars
<1>0. /\ WorkerTypeOK /\ RunFits(c) /\ OneRun
    BY DEF WInv, RunsFit
<1>1. ASSUME oper' = oper \/ oper' = Failed(CallOf[c]) \/ oper' = Finish(CallOf[c], "completed"),
             Leave(c)
      PROVE  Busy' => Busy
  <2>1. \A o \in Ops : Active(o)' => Active(o)
    BY <1>0, <1>1, FailedRows, FinishedRows DEF Active
  <2>2. NoneCrossed => NoneCrossed'
    BY <1>0, <1>1, Left DEF NoneCrossed, Crossed
  <2> QED
    BY <2>1, <2>2 DEF Busy
<1>2. CASE Claim(c)
    BY <1>0, <1>2 DEF Claim, Busy, Active
<1>3. CASE \/ PreflightFails(c) \/ NotClaimed(c) \/ NotResolved(c) \/ SendFails(c) \/ PasteFails(c)
           \/ Complete(c)
  <2>1. /\ UNCHANGED fence /\ Leave(c)
        /\ oper' = oper \/ oper' = Failed(CallOf[c]) \/ oper' = Finish(CallOf[c], "completed")
    BY <1>3 DEF PreflightFails, NotClaimed, NotResolved, SendFails, PasteFails, Complete, Throw
  <2> QED
    BY <1>1, <2>1
<1>4. CASE Resolved(c)
    BY <1>0, <1>4 DEF Resolved, Busy, NoneCrossed, Crossed, Active, WorkerTypeOK
<1>5. CASE MarkDelivery(c)
    BY <1>0, <1>5 DEF MarkDelivery, Busy, Active
<1>6. CASE CheckSignal(c)
  <2>1. CASE Throw(c)
    BY <1>1, <1>6, <2>1 DEF CheckSignal, Throw
  <2>2. CASE UNCHANGED oper /\ handler[c] = "marked"
    BY <1>6, <2>2 DEF CheckSignal, Busy, NoneCrossed, Crossed
  <2> QED
    BY <1>6, <2>1, <2>2 DEF CheckSignal
<1>7. CASE Paste(c)
    BY <1>7 DEF Paste, Busy, NoneCrossed, Crossed
<1>8. CASE Evidence(c)
  <2>1. \A o \in Ops : Active(o)' => Active(o)
    BY <1>0, <1>8 DEF Evidence, WorkerTypeOK, Active
  <2> QED
    BY <1>8, <2>1 DEF Evidence, Busy, NoneCrossed, Crossed
<1>9. CASE NoEvidence(c)
    BY <1>9 DEF NoEvidence, Busy, NoneCrossed, Crossed, Active
<1> QED
    BY <1>2, <1>3, <1>4, <1>5, <1>6, <1>7, <1>8, <1>9 DEF Handle

LEMMA WorkerPlaneStep == WInv /\ [WorkerNext]_vars => [Plane!Next]_<<fence, Busy>>
<1> SUFFICES ASSUME WInv, [WorkerNext]_vars PROVE [Plane!Next]_<<fence, Busy>>
    OBVIOUS
<1>0. WorkerTypeOK /\ FenceFits /\ fence \in BOOLEAN
    BY DEF WInv, WorkerTypeOK
<1> USE CallersOps, <1>0
<1>a. ASSUME UNCHANGED <<oper, handler>>, UNCHANGED fence \/ fence'
      PROVE  [Plane!Next]_<<fence, Busy>>
  <2>1. Busy' = Busy
    BY <1>a DEF Busy, Active, NoneCrossed, Crossed
  <2> QED
    BY <1>a, <2>1, PlaneLocks
<1>1. ASSUME NEW c \in Callers, Preflight(c) \/ Commit(c) PROVE [Plane!Next]_<<fence, Busy>>
  <2>1. UNCHANGED <<oper, fence>>
    BY <1>1 DEF Preflight, Commit
  <2>2. NoneCrossed => NoneCrossed'
    BY <1>1 DEF Preflight, Commit, NoneCrossed, Crossed, WorkerTypeOK
  <2>3. Busy' => Busy
    BY <2>1, <2>2 DEF Busy, Active
  <2> QED
    BY <2>1, <2>3, PlaneLocks
<1>2. ASSUME NEW c \in Callers, Handle(c) PROVE [Plane!Next]_<<fence, Busy>>
  <2>1. CASE Prepared(c)
    <3>1. ~fence /\ UNCHANGED fence
      BY <2>1 DEF Prepared
    <3>2. CASE Busy
      <4>1. oper[CallOf[c]] # "absent" => oper' = oper
        BY <2>1 DEF Prepared, WorkerTypeOK
      <4>2. oper[CallOf[c]] = "absent" => Active(CallOf[c])'
        BY <2>1 DEF Prepared, WorkerTypeOK, Active
      <4>3. ~NoneCrossed => ~NoneCrossed'
        BY <2>1, Left DEF Prepared, NoneCrossed, Crossed
      <4>4. Busy'
        BY <3>2, <4>1, <4>2, <4>3 DEF Busy, Active
      <4> QED
        BY <3>1, <3>2, <4>4, PlaneLocks
    <3>3. CASE ~Busy
      BY <3>1, <3>3, PlaneLocks DEF Plane!Next, Plane!Begin
    <3> QED
      BY <3>2, <3>3
  <2>2. CASE ~Prepared(c)
    BY <1>2, <2>2, BusyStep, PlaneLocks
  <2> QED
    BY <2>1, <2>2
<1>3. ASSUME NEW c \in Callers, Disconnect(c) \/ Ask(c) \/ GiveUp(c)
      PROVE  [Plane!Next]_<<fence, Busy>>
    BY <1>3, <1>a DEF Disconnect, Ask, GiveUp, runVars
<1>4. ASSUME NEW o \in Ops, Interrupt(o) PROVE [Plane!Next]_<<fence, Busy>>
    BY <1>4, <1>a DEF Interrupt
<1>5. ASSUME NEW kind \in {"panic", "unlock"}, Enqueue(kind) PROVE [Plane!Next]_<<fence, Busy>>
    BY <1>5, <1>a DEF Enqueue, runVars
<1>6. CASE PanicBegins \/ UnlockFails
  <2>1. \A o \in Ops : ~Active(o)'
    BY <1>6, FencedRows DEF PanicBegins, UnlockFails, Active
  <2>2. NoneCrossed' = NoneCrossed /\ fence'
    BY <1>6 DEF PanicBegins, UnlockFails, runVars, NoneCrossed, Crossed
  <2>3. Busy' => Busy
    BY <2>1, <2>2 DEF Busy
  <2> QED
    BY <2>2, <2>3, PlaneLocks
<1>7. CASE \/ PanicFails \/ PanicEnds \/ UnlockRefused \/ UnlockBegins \/ RootUnlocked
           \/ Close \/ Closed
    BY <1>7, <1>a DEF PanicFails, PanicEnds, UnlockRefused, UnlockBegins, RootUnlocked, Close, Closed,
       runVars
<1>8. CASE UnlockEnds
  <2>1. UNCHANGED <<oper, handler>> /\ stage = "supervisors"
    BY <1>8 DEF UnlockEnds, runVars
  <2>2. CASE UNCHANGED fence
    BY <1>a, <2>1, <2>2
  <2>3. CASE fence /\ ~fence' /\ \A o \in Ops : ~Active(o)
    <3>1. ~Busy /\ ~Busy'
      BY <2>1, <2>3 DEF Busy, FenceFits, Active, NoneCrossed, Crossed
    <3> QED
      BY <2>3, <3>1 DEF Plane!Next, Plane!Unlock, Busy
  <2> QED
    BY <1>8, <2>2, <2>3 DEF UnlockEnds
<1>9. CASE Crash
  <2>1. UNCHANGED <<oper, fence>> /\ NoneCrossed'
    BY <1>9 DEF Crash, NoneCrossed, Crossed
  <2>2. Busy' => Busy
    BY <2>1 DEF Busy, Active
  <2> QED
    BY <2>1, <2>2, PlaneLocks
<1>10. CASE Restart
  <2>1. \A o \in Ops : Active(o)' = Active(o)
    BY <1>10, RecoveredRows DEF Restart, Active
  <2>2. Busy' = Busy /\ UNCHANGED fence
    BY <1>10, <2>1 DEF Restart, runVars, Busy, NoneCrossed, Crossed
  <2> QED
    BY <2>2, PlaneLocks
<1>11. CASE UNCHANGED vars
    BY <1>11, <1>a DEF vars, runVars
<1> QED
    BY <1>1, <1>2, <1>3, <1>4, <1>5, <1>6, <1>7, <1>8, <1>9, <1>10, <1>11 DEF WorkerNext, Control

\* The broker's fence is the plane the emergency stop counts on: no work begins
\* behind it, and it is lifted when no row is active and no run can reach a pane.
THEOREM WorkerIsAPlane == WorkerSpec => KeepsWorkerPlane
<1>1. WorkerInit => Plane!Init
    BY DEF WorkerInit, Plane!Init, Busy, Active, NoneCrossed, Crossed
<1> QED
    BY <1>1, WorkerPlaneStep, WorkerInvariant, PTL DEF WorkerSpec, KeepsWorkerPlane, Plane!Spec

-----------------------------------------------------------------------------
(* The promise about one operation.                                         *)

LEMMA SameRow ==
    ASSUME NEW o \in Ops, oper'[o] = oper[o]
    PROVE  /\ OperStatus(o)' = OperStatus(o) /\ OperVerdict(o)' = OperVerdict(o)
           /\ OperCommitted(o)' = OperCommitted(o)
    BY DEF OperStatus, OperVerdict, OperCommitted

\* The rows whose request is open, before and after the boundary.
LEMMA RowPending ==
    ASSUME NEW o \in Ops
    PROVE  /\ oper[o] \in {"prepared", "commit_claimed"}
                => OperStatus(o) = "pending" /\ OperVerdict(o) = "none" /\ OperCommitted(o) = FALSE
           /\ oper[o] \in {"delivery_started", "outcome_unknown"}
                => OperStatus(o) = "pending" /\ OperVerdict(o) = "none" /\ OperCommitted(o) = TRUE
    BY DEF OperStatus, OperVerdict, OperCommitted

LEMMA RowPendingNext ==
    ASSUME NEW o \in Ops
    PROVE  /\ oper'[o] \in {"prepared", "commit_claimed"}
                => /\ OperStatus(o)' = "pending" /\ OperVerdict(o)' = "none"
                   /\ OperCommitted(o)' = FALSE
           /\ oper'[o] \in {"delivery_started", "outcome_unknown"}
                => /\ OperStatus(o)' = "pending" /\ OperVerdict(o)' = "none"
                   /\ OperCommitted(o)' = TRUE
    BY DEF OperStatus, OperVerdict, OperCommitted

\* A row moves on without closing: between claims, or behind the boundary.
RowKept(o) == \/ oper'[o] = oper[o]
              \/ /\ oper[o] \in {"prepared", "commit_claimed"}
                 /\ oper'[o] \in {"prepared", "commit_claimed"}
              \/ oper[o] = "delivery_started" /\ oper'[o] = "outcome_unknown"

LEMMA KeptRow ==
    ASSUME NEW o \in Ops, RowKept(o)
    PROVE  /\ OperStatus(o)' = OperStatus(o) /\ OperVerdict(o)' = OperVerdict(o)
           /\ OperCommitted(o)' = OperCommitted(o)
    BY SameRow, RowPending, RowPendingNext DEF RowKept

LEMMA PromiseStutters ==
    ASSUME RowKept(Watched), OperPermitted(Watched)' = OperPermitted(Watched),
           delivered'[Watched] = delivered[Watched]
    PROVE  [Promise!Next]_(Promise!vars)
    BY KeptRow, WatchedAssumption DEF Promise!vars

\* The permission is withdrawn, or used.
LEMMA PromiseLapses ==
    ASSUME RowKept(Watched), OperPermitted(Watched)' => OperPermitted(Watched),
           delivered'[Watched] = delivered[Watched]
    PROVE  [Promise!Next]_(Promise!vars)
<1>1. OperPermitted(Watched) \in BOOLEAN /\ OperPermitted(Watched)' \in BOOLEAN
    BY DEF OperPermitted
<1>2. CASE OperPermitted(Watched) /\ ~OperPermitted(Watched)'
    BY <1>1, <1>2, KeptRow, WatchedAssumption DEF Promise!Lapse, Promise!Next
<1>3. CASE OperPermitted(Watched)' = OperPermitted(Watched)
    BY <1>3, PromiseStutters
<1> QED
    BY <1>1, <1>2, <1>3

LEMMA PromiseDelivers ==
    ASSUME RowKept(Watched), OperPermitted(Watched), ~OperPermitted(Watched)',
           delivered'[Watched] = delivered[Watched] + 1
    PROVE  [Promise!Next]_(Promise!vars)
<1>1. OperPermitted(Watched)' = FALSE
    BY DEF OperPermitted
<1> QED
    BY <1>1, KeptRow, WatchedAssumption DEF Promise!Deliver, Promise!Next

\* What a row that closes reports.
LEMMA PromiseCloses ==
    ASSUME OperPermitted(Watched)' = OperPermitted(Watched), delivered'[Watched] = delivered[Watched],
           \/ oper[Watched] \in {"prepared", "commit_claimed"} /\ oper'[Watched] = "failed_pre_delivery"
           \/ /\ oper[Watched] \in {"delivery_started", "outcome_unknown"} /\ oper'[Watched] = "completed"
              /\ delivered[Watched] = 1
    PROVE  [Promise!Next]_(Promise!vars)
<1>1. OperStatus(Watched) = "pending" /\ OperStatus(Watched)' = "closed"
    BY RowPending, WatchedAssumption DEF OperStatus
<1>2. OperCommitted(Watched)' = OperCommitted(Watched)
    BY RowPending, WatchedAssumption DEF OperCommitted
<1>3. \/ delivered[Watched] = 1 /\ OperVerdict(Watched)' = "done"
      \/ ~OperCommitted(Watched) /\ OperVerdict(Watched)' = "untouched"
    BY DEF OperVerdict, OperCommitted
<1> QED
    BY <1>1, <1>2, <1>3 DEF Promise!Close, Promise!Next

\* The permission stands with the handlers and signals of the operation's calls.
LEMMA SamePermission ==
    ASSUME \A d \in Callers : CallOf[d] = Watched => (MayPaste(d)' <=> MayPaste(d))
    PROVE  OperPermitted(Watched)' = OperPermitted(Watched)
    BY DEF OperPermitted

\* While a run has the row nobody else may paste for it.
LEMMA RunPermission ==
    ASSUME WInv, NEW c \in Callers, Claimed(c),
           \A d \in Callers \ {c} : MayPaste(d)' => MayPaste(d)
    PROVE  /\ OperPermitted(CallOf[c]) <=> MayPaste(c)
           /\ OperPermitted(CallOf[c])' <=> MayPaste(c)'
<1>1. \A d \in Callers \ {c} : CallOf[d] = CallOf[c] => ~MayPaste(d)
    BY DEF WInv, RunsFit, OneRun, Claimed, MayPaste
<1> QED
    BY <1>1 DEF OperPermitted

\* A handler leaves an operation that is not its own alone.
LEMMA OtherOperations ==
    ASSUME WInv, NEW c \in Callers, Handle(c), CallOf[c] # Watched
    PROVE  [Promise!Next]_(Promise!vars)
<1> USE CallersOps, WatchedAssumption
<1>0. WorkerTypeOK
    BY DEF WInv
<1>1. oper'[Watched] = oper[Watched]
  <2>1. CASE Prepared(c) \/ Claim(c) \/ MarkDelivery(c) \/ Evidence(c)
    BY <1>0, <2>1 DEF Prepared, Claim, MarkDelivery, Evidence, WorkerTypeOK
  <2>2. CASE ~(Prepared(c) \/ Claim(c) \/ MarkDelivery(c) \/ Evidence(c))
    <3>1. oper' = oper \/ oper' = Failed(CallOf[c]) \/ oper' = Finish(CallOf[c], "completed")
      BY <2>2 DEF Handle, PreflightFails, NotClaimed, Resolved, NotResolved, SendFails, CheckSignal,
         Paste, PasteFails, Complete, NoEvidence, Throw
    <3> QED
      BY <1>0, <3>1, FailedRows, FinishedRows
  <2> QED
    BY <2>1, <2>2
<1>2. delivered'[Watched] = delivered[Watched]
  <2>1. CASE Paste(c) \/ PasteFails(c)
    BY <1>0, <2>1 DEF Paste, PasteFails, WorkerTypeOK
  <2>2. CASE ~(Paste(c) \/ PasteFails(c))
    BY <2>2 DEF Handle, Prepared, PreflightFails, Claim, NotClaimed, Resolved, NotResolved,
       MarkDelivery, SendFails, CheckSignal, Complete, Evidence, NoEvidence
  <2> QED
    BY <2>1, <2>2
<1>3. \A d \in Callers \ {c} : handler'[d] = handler[d] /\ aborted'[d] = aborted[d]
  <2>1. \/ Leave(c)
        \/ \E p \in Points : handler' = [handler EXCEPT ![c] = p] /\ UNCHANGED aborted
        \/ UNCHANGED <<handler, aborted>>
    BY DEF Handle, Prepared, PreflightFails, Claim, NotClaimed, Resolved, NotResolved, MarkDelivery,
       SendFails, CheckSignal, Paste, PasteFails, Complete, Evidence, NoEvidence, Throw, Points
  <2> QED
    BY <1>0, <2>1 DEF Leave, WorkerTypeOK
<1>4. OperPermitted(Watched)' = OperPermitted(Watched)
    BY <1>3, SamePermission DEF MayPaste
<1> QED
    BY <1>1, <1>2, <1>4, PromiseStutters DEF RowKept

\* The handlers of the operation itself.
LEMMA OwnOperation ==
    ASSUME WInv, NEW c \in Callers, Handle(c), CallOf[c] = Watched
    PROVE  [Promise!Next]_(Promise!vars)
<1> USE CallersOps, WatchedAssumption
<1>0. WorkerTypeOK /\ RunFits(c) /\ RowFits(Watched)
    BY DEF WInv, RunsFit
\* a handler that may not paste, and does not come to
<1>a. ASSUME ~MayPaste(c), ~MayPaste(c)',
             \A d \in Callers \ {c} : MayPaste(d)' <=> MayPaste(d)
      PROVE  OperPermitted(Watched)' = OperPermitted(Watched)
    BY <1>a, SamePermission
<1>b. ASSUME Leave(c)
      PROVE  /\ ~MayPaste(c)' /\ ~Claimed(c)'
             /\ \A d \in Callers \ {c} : MayPaste(d)' <=> MayPaste(d)
    BY <1>0, <1>b DEF Leave, MayPaste, Claimed, WorkerTypeOK
<1>c. ASSUME NEW p \in Points, handler' = [handler EXCEPT ![c] = p], UNCHANGED aborted
      PROVE  /\ handler'[c] = p
             /\ \A d \in Callers \ {c} : MayPaste(d)' <=> MayPaste(d)
    BY <1>0, <1>c DEF MayPaste, WorkerTypeOK
\* a row the catch block closes, or leaves open
<1>d. ASSUME oper' = Failed(Watched), delivered' = delivered,
             OperPermitted(Watched)' = OperPermitted(Watched)
      PROVE  [Promise!Next]_(Promise!vars)
  <2>1. CASE oper[Watched] = "commit_claimed"
    BY <1>0, <1>d, <2>1, FailedRows, PromiseCloses
  <2>2. CASE oper[Watched] # "commit_claimed"
    BY <1>0, <1>d, <2>2, FailedRows, PromiseStutters DEF RowKept
  <2> QED
    BY <2>1, <2>2
<1>1. CASE Prepared(c)
  <2>1. OperPermitted(Watched)' = OperPermitted(Watched) /\ delivered' = delivered
    BY <1>1, <1>a, <1>b DEF Prepared, MayPaste
  <2>2. CASE oper[Watched] = "absent"
    <3>1. oper'[Watched] = "prepared"
      BY <1>0, <1>1, <2>2 DEF Prepared, WorkerTypeOK
    <3>2. OperStatus(Watched) = "absent" /\ OperVerdict(Watched) = "none" /\ OperCommitted(Watched) = FALSE
      BY <2>2 DEF OperStatus, OperVerdict, OperCommitted
    <3>3. OperStatus(Watched)' = "pending" /\ OperVerdict(Watched)' = "none" /\ OperCommitted(Watched)' = FALSE
      BY <3>1, RowPendingNext
    <3> QED
      BY <2>1, <3>2, <3>3 DEF Promise!Accept, Promise!Next
  <2>3. CASE oper[Watched] # "absent"
    BY <1>0, <1>1, <2>1, <2>3, PromiseStutters DEF Prepared, RowKept, WorkerTypeOK
  <2> QED
    BY <2>2, <2>3
<1>2. CASE PreflightFails(c) \/ NotClaimed(c)
    BY <1>2, <1>a, <1>b, PromiseStutters DEF PreflightFails, NotClaimed, MayPaste, RowKept
<1>3. CASE Claim(c)
  <2>1. oper[Watched] = "prepared" /\ oper'[Watched] = "commit_claimed"
    BY <1>0, <1>3 DEF Claim, WorkerTypeOK
  <2>2. OperPermitted(Watched)' = OperPermitted(Watched)
    BY <1>3, <1>a, <1>c DEF Claim, MayPaste, Points
  <2> QED
    BY <1>3, <2>1, <2>2, PromiseStutters DEF Claim, RowKept
<1>4. CASE Resolved(c)
    BY <1>4, <1>a, <1>c, PromiseStutters DEF Resolved, MayPaste, Points, RowKept
<1>5. CASE NotResolved(c) \/ SendFails(c)
  <2>1. oper' = Failed(Watched) /\ delivered' = delivered /\ Leave(c) /\ ~MayPaste(c)
    BY <1>5 DEF NotResolved, SendFails, Throw, MayPaste
  <2> QED
    BY <2>1, <1>a, <1>b, <1>d
<1>6. CASE MarkDelivery(c)
  <2>1. oper[Watched] = "commit_claimed" /\ oper'[Watched] = "delivery_started"
    BY <1>0, <1>6 DEF MarkDelivery, WorkerTypeOK
  <2>2. OperPermitted(Watched)' \in BOOLEAN /\ delivered' = delivered
    BY <1>6 DEF MarkDelivery, OperPermitted
  <2> QED
    BY <2>1, <2>2, RowPending, RowPendingNext DEF Promise!Commit, Promise!Next
<1>7. CASE CheckSignal(c)
  <2>1. CASE aborted[c] /\ Throw(c)
    BY <1>7, <2>1, <1>a, <1>b, <1>d DEF CheckSignal, Throw, MayPaste
  <2>2. CASE ~aborted[c] /\ handler' = [handler EXCEPT ![c] = "pasting"] /\ UNCHANGED <<oper, aborted>>
    <3>1. MayPaste(c) /\ MayPaste(c)'
      BY <1>7, <2>2, <1>c DEF CheckSignal, MayPaste, Points
    <3>2. \A d \in Callers \ {c} : MayPaste(d)' <=> MayPaste(d)
      BY <2>2, <1>c DEF Points
    <3>3. OperPermitted(Watched)' = OperPermitted(Watched)
      BY <3>1, <3>2, SamePermission
    <3> QED
      BY <1>7, <2>2, <3>3, PromiseStutters DEF CheckSignal, RowKept
  <2> QED
    BY <1>7, <2>1, <2>2 DEF CheckSignal
<1>8. CASE Paste(c)
  <2>1. /\ MayPaste(c) /\ ~MayPaste(c)' /\ Claimed(c)
        /\ \A d \in Callers \ {c} : MayPaste(d)' <=> MayPaste(d)
    BY <1>8, <1>c DEF Paste, MayPaste, Claimed, Points
  <2>2. OperPermitted(Watched) /\ ~OperPermitted(Watched)'
    BY <2>1, RunPermission
  <2>3. oper' = oper /\ delivered'[Watched] = delivered[Watched] + 1
    BY <1>0, <1>8 DEF Paste, WorkerTypeOK
  <2> QED
    BY <2>2, <2>3, PromiseDelivers DEF RowKept
<1>9. CASE PasteFails(c)
  <2>1. /\ MayPaste(c) /\ ~MayPaste(c)' /\ Claimed(c) /\ Crossed(c)
        /\ \A d \in Callers \ {c} : MayPaste(d)' <=> MayPaste(d)
    BY <1>9, <1>b DEF PasteFails, Throw, MayPaste, Claimed, Crossed
  <2>2. OperPermitted(Watched) /\ ~OperPermitted(Watched)'
    BY <2>1, RunPermission
  <2>3. oper[Watched] \in {"delivery_started", "outcome_unknown", "completed"}
    BY <1>0, <2>1 DEF RunFits
  <2>4. RowKept(Watched)
    BY <1>0, <1>9, <2>3, FailedRows DEF PasteFails, Throw, RowKept
  <2>5. delivered'[Watched] = delivered[Watched] \/ delivered'[Watched] = delivered[Watched] + 1
    BY <1>0, <1>9 DEF PasteFails, WorkerTypeOK
  <2> QED
    BY <2>2, <2>4, <2>5, PromiseDelivers, PromiseLapses
<1>10. CASE Complete(c)
  <2>1. /\ oper' = Finish(Watched, "completed") /\ delivered' = delivered /\ delivered[Watched] = 1
        /\ OperPermitted(Watched)' = OperPermitted(Watched)
        /\ oper[Watched] \in {"delivery_started", "outcome_unknown", "completed"}
    BY <1>0, <1>10, <1>a, <1>b DEF Complete, MayPaste, RunFits, Crossed
  <2>2. CASE oper[Watched] = "delivery_started"
    BY <1>0, <2>1, <2>2, FinishedRows, PromiseCloses DEF OperTerminal
  <2>3. CASE oper[Watched] # "delivery_started"
    BY <1>0, <2>1, <2>3, FinishedRows, PromiseStutters DEF OperTerminal, RowKept
  <2> QED
    BY <2>2, <2>3
<1>11. CASE Evidence(c)
  <2>1. /\ oper'[Watched] = "completed" /\ delivered[Watched] = 1 /\ delivered' = delivered
        /\ oper[Watched] \in {"delivery_started", "outcome_unknown", "completed"}
    BY <1>0, <1>11 DEF Evidence, RowFits, WorkerTypeOK
  <2>2. OperPermitted(Watched)' = OperPermitted(Watched)
    BY <1>11, SamePermission DEF Evidence, MayPaste
  <2>3. CASE oper[Watched] = "completed"
    BY <2>1, <2>2, <2>3, PromiseStutters DEF RowKept
  <2>4. CASE oper[Watched] # "completed"
    BY <2>1, <2>2, <2>4, PromiseCloses
  <2> QED
    BY <2>3, <2>4
<1>12. CASE NoEvidence(c)
    BY <1>12, SamePermission, PromiseStutters DEF NoEvidence, MayPaste, RowKept
<1> QED
    BY <1>1, <1>2, <1>3, <1>4, <1>5, <1>6, <1>7, <1>8, <1>9, <1>10, <1>11, <1>12 DEF Handle

\* What a panic, or an unlock that fails, does to the row.
LEMMA FencedPromise ==
    ASSUME oper' = oper \/ oper' = Fenced, delivered' = delivered,
           OperPermitted(Watched)' => OperPermitted(Watched),
           WInv
    PROVE  [Promise!Next]_(Promise!vars)
<1> USE WatchedAssumption
<1>1. CASE oper[Watched] \in {"prepared", "commit_claimed"} /\ oper' = Fenced
  <2>1. ~OperPermitted(Watched)
    BY <1>1 DEF OperPermitted, MayPaste, WInv, RunsFit, RunFits, Crossed
  <2>2. OperPermitted(Watched)' = OperPermitted(Watched)
    BY <2>1 DEF OperPermitted
  <2> QED
    BY <1>1, <2>2, FencedRows, PromiseCloses
<1>2. CASE ~(oper[Watched] \in {"prepared", "commit_claimed"} /\ oper' = Fenced)
  <2>1. RowKept(Watched)
    BY <1>2, FencedRows DEF RowKept, Active
  <2> QED
    BY <2>1, PromiseLapses
<1> QED
    BY <1>1, <1>2

LEMMA PromiseStep == WInv /\ [WorkerNext]_vars => [Promise!Next]_(Promise!vars)
<1> SUFFICES ASSUME WInv, [WorkerNext]_vars PROVE [Promise!Next]_(Promise!vars)
    OBVIOUS
<1>0. WorkerTypeOK
    BY DEF WInv
<1> USE CallersOps, WatchedAssumption
\* what touches neither rows nor panes, and permits nothing new
<1>a. ASSUME UNCHANGED <<oper, delivered>>, \A d \in Callers : MayPaste(d)' => MayPaste(d)
      PROVE  [Promise!Next]_(Promise!vars)
    BY <1>a, PromiseLapses DEF OperPermitted, RowKept
<1>1. ASSUME NEW c \in Callers, Preflight(c) \/ Commit(c) PROVE [Promise!Next]_(Promise!vars)
    BY <1>0, <1>1, <1>a DEF Preflight, Commit, MayPaste, WorkerTypeOK
<1>2. ASSUME NEW c \in Callers, Handle(c) PROVE [Promise!Next]_(Promise!vars)
    BY <1>2, OwnOperation, OtherOperations
<1>3. ASSUME NEW c \in Callers, Disconnect(c) PROVE [Promise!Next]_(Promise!vars)
  <2>1. \A d \in Callers : aborted[d] => aborted'[d]
    BY <1>0, <1>3 DEF Disconnect, WorkerTypeOK
  <2> QED
    BY <1>3, <1>a, <2>1 DEF Disconnect, MayPaste
<1>4. ASSUME NEW c \in Callers, Ask(c) \/ GiveUp(c) PROVE [Promise!Next]_(Promise!vars)
    BY <1>4, <1>a DEF Ask, GiveUp, runVars, MayPaste
<1>5. ASSUME NEW o \in Ops, Interrupt(o) PROVE [Promise!Next]_(Promise!vars)
    BY <1>5, <1>a DEF Interrupt, MayPaste
<1>6. ASSUME NEW kind \in {"panic", "unlock"}, Enqueue(kind) PROVE [Promise!Next]_(Promise!vars)
    BY <1>6, <1>a DEF Enqueue, runVars, MayPaste
<1>7. CASE Control
  <2>1. oper' = oper \/ oper' = Fenced
    BY <1>7 DEF Control, PanicBegins, PanicFails, PanicEnds, UnlockRefused, UnlockBegins,
       RootUnlocked, UnlockFails, UnlockEnds
  <2>2. delivered' = delivered /\ \A d \in Callers : MayPaste(d)' => MayPaste(d)
    BY <1>7 DEF Control, PanicBegins, PanicFails, PanicEnds, UnlockRefused, UnlockBegins,
       RootUnlocked, UnlockFails, UnlockEnds, AbortRuns, runVars, MayPaste
  <2> QED
    BY <2>1, <2>2, FencedPromise DEF OperPermitted
<1>8. CASE Close \/ Closed
    BY <1>8, <1>a DEF Close, Closed, runVars, MayPaste
<1>9. CASE Crash
  <2>1. PICK landed \in SUBSET {c \in Callers : handler[c] = "pasting"} :
           delivered' = [o \in Ops |-> delivered[o] +
                           IF \E c \in landed : CallOf[c] = o THEN 1 ELSE 0]
    BY <1>9 DEF Crash
  <2>2. oper' = oper /\ ~OperPermitted(Watched)'
    BY <1>9 DEF Crash, OperPermitted, MayPaste
  <2>3. CASE \E c \in landed : CallOf[c] = Watched
    <3>1. delivered'[Watched] = delivered[Watched] + 1 /\ OperPermitted(Watched)
      BY <2>1, <2>3 DEF OperPermitted, MayPaste
    <3> QED
      BY <2>2, <3>1, PromiseDelivers DEF RowKept
  <2>4. CASE ~ \E c \in landed : CallOf[c] = Watched
    <3>1. delivered'[Watched] = delivered[Watched]
      BY <1>0, <2>1, <2>4 DEF WorkerTypeOK
    <3> QED
      BY <2>2, <3>1, PromiseLapses DEF RowKept
  <2> QED
    BY <2>3, <2>4
<1>10. CASE Restart
  <2>1. RowKept(Watched)
    BY <1>10, RecoveredRows DEF Restart, RowKept
  <2>2. delivered' = delivered /\ OperPermitted(Watched)' = OperPermitted(Watched)
    BY <1>10, SamePermission DEF Restart, runVars, MayPaste
  <2> QED
    BY <2>1, <2>2, PromiseStutters
<1>11. CASE UNCHANGED vars
    BY <1>11, <1>a DEF vars, runVars, MayPaste
<1> QED
    BY <1>1, <1>2, <1>3, <1>4, <1>5, <1>6, <1>7, <1>8, <1>9, <1>10, <1>11 DEF WorkerNext

\* Claims, fence, restarts and reconciliation do to an operation only what the
\* abstract promise allows, whichever operation is watched.
THEOREM WorkerKeepsPromise == WorkerSpec => KeepsOperationPromise
<1>1. WorkerInit => Promise!Init
    BY WatchedAssumption DEF WorkerInit, Promise!Init, OperStatus, OperVerdict, OperCommitted,
       OperPermitted, MayPaste
<1> QED
    BY <1>1, PromiseStep, WorkerInvariant, PTL DEF WorkerSpec, KeepsOperationPromise, Promise!Spec
=============================================================================
